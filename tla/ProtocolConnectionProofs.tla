---------------------- MODULE ProtocolConnectionProofs ----------------------
(***************************************************************************)
(* Proofs about ProtocolConnection, for any set of application threads,    *)
(* any stream of frames, any number of chunks and calls: type correctness, *)
(* that messages are contiguous on the socket, and that the connection     *)
(* implements FrameChannel.  The last section proves of Formats that what  *)
(* a connection carries is read back, or noticed to be cut.                *)
(*                                                                         *)
(* The inductive invariant has three parts.  Sending relates the lock, the *)
(* chunks a thread has written and the last chunk on the socket.  Closing  *)
(* says that of all threads in close() one at most is past the check.      *)
(* Receiving says where in the stream the buffer begins at each place of   *)
(* the receiver's loop: at the end of the last frame handled, unless the   *)
(* connection was closed while a frame was unpacked, and then no other     *)
(* frame is looked at.                                                     *)
(***************************************************************************)
EXTENDS ProtocolConnection, Formats, FiniteSetTheorems, SequenceTheorems,
        WellFoundedInduction, TLAPS

Broken == ~sockOpen \/ peer = "rst"
LastChunk == outbound[Len(outbound)]

LockHeld == \A t \in Threads : pc[t] = "s_chunk" <=> sendingLock = t

LastIsItsOwn ==
  \A t \in Threads : chunk[t] > 0 =>
    pc[t] = "s_chunk" /\ outbound # <<>> /\ LastChunk = <<t, calls[t], chunk[t]>>

CutIsHeld == outbound # <<>> /\ ~Broken => (LastChunk[3] < Chunks => chunk[LastChunk[1]] = LastChunk[3])

Sending ==
  /\ LockHeld
  /\ LastIsItsOwn
  /\ CutIsHeld

PastTheCheck(t) == pc[t] \in {"c_sock", "c_notify"}

Closing ==
  /\ \A t \in Threads : PastTheCheck(t) => closed /\ notified = <<>>
  /\ \A t, u \in Threads : PastTheCheck(t) /\ PastTheCheck(u) => t = u
  /\ ~closed => notified = <<>>

(* The place in the stream after which the buffer begins. *)
Base == received - Len(buff)

Receiving ==
  /\ pc[Receiver] # "idle" => rpc \in {"callback", "closing"}
  /\ Base \in Nat
  /\ \A i \in DOMAIN buff : buff[i] = Base + i
  /\ Len(handled) <= Len(Frames)
  /\ rpc \in {"off", "loop", "recv", "blocked", "scan", "try", "unpack", "closing", "done"}
       => Base = End(Len(handled)) \/ (closed /\ rpc \in {"scan", "loop", "done"})
  /\ rpc \in {"scan", "try", "unpack"} => pointer = 0
  /\ rpc \in {"try", "unpack"} => Len(buff) > 0
  /\ rpc \in {"unpacked", "handle"} =>
       /\ Len(handled) < Len(Frames) /\ cur = Len(handled) + 1
       /\ Base + pointer = End(cur)
  /\ rpc \in {"callback", "reset"} => Base + pointer = End(Len(handled)) \/ (closed /\ rpc = "reset")
  /\ late > 0 => closed /\ rpc \in {"callback", "reset", "scan", "loop", "done"}

IInv ==
  /\ TypeOK
  /\ Sending
  /\ MessagesAreContiguous
  /\ Closing
  /\ Receiving

-----------------------------------------------------------------------------
LEMMA FrameType ==
  /\ Len(Frames) \in Nat /\ DOMAIN Frames = 1..Len(Frames)
  /\ \A f \in 1..Len(Frames) : Frames[f].kind \in Kinds /\ Frames[f].end \in Nat /\ Frames[f].end > 0
  /\ \A f, g \in 1..Len(Frames) : f < g => Frames[f].end < Frames[g].end
<1>1. Frames \in Seq([kind : Kinds, end : Nat \ {0}])
  BY FramesAssumption
<1>2. Len(Frames) \in Nat /\ DOMAIN Frames = 1..Len(Frames)
  BY <1>1
<1>3. ASSUME NEW f \in 1..Len(Frames)
      PROVE  Frames[f].kind \in Kinds /\ Frames[f].end \in Nat /\ Frames[f].end > 0
  <2>1. Frames[f] \in [kind : Kinds, end : Nat \ {0}]
    BY <1>1, ElementOfSeq
  <2>2. QED
    BY <2>1
<1>4. \A f, g \in 1..Len(Frames) : f < g => Frames[f].end < Frames[g].end
  BY <1>2, FramesAssumption
<1>5. QED
  BY <1>2, <1>3, <1>4

(* The ends of the frames are natural numbers that grow. *)
LEMMA EndType == \A f \in 0..Len(Frames) : End(f) \in Nat
BY FrameType DEF End

LEMMA EndsGrow ==
  ASSUME NEW f \in 0..Len(Frames), NEW g \in 0..Len(Frames), f < g
  PROVE  End(f) < End(g)
BY FrameType DEF End

LEMMA SizesPositive ==
  ASSUME NEW f \in 0..Len(Frames)
  PROVE  Size(f) \in Nat /\ Size(f) > 0 /\ Kind(f) \in Kinds
<1>1. CASE f = 0
  BY <1>1 DEF Size, Kind, Kinds
<1>2. CASE f # 0
  <2>1. f - 1 \in 0..Len(Frames) /\ f - 1 < f /\ f \in DOMAIN Frames
    BY <1>2, FrameType
  <2>2. End(f - 1) < End(f) /\ End(f) \in Nat /\ End(f - 1) \in Nat
    BY <2>1, EndType, EndsGrow
  <2>3. Frames[f].kind \in Kinds
    BY <2>1, FrameType
  <2>4. QED
    BY <1>2, <2>2, <2>3 DEF Size, Kind
<1>3. QED
  BY <1>1, <1>2

LEMMA StreamSizeType ==
  StreamSize \in Nat /\ \A f \in 0..Len(Frames) : End(f) <= StreamSize
<1>1. Len(Frames) \in Nat
  BY FrameType
<1>2. StreamSize \in Nat
  BY <1>1, EndType DEF StreamSize
<1>3. ASSUME NEW f \in 0..Len(Frames)
      PROVE  End(f) <= StreamSize
  BY <1>1, EndsGrow, EndType DEF StreamSize
<1>4. QED
  BY <1>2, <1>3

(* What the layers take for the frame at the pointer. *)
LEMMA HereType == FrameHere \in 0..Len(Frames)
BY FrameType DEF FrameHere

LEMMA HereIsNext ==
  ASSUME NEW f \in 0..Len(Frames), f < Len(Frames), buff[pointer + 1] = End(f) + 1
  PROVE  FrameHere = f + 1
<1>1. Len(Frames) \in Nat /\ DOMAIN Frames = 1..Len(Frames)
  BY FrameType
<1>2. f + 1 \in DOMAIN Frames /\ StartsHere(f + 1)
  BY <1>1 DEF StartsHere
<1>3. ASSUME NEW g \in DOMAIN Frames, StartsHere(g)
      PROVE  g = f + 1
  <2>1. g - 1 \in 0..Len(Frames) /\ End(g - 1) + 1 = End(f) + 1
    BY <1>1, <1>3 DEF StartsHere
  <2>2. End(g - 1) \in Nat /\ End(f) \in Nat
    BY <2>1, EndType
  <2>3. ~(g - 1 < f) /\ ~(f < g - 1)
    BY <2>1, <2>2, EndsGrow
  <2>4. QED
    BY <1>1, <2>3
<1>4. QED
  BY <1>2, <1>3 DEF FrameHere

-----------------------------------------------------------------------------
(* Type correctness *)

RpcLabels == {"off", "loop", "recv", "blocked", "scan", "try", "unpack", "unpacked",
              "handle", "callback", "reset", "closing", "done", "dead"}
Labels == {"idle", "c_check", "c_sock", "c_notify", "s_lock", "s_chunk"}

(* Moving one thread keeps the type of pc. *)
LEMMA MoveType ==
  ASSUME NEW t \in Threads, NEW l \in Labels, pc \in [Threads -> Labels],
         pc' = [pc EXCEPT ![t] = l]
  PROVE  pc' \in [Threads -> Labels]
OBVIOUS

(* Who waits in sendall for the peer matters to no invariant. *)
Waits ==
  PeerReads \/ \E t \in Threads : SendBlocks(t) \/ SendReset(t) \/ SendAborted(t)

LEMMA WaitsKeep ==
  ASSUME TypeOK, Waits
  PROVE  /\ UNCHANGED <<sent, peer, input, output, ending, history, local, rpc>>
         /\ blocked' \subseteq Threads
BY DEF TypeOK, Waits, PeerReads, SendBlocks, SendReset, SendAborted, Unblock

LEMMA TypeInit == Init => TypeOK
<1>1. StreamSize \in Nat /\ 0 \in 0..Len(Frames)
  BY StreamSizeType, FrameType
<1>2. <<>> \in Seq(1..StreamSize) /\ <<>> \in Seq((0..Len(Frames)) \X Kinds)
      /\ <<>> \in Seq(Threads \X (0..MaxCalls) \X (1..Chunks))
      /\ <<>> \in Seq(Causes) /\ <<"timeout">> \in Seq(Causes)
  BY DEF Causes
<1>3. Len(<<>>) = 0
  OBVIOUS
<1>4. ASSUME Init
      PROVE  /\ pc \in [Threads -> Labels] /\ cause \in [Threads -> Causes]
             /\ chunk \in [Threads -> 0..Chunks] /\ calls \in [Threads -> 0..MaxCalls]
  BY <1>4, BoundsAssumption DEF Init, Labels, Causes
<1>5. ASSUME Init
      PROVE  TypeOK
  <2>1. buff \in Seq(1..StreamSize) /\ pointer \in 0..Len(buff) /\ notified \in Seq(Causes)
        /\ outbound \in Seq(Threads \X (0..MaxCalls) \X (1..Chunks))
        /\ handled \in Seq((0..Len(Frames)) \X Kinds)
    <3>1. /\ buff = <<>> /\ pointer = 0 /\ outbound = <<>> /\ handled = <<>>
          /\ notified = <<>> \/ notified = <<"timeout">>
      BY <1>5 DEF Init
    <3>2. pointer \in 0..Len(buff)
      BY <3>1, <1>3
    <3>3. QED
      BY <3>1, <3>2, <1>2, Zenon
  <2>2. sent \in 0..StreamSize /\ received \in 0..sent /\ cur \in 0..Len(Frames)
    BY <1>1, <1>5 DEF Init
  <2>3. QED
    BY <2>1, <2>2, <1>4, <1>5 DEF Init, TypeOK, Labels
<1>6. QED
  BY <1>5

LEMMA TypeNext == TypeOK /\ [Next]_vars => TypeOK'
<1> SUFFICES ASSUME TypeOK, [Next]_vars
             PROVE  TypeOK'
  OBVIOUS
<1>s. StreamSize \in Nat /\ Len(Frames) \in Nat /\ Chunks \in Nat /\ MaxCalls \in Nat
  BY StreamSizeType, FrameType, BoundsAssumption
<1>t. Receiver \in Threads /\ Users \subseteq Threads
  BY DEF Threads
<1>f. /\ pc \in [Threads -> Labels] /\ cause \in [Threads -> Causes]
      /\ chunk \in [Threads -> 0..Chunks] /\ calls \in [Threads -> 0..MaxCalls]
      /\ sent \in 0..StreamSize /\ received \in 0..sent /\ late \in Nat
  BY DEF TypeOK, Labels
<1>0. CASE UNCHANGED vars
  BY <1>0 DEF TypeOK, vars, net, input, output, ending, history, local
<1>w. CASE Waits
  BY <1>w, WaitsKeep DEF TypeOK, input, output, ending, history, local
<1>1. CASE PeerSend \/ PeerEnd
  <2>1. sent' \in 0..StreamSize /\ received' \in 0..sent'
        /\ peer' \in {"open", "fin", "rst"}
    BY <1>1, <1>s, <1>f DEF PeerSend, PeerEnd, input
  <2>2. QED
    BY <1>1, <2>1 DEF PeerSend, PeerEnd, TypeOK, input, output, ending, history, local
<1>2. ASSUME NEW t \in Threads, RunCall(t)
      PROVE  TypeOK'
  <2>1. CASE CheckClosed(t) \/ CloseSocket(t)
    <3>1. pc' \in [Threads -> Labels]
      BY <2>1, <1>f DEF CheckClosed, CloseSocket, Labels
    <3>2. QED
      BY <2>1, <3>1 DEF CheckClosed, CloseSocket, Labels, TypeOK, net, input, output, history
  <2>2. CASE NotifyListeners(t)
    <3>1. notified' \in Seq(Causes)
      BY <2>2, AppendProperties DEF NotifyListeners, TypeOK
    <3>2. pc' \in [Threads -> Labels] /\ calls' \in [Threads -> 0..MaxCalls]
      <4>1. CASE pc' = [pc EXCEPT ![t] = "idle"] /\ UNCHANGED calls
        BY <4>1, <1>f DEF Labels
      <4>2. CASE /\ calls[t] < MaxCalls /\ calls' = [calls EXCEPT ![t] = @ + 1]
                 /\ pc' = [pc EXCEPT ![t] = "s_lock"]
        BY <4>2, <1>f, <1>s DEF Labels
      <4>3. QED
        BY <2>2, <4>1, <4>2 DEF NotifyListeners
    <3>3. QED
      BY <2>2, <3>1, <3>2 DEF NotifyListeners, Labels, TypeOK, net, input, output, history
  <2>3. CASE LockSending(t) \/ SendReturns(t)
    <3>1. pc' \in [Threads -> Labels] /\ chunk' \in [Threads -> 0..Chunks]
      <4>1. CASE LockSending(t)
        BY <4>1, <1>f DEF LockSending, Labels
      <4>2. CASE SendReturns(t)
        BY <4>2, <1>f, <1>s DEF SendReturns, Labels
      <4>3. QED
        BY <2>3, <4>1, <4>2
    <3>2. QED
      BY <2>3, <3>1, ZenonT(40) DEF LockSending, SendReturns, Labels, TypeOK, net, input, ending, history
  <2>4. CASE SendChunk(t)
    <3>1. chunk[t] + 1 \in 1..Chunks /\ chunk[t] + 1 \in 0..Chunks /\ calls[t] \in 0..MaxCalls
      BY <2>4, <1>s, <1>f DEF SendChunk
    <3>2. <<t, calls[t], chunk[t] + 1>> \in Threads \X (0..MaxCalls) \X (1..Chunks)
      BY <3>1
    <3>3. outbound' \in Seq(Threads \X (0..MaxCalls) \X (1..Chunks))
      BY <2>4, <3>2, AppendProperties DEF SendChunk, TypeOK
    <3>4. QED
      BY <2>4, <3>1, <3>3 DEF SendChunk, TypeOK, net, input, ending, history, local
  <2>5. CASE SendFails(t)
    BY <2>5, <1>s, SMTT(20) DEF SendFails, BeginClose, Causes, TypeOK, input, ending, history
  <2>6. QED
    BY <1>2, <1>w, <2>1, <2>2, <2>3, <2>4, <2>5 DEF RunCall, Waits
<1>3. ASSUME NEW u \in Users, CallClose(u) \/ CallSend(u)
      PROVE  TypeOK'
  <2>1. pc' \in [Threads -> Labels] /\ cause' \in [Threads -> Causes]
        /\ calls' \in [Threads -> 0..MaxCalls]
    <3>1. CASE CallClose(u)
      BY <3>1, <1>f, <1>s, <1>t DEF CallClose, BeginClose, Causes, Labels
    <3>2. CASE CallSend(u)
      BY <3>2, <1>f, <1>s, <1>t DEF CallSend, Labels
    <3>3. QED
      BY <1>3, <3>1, <3>2
  <2>2. QED
    BY <1>3, <2>1, ZenonT(40) DEF CallClose, CallSend, Labels, TypeOK, net, input, output, ending, history
<1>4. CASE StartRecv \/ CheckLoop \/ EnterRecv \/ CheckBuffer \/ CheckTry \/ CheckUnpacked
           \/ UnpackRaises \/ ReceiverReturns
  BY <1>4, <1>t DEF StartRecv, CheckLoop, EnterRecv, CloseThenStop, BeginClose, CheckBuffer,
       CheckTry, CheckUnpacked, UnpackRaises, ReceiverReturns, Causes, TypeOK, net, input,
       output, ending, history, local
<1>5. CASE ReceiveEmpty \/ ReceiveReset \/ ReceiveAborted
  BY <1>5, <1>t DEF ReceiveEmpty, ReceiveReset, ReceiveAborted, CloseThenStop, BeginClose,
       Causes, TypeOK, net, input, output, ending, history
<1>6. ASSUME NEW n \in 1..StreamSize, ReceiveData(n)
      PROVE  TypeOK'
  <2>1. received + n \in 0..sent /\ received \in Nat /\ sent \in Nat /\ n \in Nat
    BY <1>6, <1>s DEF ReceiveData, TypeOK
  <2>2. [i \in 1..n |-> received + i] \in Seq(1..StreamSize)
    BY <2>1, <1>s DEF TypeOK
  <2>3. buff' \in Seq(1..StreamSize)
    BY <1>6, <2>2, ConcatProperties DEF ReceiveData, TypeOK
  <2>4. Len(buff') \in Nat
    BY <2>3
  <2>5. QED
    BY <1>6, <2>1, <2>3, <2>4 DEF ReceiveData, TypeOK, net, output, ending, history, local
<1>7. CASE NeedMoreData
  <2>1. Len(buff) \in Nat
    BY DEF TypeOK
  <2>2. pointer' \in 0..Len(buff)
    BY <1>7, <2>1 DEF NeedMoreData, TypeOK
  <2>3. QED
    BY <1>7, <2>2 DEF NeedMoreData, TypeOK, net, output, ending, history, local
<1>8. CASE Unpack
  <2>1. FrameHere \in 0..Len(Frames) /\ Size(FrameHere) \in Nat /\ Len(buff) \in Nat
    BY HereType, SizesPositive DEF TypeOK
  <2>2. pointer' \in 0..Len(buff)
    BY <1>8, <2>1, SMTT(20) DEF Unpack, TypeOK
  <2>3. QED
    BY <1>8, <2>1, <2>2 DEF Unpack, TypeOK, net, output, ending, history, local
<1>9. CASE Handle
  <2>1. <<cur, Kind(cur)>> \in (0..Len(Frames)) \X Kinds
    BY SizesPositive DEF TypeOK
  <2>2. handled' \in Seq((0..Len(Frames)) \X Kinds)
    BY <1>9, <2>1, AppendProperties DEF Handle, TypeOK
  <2>3. late' \in Nat
    BY <1>9 DEF Handle, TypeOK
  <2>4. pc' \in [Threads -> Labels] /\ cause' \in [Threads -> Causes]
        /\ calls' \in [Threads -> 0..MaxCalls]
    <3>1. CASE UNCHANGED local
      BY <3>1, <1>f DEF local
    <3>2. CASE BeginClose(Receiver, "user") /\ UNCHANGED calls
      BY <3>2, <1>f, <1>t DEF BeginClose, Labels, Causes
    <3>3. CASE /\ calls[Receiver] < MaxCalls
               /\ calls' = [calls EXCEPT ![Receiver] = @ + 1]
               /\ pc' = [pc EXCEPT ![Receiver] = "s_lock"]
               /\ UNCHANGED cause
      BY <3>3, <1>f, <1>t, <1>s DEF Labels
    <3>4. QED
      BY <1>9, <3>1, <3>2, <3>3 DEF Handle
  <2>5. QED
    BY <1>9, <2>2, <2>3, <2>4 DEF Handle, Labels, TypeOK, net, input, output, ending
<1>10. CASE ResetBeforePointer
  <2>0. buff \in Seq(1..StreamSize) /\ pointer \in 0..Len(buff)
    BY DEF TypeOK
  <2>1. Len(buff) \in Nat /\ pointer \in Nat /\ pointer + 1 \in Int
    BY <2>0
  <2>1a. ASSUME NEW i \in (pointer + 1)..Len(buff)
         PROVE  buff[i] \in 1..StreamSize
    <3>1. i \in 1..Len(buff)
      BY <2>1
    <3>2. QED
      BY <2>0, <3>1, ElementOfSeq
  <2>2. SubSeq(buff, pointer + 1, Len(buff)) \in Seq(1..StreamSize)
    BY <2>1, <2>1a, SubSeqProperties
  <2>2a. buff' \in Seq(1..StreamSize) /\ Len(buff') \in Nat
    BY <1>10, <2>2 DEF ResetBeforePointer
  <2>3. QED
    BY <1>10, <2>2a DEF ResetBeforePointer, TypeOK, net, output, ending, history, local
<1>11. QED
  BY <1>0, <1>1, <1>2, <1>3, <1>4, <1>5, <1>6, <1>7, <1>8, <1>9, <1>10, <1>w
  DEF Next, Receive, Waits

(* Each variable keeps its type, whatever the threads and the peer do. *)
THEOREM TypeCorrect == Spec => []TypeOK
BY TypeInit, TypeNext, PTL DEF Spec

-----------------------------------------------------------------------------
(* Sending *)

(* Whoever is not about to send may do as he likes. *)
LEMMA SendingKept ==
  ASSUME Sending, MessagesAreContiguous, UNCHANGED output, Broken => Broken',
         \A t \in Threads : /\ pc'[t] = "s_chunk" <=> pc[t] = "s_chunk"
                            /\ pc[t] = "s_chunk" => calls'[t] = calls[t]
  PROVE  Sending' /\ MessagesAreContiguous'
<1>1. outbound' = outbound /\ sendingLock' = sendingLock /\ chunk' = chunk /\ LastChunk' = LastChunk
  BY DEF output, LastChunk
<1>2. LockHeld'
  BY <1>1 DEF Sending, LockHeld
<1>3. LastIsItsOwn'
  BY <1>1 DEF Sending, LastIsItsOwn
<1>4. CutIsHeld'
  BY <1>1 DEF Sending, CutIsHeld
<1>5. MessagesAreContiguous'
  BY <1>1 DEF MessagesAreContiguous
<1>6. QED
  BY <1>2, <1>3, <1>4, <1>5 DEF Sending

(* A broken connection stays broken. *)
LEMMA BrokenStays == Broken /\ [Next]_vars => Broken'
<1> USE DEF Broken
<1>1. ASSUME Broken, UNCHANGED <<peer, sockOpen>>
      PROVE  Broken'
  BY <1>1
<1>2. ASSUME NEW t \in Threads, Broken, RunCall(t) \/ SendAborted(t)
      PROVE  Broken'
  BY <1>2 DEF RunCall, CheckClosed, CloseSocket, NotifyListeners, LockSending, SendChunk,
              SendReturns, SendFails, SendBlocks, SendReset, SendAborted, Unblock, BeginClose,
              net, ending
<1>3. ASSUME NEW u \in Users, Broken, CallClose(u) \/ CallSend(u)
      PROVE  Broken'
  BY <1>3 DEF CallClose, CallSend, BeginClose, net, ending
<1>4. ASSUME Broken, PeerSend \/ PeerEnd \/ PeerReads \/ StartRecv \/ ReceiveAborted
      PROVE  Broken'
  BY <1>4 DEF PeerSend, PeerEnd, PeerReads, StartRecv, ReceiveAborted, CloseThenStop,
              BeginClose, net, ending
<1>5. ASSUME Broken, Receive
      PROVE  Broken'
  BY <1>5 DEF Receive, CheckLoop, EnterRecv, CheckBuffer, ReceiveEmpty, ReceiveReset,
       ReceiveData, CheckTry, NeedMoreData, Unpack, UnpackRaises, CheckUnpacked, Handle,
       ReceiverReturns, ResetBeforePointer, CloseThenStop, BeginClose, net, ending
<1>6. QED
  BY <1>1, <1>2, <1>3, <1>4, <1>5 DEF Next, vars, net, ending

LEMMA SendChunkStep ==
  ASSUME TypeOK, TypeOK', Sending, MessagesAreContiguous, NEW t \in Threads, SendChunk(t)
  PROVE  Sending' /\ MessagesAreContiguous'
<1> DEFINE m == <<t, calls[t], chunk[t] + 1>>
<1> DEFINE AnyChunk == Threads \X (0..MaxCalls) \X (1..Chunks)
<1>0. Chunks \in Nat /\ chunk \in [Threads -> 0..Chunks] /\ calls \in [Threads -> 0..MaxCalls]
      /\ outbound \in Seq(AnyChunk)
  BY BoundsAssumption DEF TypeOK
<1>1. chunk[t] \in 0..Chunks /\ chunk[t] < Chunks /\ ~Broken /\ pc[t] = "s_chunk"
  BY <1>0 DEF SendChunk, Broken
<1>2. /\ outbound' = Append(outbound, m)
      /\ chunk' = [chunk EXCEPT ![t] = chunk[t] + 1]
      /\ UNCHANGED <<pc, calls, sendingLock, peer, sockOpen>>
  BY <1>0 DEF SendChunk, net, ending, local
<1>3. m \in AnyChunk
  BY <1>0, <1>1
<1>4. /\ Len(outbound) \in Nat
      /\ Len(outbound') = Len(outbound) + 1
      /\ \A i \in 1..Len(outbound) : outbound'[i] = outbound[i]
      /\ outbound'[Len(outbound) + 1] = m
      /\ outbound' # <<>> /\ LastChunk' = m
  <2> HIDE DEF AnyChunk, m
  <2>1. Len(outbound) \in Nat
    BY <1>0
  <2>2. QED
    BY <1>0, <1>2, <1>3, <2>1, AppendProperties DEF LastChunk
<1>5. \A i \in 1..Len(outbound) : outbound[i][3] \in 1..Chunks /\ outbound[i][1] \in Threads
  <2>1. ASSUME NEW i \in 1..Len(outbound)
        PROVE  outbound[i] \in AnyChunk
    <3> HIDE DEF AnyChunk
    <3>1. QED
      BY <1>0, ElementOfSeq
  <2>2. QED
    BY <2>1
<1>6. \A u \in Threads : chunk[u] > 0 => u = t
  BY DEF Sending, LockHeld, LastIsItsOwn, SendChunk
<1>7. LockHeld'
  BY <1>2 DEF Sending, LockHeld
<1>8. LastIsItsOwn'
  BY <1>0, <1>1, <1>2, <1>4, <1>6 DEF LastIsItsOwn
<1>9. CutIsHeld'
  BY <1>0, <1>2, <1>4 DEF CutIsHeld
<1>10. CASE outbound = <<>>
  <2>1. chunk[t] = 0 /\ Len(outbound) = 0
    BY <1>10, <1>1 DEF Sending, LastIsItsOwn
  <2>2. MessagesAreContiguous'
    BY <1>1, <1>4, <2>1 DEF MessagesAreContiguous
  <2>3. QED
    BY <1>7, <1>8, <1>9, <2>2 DEF Sending
<1>11. CASE outbound # <<>>
  <2>1. Len(outbound) > 0 /\ Len(outbound) \in 1..Len(outbound)
    BY <1>0, <1>11, <1>4, EmptySeq, SMTT(20)
  <2>2. LastChunk[3] \in 1..Chunks /\ LastChunk[1] \in Threads
    BY <1>5, <2>1 DEF LastChunk
  (* Either the message goes on or the last one is whole. *)
  <2>3. \/ LastChunk = <<t, calls[t], chunk[t]>> /\ chunk[t] > 0
        \/ LastChunk[3] = Chunks /\ chunk[t] = 0
    <3>1. CASE chunk[t] > 0
      BY <3>1 DEF Sending, LastIsItsOwn
    <3>2. CASE chunk[t] = 0
      <4>1. LastChunk[3] < Chunks => chunk[LastChunk[1]] = LastChunk[3]
        BY <1>1, <1>11 DEF Sending, CutIsHeld
      <4>2. chunk[LastChunk[1]] \in 0..Chunks
        BY <1>0, <2>2
      <4>3. chunk[LastChunk[1]] > 0 => LastChunk[1] = t
        BY <1>6, <2>2
      <4>4. QED
        BY <1>0, <2>2, <3>2, <4>1, <4>2, <4>3
    <3>3. QED
      BY <1>1, <3>1, <3>2
  <2>4. ASSUME NEW i \in 1..Len(outbound)
        PROVE  /\ outbound[i][3] > 1 =>
                    i > 1 /\ outbound[i - 1] = <<outbound[i][1], outbound[i][2], outbound[i][3] - 1>>
               /\ outbound[i][3] < Chunks => \/ i = Len(outbound)
                    \/ outbound[i + 1] = <<outbound[i][1], outbound[i][2], outbound[i][3] + 1>>
    <3>1. i \in DOMAIN outbound
      BY <1>0
    <3>2. QED
      BY <3>1 DEF MessagesAreContiguous
  <2>5. ASSUME NEW i \in 1..Len(outbound')
        PROVE  /\ outbound'[i][3] > 1 =>
                    i > 1 /\ outbound'[i - 1] = <<outbound'[i][1], outbound'[i][2], outbound'[i][3] - 1>>
               /\ outbound'[i][3] < Chunks => \/ i = Len(outbound')
                    \/ outbound'[i + 1] = <<outbound'[i][1], outbound'[i][2], outbound'[i][3] + 1>>
    <3>1. CASE i < Len(outbound)
      BY <1>4, <2>4, <3>1, SMTT(20)
    <3>2. CASE i = Len(outbound)
      <4>1. outbound'[i] = LastChunk /\ outbound'[i + 1] = m
        BY <1>4, <3>2, <2>1 DEF LastChunk
      <4>2. LastChunk[3] < Chunks => m = <<LastChunk[1], LastChunk[2], LastChunk[3] + 1>>
        BY <2>2, <2>3, <1>0
      <4>3. i > 1 => outbound'[i - 1] = outbound[i - 1]
        BY <1>4, <3>2
      <4>4. QED
        BY <1>4, <2>4, <3>2, <4>1, <4>2, <4>3, <2>1 DEF LastChunk
    <3>3. CASE i = Len(outbound) + 1
      <4>1. outbound'[i] = m /\ outbound'[i - 1] = LastChunk /\ i > 1
        BY <1>4, <2>1, <3>3 DEF LastChunk
      <4>2. m[3] > 1 => LastChunk = <<m[1], m[2], m[3] - 1>>
        BY <1>1, <2>3
      <4>3. QED
        BY <1>4, <3>3, <4>1, <4>2
    <3>4. QED
      BY <1>4, <3>1, <3>2, <3>3
  <2>6. DOMAIN outbound' = 1..Len(outbound')
    BY DEF TypeOK
  <2>7. MessagesAreContiguous'
    BY <2>5, <2>6 DEF MessagesAreContiguous
  <2>8. QED
    BY <1>7, <1>8, <1>9, <2>7 DEF Sending
<1>12. QED
  BY <1>10, <1>11

(* Every step keeps what Sending says and the messages together.  The      *)
(* receiver begins a call of its own only when it has none running.        *)
LEMMA SendingNext ==
  ASSUME TypeOK, TypeOK', Sending, MessagesAreContiguous, [Next]_vars,
         pc[Receiver] # "idle" => rpc \in {"callback", "closing"}
  PROVE  Sending' /\ MessagesAreContiguous'
<1>f. pc \in [Threads -> Labels] /\ Receiver \in Threads /\ Users \subseteq Threads
      /\ calls \in [Threads -> 0..MaxCalls] /\ chunk \in [Threads -> 0..Chunks]
      /\ Chunks \in Nat
  BY BoundsAssumption DEF TypeOK, Labels, Threads
<1>n. NoThread \notin Threads
  BY ReceiverAssumption
<1>b. Broken => Broken'
  BY BrokenStays
<1>1. CASE UNCHANGED <<output, local>>
  <2>1. pc' = pc /\ calls' = calls /\ UNCHANGED output
    BY <1>1 DEF local
  <2>2. QED
    BY <2>1, <1>b, SendingKept
<1>w. CASE Waits
  BY <1>w, <1>1, WaitsKeep
<1>2. ASSUME NEW t \in Threads, CheckClosed(t) \/ CloseSocket(t) \/ NotifyListeners(t)
      PROVE  Sending' /\ MessagesAreContiguous'
  <2>1. /\ pc[t] \in {"c_check", "c_sock", "c_notify"} /\ UNCHANGED output
        /\ calls' = calls \/ calls' = [calls EXCEPT ![t] = @ + 1]
    BY <1>2 DEF CheckClosed, CloseSocket, NotifyListeners
  <2>2. PICK l \in {"idle", "c_sock", "c_notify", "s_lock"} : pc' = [pc EXCEPT ![t] = l]
    BY <1>2 DEF CheckClosed, CloseSocket, NotifyListeners
  <2>3. \A u \in Threads : /\ pc'[u] = "s_chunk" <=> pc[u] = "s_chunk"
                           /\ pc[u] = "s_chunk" => calls'[u] = calls[u]
    BY <2>1, <2>2, <1>f
  <2>4. QED
    BY <2>1, <2>3, <1>b, SendingKept
<1>3. ASSUME NEW u \in Users, CallClose(u) \/ CallSend(u)
      PROVE  Sending' /\ MessagesAreContiguous'
  <2>1. pc[u] = "idle" /\ UNCHANGED output /\ calls' = [calls EXCEPT ![u] = @ + 1]
    BY <1>3 DEF CallClose, CallSend
  <2>2. PICK l \in {"c_check", "s_lock"} : pc' = [pc EXCEPT ![u] = l]
    BY <1>3 DEF CallClose, CallSend, BeginClose
  <2>3. \A t \in Threads : /\ pc'[t] = "s_chunk" <=> pc[t] = "s_chunk"
                           /\ pc[t] = "s_chunk" => calls'[t] = calls[t]
    BY <2>1, <2>2, <1>f
  <2>4. QED
    BY <2>1, <2>3, <1>b, SendingKept
<1>4. CASE EnterRecv \/ ReceiveEmpty \/ ReceiveReset \/ ReceiveAborted
  <2>1. UNCHANGED <<output, calls>>
    BY <1>4 DEF EnterRecv, ReceiveEmpty, ReceiveReset, ReceiveAborted, CloseThenStop, local
  <2>2. pc[Receiver] = "idle"
    BY <1>4 DEF EnterRecv, ReceiveEmpty, ReceiveReset, ReceiveAborted
  <2>3. pc' = pc \/ pc' = [pc EXCEPT ![Receiver] = "c_check"]
    BY <1>4 DEF EnterRecv, ReceiveEmpty, ReceiveReset, ReceiveAborted, CloseThenStop,
                BeginClose, local
  <2>4. \A t \in Threads : pc'[t] = "s_chunk" <=> pc[t] = "s_chunk"
    BY <2>2, <2>3, <1>f
  <2>5. QED
    BY <2>1, <2>4, <1>b, SendingKept
<1>5. CASE Handle
  <2>1. UNCHANGED output /\ pc[Receiver] = "idle"
    BY <1>5 DEF Handle
  <2>2. /\ calls' = calls \/ calls' = [calls EXCEPT ![Receiver] = @ + 1]
        /\ \/ pc' = pc \/ pc' = [pc EXCEPT ![Receiver] = "c_check"]
           \/ pc' = [pc EXCEPT ![Receiver] = "s_lock"]
    BY <1>5 DEF Handle, BeginClose, local
  <2>3. \A t \in Threads : /\ pc'[t] = "s_chunk" <=> pc[t] = "s_chunk"
                           /\ pc[t] = "s_chunk" => calls'[t] = calls[t]
    BY <2>1, <2>2, <1>f
  <2>4. QED
    BY <2>1, <2>3, <1>b, SendingKept
<1>6. ASSUME NEW t \in Threads, LockSending(t)
      PROVE  Sending' /\ MessagesAreContiguous'
  <2>1. /\ pc[t] = "s_lock" /\ sendingLock = NoThread /\ sendingLock' = t
        /\ pc' = [pc EXCEPT ![t] = "s_chunk"]
        /\ UNCHANGED <<outbound, chunk, calls>>
    BY <1>6 DEF LockSending
  <2>2. LastChunk' = LastChunk
    BY <2>1 DEF LastChunk
  <2>3. \A u \in Threads : pc[u] # "s_chunk"
    BY <2>1, <1>n DEF Sending, LockHeld
  <2>4. \A u \in Threads : chunk[u] = 0
    BY <2>3, <1>f DEF Sending, LastIsItsOwn
  <2>5. LockHeld'
    BY <2>1, <2>3, <1>f DEF LockHeld
  <2>6. LastIsItsOwn'
    BY <2>1, <2>4 DEF LastIsItsOwn
  <2>7. CutIsHeld'
    BY <2>1, <2>2, <1>b DEF Sending, CutIsHeld
  <2>8. MessagesAreContiguous'
    BY <2>1 DEF MessagesAreContiguous
  <2>9. QED
    BY <2>5, <2>6, <2>7, <2>8 DEF Sending
<1>7. ASSUME NEW t \in Threads, SendReturns(t) \/ SendFails(t)
      PROVE  Sending' /\ MessagesAreContiguous'
  <2>1. /\ pc[t] = "s_chunk" /\ sendingLock' = NoThread
        /\ chunk' = [chunk EXCEPT ![t] = 0]
        /\ UNCHANGED <<outbound, calls>>
    BY <1>7 DEF SendReturns, SendFails
  <2>2. PICK l \in {"idle", "c_check"} : pc' = [pc EXCEPT ![t] = l]
    BY <1>7 DEF SendReturns, SendFails, BeginClose
  <2>3. \A u \in Threads : pc[u] = "s_chunk" => u = t
    BY <2>1 DEF Sending, LockHeld
  <2>4. LastChunk' = LastChunk
    BY <2>1 DEF LastChunk
  <2>5. LockHeld'
    BY <2>1, <2>2, <2>3, <1>f, <1>n DEF LockHeld
  <2>6. LastIsItsOwn'
    BY <2>1, <2>3, <1>f DEF Sending, LastIsItsOwn
  <2>7. CutIsHeld'
    <3>1. CASE SendFails(t)
      <4>1. Broken'
        BY <3>1 DEF SendFails, Broken, ending
      <4>2. QED
        BY <4>1 DEF CutIsHeld
    <3>2. CASE SendReturns(t)
      <4>1. chunk[t] = Chunks /\ chunk[t] > 0
        BY <3>2, BoundsAssumption DEF SendReturns
      <4>2. LastChunk[3] = Chunks
        BY <4>1, <2>1 DEF Sending, LastIsItsOwn
      <4>3. QED
        BY <4>2, <2>4, <1>f DEF CutIsHeld
    <3>3. QED
      BY <1>7, <3>1, <3>2
  <2>8. MessagesAreContiguous'
    BY <2>1 DEF MessagesAreContiguous
  <2>9. QED
    BY <2>5, <2>6, <2>7, <2>8 DEF Sending
<1>8. ASSUME NEW t \in Threads, RunCall(t)
      PROVE  Sending' /\ MessagesAreContiguous'
  BY <1>2, <1>6, <1>7, <1>8, <1>w, SendChunkStep DEF RunCall, Waits
<1>9. CASE PeerSend \/ PeerEnd \/ StartRecv \/ UNCHANGED vars
  BY <1>9, <1>1 DEF PeerSend, PeerEnd, StartRecv, vars
<1>10. CASE Receive
  <2>1. CASE CheckLoop \/ CheckBuffer \/ (\E n \in 1..StreamSize : ReceiveData(n)) \/ CheckTry
             \/ NeedMoreData \/ Unpack \/ UnpackRaises \/ CheckUnpacked \/ ReceiverReturns
             \/ ResetBeforePointer
    BY <2>1, <1>1 DEF CheckLoop, CheckBuffer, ReceiveData, CheckTry, NeedMoreData, Unpack,
         UnpackRaises, CheckUnpacked, ReceiverReturns, ResetBeforePointer
  <2>2. QED
    BY <1>4, <1>5, <1>10, <2>1 DEF Receive
<1>11. QED
  BY <1>3, <1>4, <1>8, <1>9, <1>10, <1>w DEF Next, Waits

-----------------------------------------------------------------------------
(* Closing *)

LEMMA ClosingKept ==
  ASSUME Closing, UNCHANGED <<closed, notified>>,
         \A t \in Threads : PastTheCheck(t)' => PastTheCheck(t)
  PROVE  Closing'
BY DEF Closing

(* Whatever the receiver does, it is not past the check of a close().      *)
LEMMA ReceiverKeepsClosing ==
  ASSUME Closing, pc \in [Threads -> Labels], UNCHANGED <<closed, notified>>,
         \/ pc' = pc
         \/ \E t \in Threads, l \in {"idle", "c_check", "s_lock", "s_chunk"} :
              pc' = [pc EXCEPT ![t] = l]
  PROVE  Closing'
<1>1. \A t \in Threads : PastTheCheck(t)' => PastTheCheck(t)
  BY DEF PastTheCheck
<1>2. QED
  BY <1>1, ClosingKept

LEMMA ClosingNext ==
  ASSUME TypeOK, Closing, [Next]_vars
  PROVE  Closing'
<1>f. pc \in [Threads -> Labels] /\ Receiver \in Threads /\ Users \subseteq Threads
      /\ closed \in BOOLEAN
  BY DEF TypeOK, Labels, Threads
<1>1. CASE UNCHANGED <<ending, pc>>
  BY <1>1, <1>f, ReceiverKeepsClosing DEF ending
<1>w. CASE Waits
  BY <1>w, <1>1, WaitsKeep DEF local
<1>2. ASSUME NEW t \in Threads, CheckClosed(t)
      PROVE  Closing'
  <2>1. CASE closed
    <3>1. pc' = [pc EXCEPT ![t] = "idle"] /\ UNCHANGED <<closed, notified>>
      BY <1>2, <2>1 DEF CheckClosed
    <3>2. QED
      BY <3>1, <1>f, ReceiverKeepsClosing
  <2>2. CASE ~closed
    <3>1. pc' = [pc EXCEPT ![t] = "c_sock"] /\ closed' /\ notified' = notified
      BY <1>2, <2>2 DEF CheckClosed
    <3>2. notified = <<>> /\ \A u \in Threads : ~PastTheCheck(u)
      BY <2>2 DEF Closing
    <3>3. \A u \in Threads : PastTheCheck(u)' => u = t
      BY <3>1, <3>2, <1>f DEF PastTheCheck
    <3>4. QED
      BY <3>1, <3>2, <3>3 DEF Closing
  <2>3. QED
    BY <2>1, <2>2
<1>3. ASSUME NEW t \in Threads, CloseSocket(t)
      PROVE  Closing'
  <2>1. pc[t] = "c_sock" /\ pc' = [pc EXCEPT ![t] = "c_notify"] /\ UNCHANGED <<closed, notified>>
    BY <1>3 DEF CloseSocket
  <2>2. \A u \in Threads : PastTheCheck(u)' => PastTheCheck(u)
    BY <2>1, <1>f DEF PastTheCheck
  <2>3. QED
    BY <2>1, <2>2, ClosingKept
<1>4. ASSUME NEW t \in Threads, NotifyListeners(t)
      PROVE  Closing'
  <2>1. /\ pc[t] = "c_notify" /\ closed' = closed
        /\ \E l \in {"idle", "s_lock"} : pc' = [pc EXCEPT ![t] = l]
    BY <1>4 DEF NotifyListeners
  <2>2. closed /\ \A u \in Threads : PastTheCheck(u) => u = t
    BY <2>1 DEF Closing, PastTheCheck
  <2>3. \A u \in Threads : ~PastTheCheck(u)'
    BY <2>1, <2>2, <1>f DEF PastTheCheck
  <2>4. QED
    BY <2>1, <2>2, <2>3 DEF Closing
<1>5. ASSUME NEW t \in Threads, LockSending(t) \/ SendChunk(t) \/ SendReturns(t) \/ SendFails(t)
      PROVE  Closing'
  <2>1. UNCHANGED <<closed, notified>>
    BY <1>5 DEF LockSending, SendChunk, SendReturns, SendFails, ending
  <2>2. pc' = pc \/ \E l \in {"idle", "c_check", "s_lock", "s_chunk"} : pc' = [pc EXCEPT ![t] = l]
    BY <1>5 DEF LockSending, SendChunk, SendReturns, SendFails, BeginClose, local
  <2>3. QED
    BY <2>1, <2>2, <1>f, ReceiverKeepsClosing
<1>6. ASSUME NEW u \in Users, CallClose(u) \/ CallSend(u)
      PROVE  Closing'
  <2>1. UNCHANGED <<closed, notified>>
    BY <1>6 DEF CallClose, CallSend, ending
  <2>2. \E l \in {"idle", "c_check", "s_lock", "s_chunk"} : pc' = [pc EXCEPT ![u] = l]
    BY <1>6 DEF CallClose, CallSend, BeginClose
  <2>3. QED
    BY <2>1, <2>2, <1>f, ReceiverKeepsClosing
<1>7. CASE EnterRecv \/ ReceiveEmpty \/ ReceiveReset \/ ReceiveAborted \/ Handle
  <2>1. UNCHANGED <<closed, notified>>
    BY <1>7 DEF EnterRecv, ReceiveEmpty, ReceiveReset, ReceiveAborted, CloseThenStop, Handle,
                ending
  <2>2. \/ pc' = pc
        \/ \E l \in {"idle", "c_check", "s_lock", "s_chunk"} : pc' = [pc EXCEPT ![Receiver] = l]
    BY <1>7 DEF EnterRecv, ReceiveEmpty, ReceiveReset, ReceiveAborted, CloseThenStop, Handle,
                BeginClose, local
  <2>3. QED
    BY <2>1, <2>2, <1>f, ReceiverKeepsClosing
<1>8. CASE PeerSend \/ PeerEnd \/ StartRecv \/ UNCHANGED vars
  BY <1>8, <1>1 DEF PeerSend, PeerEnd, StartRecv, vars, local
<1>9. CASE Receive
  <2>1. CASE CheckLoop \/ CheckBuffer \/ (\E n \in 1..StreamSize : ReceiveData(n)) \/ CheckTry
             \/ NeedMoreData \/ Unpack \/ UnpackRaises \/ CheckUnpacked \/ ReceiverReturns
             \/ ResetBeforePointer
    BY <2>1, <1>1 DEF CheckLoop, CheckBuffer, ReceiveData, CheckTry, NeedMoreData, Unpack,
         UnpackRaises, CheckUnpacked, ReceiverReturns, ResetBeforePointer, local
  <2>2. QED
    BY <1>7, <1>9, <2>1 DEF Receive
<1>10. QED
  BY <1>2, <1>3, <1>4, <1>5, <1>6, <1>7, <1>8, <1>9, <1>w DEF Next, RunCall, Waits

-----------------------------------------------------------------------------
(* Receiving *)

LEMMA ReceivingKept ==
  ASSUME Receiving, UNCHANGED <<input, history, rpc>>, closed => closed',
         pc'[Receiver] # "idle" => pc[Receiver] # "idle"
  PROVE  Receiving'
<1>1. Base' = Base /\ UNCHANGED <<received, buff, pointer, cur, handled, late, rpc>>
  BY DEF Base, input, history
<1>2. End(Len(handled))' = End(Len(handled)) /\ End(cur)' = End(cur)
  BY <1>1
<1>3. QED
  BY <1>1, <1>2 DEF Receiving

LEMMA ReceiveDataStep ==
  ASSUME TypeOK, Receiving, NEW n \in 1..StreamSize, ReceiveData(n)
  PROVE  Receiving'
<1> DEFINE new == [i \in 1..n |-> received + i]
<1>1. /\ rpc = "blocked" /\ rpc' = "scan" /\ pointer' = 0 /\ received' = received + n
      /\ buff' = buff \o new
      /\ UNCHANGED <<cur, closed, handled, late, pc>>
  BY DEF ReceiveData, ending, history, local
<1>2. StreamSize \in Nat /\ received \in Nat /\ n \in Nat /\ buff \in Seq(1..StreamSize)
      /\ Len(buff) \in Nat
  BY StreamSizeType DEF TypeOK
<1>3. buff \in Seq(Nat) /\ new \in Seq(Nat) /\ Len(new) = n
      /\ \A i \in 1..n : new[i] = received + i
  <2>1. buff \in Seq(Nat)
    BY <1>2, SeqMonotonic
  <2>2. QED
    BY <2>1, <1>2
<1>4. /\ Len(buff') = Len(buff) + n
      /\ \A i \in 1..Len(buff) + n : buff'[i] = IF i <= Len(buff) THEN buff[i] ELSE new[i - Len(buff)]
  <2> HIDE DEF new
  <2>1. QED
    BY <1>1, <1>3, ConcatProperties
<1> HIDE DEF new
<1>5. Base' = Base /\ Base \in Nat
  BY <1>1, <1>2, <1>4 DEF Base, Receiving
<1>6. \A i \in 1..Len(buff) : buff[i] = Base + i
  BY <1>2 DEF Receiving
<1>7. ASSUME NEW i \in 1..Len(buff')
      PROVE  buff'[i] = Base + i
  <2>1. CASE i <= Len(buff)
    BY <2>1, <1>2, <1>4, <1>6
  <2>2. CASE i > Len(buff)
    <3>1. i - Len(buff) \in 1..n /\ ~(i <= Len(buff))
      BY <2>2, <1>2, <1>4
    <3>2. buff'[i] = received + (i - Len(buff))
      BY <3>1, <1>2, <1>3, <1>4
    <3>3. QED
      BY <3>2, <1>2 DEF Base
  <2>3. QED
    BY <2>1, <2>2, <1>2, <1>4
<1>8. DOMAIN buff' = 1..Len(buff')
  BY <1>1, <1>3, ConcatProperties
<1>9. Base = End(Len(handled)) /\ Len(handled) <= Len(Frames) /\ ~(late > 0)
      /\ ~(pc[Receiver] # "idle")
  BY <1>1 DEF Receiving
<1>10. End(Len(handled))' = End(Len(handled))
  BY <1>1
<1>11. QED
  BY <1>1, <1>5, <1>7, <1>8, <1>9, <1>10 DEF Receiving

LEMMA ResetStep ==
  ASSUME TypeOK, Receiving, ResetBeforePointer
  PROVE  Receiving'
<1>1. /\ rpc = "reset" /\ rpc' = "scan" /\ pointer' = 0
      /\ buff' = SubSeq(buff, pointer + 1, Len(buff))
      /\ UNCHANGED <<received, cur, closed, handled, late, pc>>
  BY DEF ResetBeforePointer, ending, history, local
<1>2. /\ received \in Nat /\ sent \in Nat /\ buff \in Seq(1..StreamSize)
      /\ Len(buff) \in Nat /\ pointer \in Nat /\ pointer <= Len(buff)
  BY StreamSizeType DEF TypeOK
<1>3. \A i \in 1..Len(buff) : buff[i] = Base + i /\ buff[i] \in Nat
  <2>1. DOMAIN buff = 1..Len(buff) /\ Base \in Nat
    BY <1>2 DEF Receiving
  <2>2. QED
    BY <2>1 DEF Receiving
<1>4. /\ Len(buff') = Len(buff) - pointer
      /\ DOMAIN buff' = 1..Len(buff')
      /\ \A i \in 1..Len(buff) - pointer : buff'[i] = buff[pointer + i]
  <2>1. \A i \in (pointer + 1)..Len(buff) : buff[i] \in Nat
    BY <1>2, <1>3
  <2>2. pointer + 1 \in Int /\ Len(buff) \in Int
    BY <1>2
  <2>3. /\ buff' \in Seq(Nat)
        /\ Len(buff') = IF pointer + 1 <= Len(buff) THEN Len(buff) - (pointer + 1) + 1 ELSE 0
        /\ \A i \in 1..Len(buff) - (pointer + 1) + 1 : buff'[i] = buff[(pointer + 1) + i - 1]
    BY <2>1, <2>2, <1>1, SubSeqProperties
  <2>4. \A i \in 1..Len(buff) - pointer : (pointer + 1) + i - 1 = pointer + i
    BY <1>2
  <2>5. Len(buff) - (pointer + 1) + 1 = Len(buff) - pointer
    BY <1>2
  <2>6. Len(buff') = Len(buff) - pointer
    <3>1. CASE pointer + 1 <= Len(buff)
      BY <2>3, <2>5, <3>1
    <3>2. CASE pointer = Len(buff)
      <4>1. ~(pointer + 1 <= Len(buff)) /\ Len(buff) - pointer = 0
        BY <3>2, <1>2
      <4>2. QED
        BY <2>3, <4>1
    <3>3. QED
      BY <3>1, <3>2, <1>2
  <2>7. DOMAIN buff' = 1..Len(buff')
    BY <2>3
  <2>8. \A i \in 1..Len(buff) - pointer : buff'[i] = buff[pointer + i]
    BY <2>3, <2>4, <2>5
  <2>9. QED
    BY <2>6, <2>7, <2>8
<1>5. Base' = Base + pointer /\ Base' \in Nat /\ Base \in Nat
  <2>1. Base \in Nat
    BY DEF Receiving
  <2>2. Base' = received - (Len(buff) - pointer)
    BY <1>1, <1>4 DEF Base
  <2>3. Base = received - Len(buff)
    BY DEF Base
  <2>4. QED
    BY <2>1, <2>2, <2>3, <1>2
<1>6. ASSUME NEW i \in 1..Len(buff')
      PROVE  buff'[i] = Base' + i
  <2>1. i \in 1..Len(buff) - pointer /\ pointer + i \in 1..Len(buff) /\ i \in Nat
    BY <1>2, <1>4
  <2>2. buff'[i] = Base + (pointer + i)
    BY <2>1, <1>3, <1>4
  <2>3. QED
    BY <2>1, <2>2, <1>2, <1>5
<1>7. Base + pointer = End(Len(handled)) \/ closed
  BY <1>1 DEF Receiving
<1>8. Base' = End(Len(handled))' \/ closed'
  BY <1>1, <1>5, <1>7
<1>9. /\ ~(pc[Receiver] # "idle") /\ Len(handled) <= Len(Frames)
      /\ late > 0 => closed
  BY <1>1 DEF Receiving
<1>10. QED
  BY <1>1, <1>4, <1>5, <1>6, <1>8, <1>9 DEF Receiving

(* What is unpacked is the next frame that was not handled. *)
LEMMA UnpacksNext ==
  ASSUME TypeOK, Receiving, rpc = "unpack"
  PROVE  Len(handled) < Len(Frames) /\ FrameHere = Len(handled) + 1
<1>1. /\ received \in Nat /\ sent \in Nat /\ received <= sent /\ sent <= StreamSize
      /\ StreamSize \in Nat /\ Len(buff) \in Nat /\ DOMAIN buff = 1..Len(buff)
      /\ Len(handled) \in Nat /\ Len(Frames) \in Nat
  BY StreamSizeType, FrameType DEF TypeOK
<1>2. Base = End(Len(handled)) /\ Base \in Nat /\ Len(handled) <= Len(Frames)
      /\ pointer = 0 /\ Len(buff) > 0
  BY DEF Receiving
<1>3. buff[pointer + 1] = End(Len(handled)) + 1
  BY <1>1, <1>2 DEF Receiving
<1>4. Len(handled) # Len(Frames)
  <2>1. Base < StreamSize
    BY <1>1, <1>2 DEF Base
  <2>2. QED
    BY <2>1, <1>2 DEF StreamSize
<1>5. Len(handled) \in 0..Len(Frames) /\ Len(handled) < Len(Frames)
  BY <1>1, <1>2, <1>4
<1>6. QED
  BY <1>3, <1>5, HereIsNext

LEMMA UnpackStep ==
  ASSUME TypeOK, Receiving, Unpack
  PROVE  Receiving'
<1>1. /\ rpc = "unpack" /\ rpc' \in {"handle", "unpacked"}
      /\ cur' = FrameHere /\ pointer' = pointer + Size(FrameHere)
      /\ UNCHANGED <<received, buff, closed, handled, late, pc>>
  BY DEF Unpack, ending, history, local
<1>2. Len(handled) < Len(Frames) /\ cur' = Len(handled) + 1 /\ FrameHere = Len(handled) + 1
  BY <1>1, UnpacksNext
<1>3. Len(handled) \in Nat /\ Len(Frames) \in Nat
  BY FrameType DEF TypeOK
<1>4. /\ pointer = 0 /\ Base = End(Len(handled)) /\ Base \in Nat /\ ~(late > 0)
      /\ ~(pc[Receiver] # "idle") /\ \A i \in DOMAIN buff : buff[i] = Base + i
  BY <1>1 DEF Receiving
<1>5. Base' = Base
  BY <1>1 DEF Base
<1>6. Base' + pointer' = End(cur')
  <2>1. Size(FrameHere) = End(FrameHere) - End(Len(handled))
    BY <1>2, <1>3 DEF Size
  <2>2. End(FrameHere) \in Nat
    BY <1>2, <1>3, EndType
  <2>3. QED
    BY <2>1, <2>2, <1>1, <1>4, <1>5
<1>7. End(cur)' = End(cur')
  BY DEF End
<1>8. QED
  BY <1>1, <1>2, <1>4, <1>5, <1>6, <1>7 DEF Receiving

LEMMA HandleStep ==
  ASSUME TypeOK, Receiving, Handle
  PROVE  Receiving' /\ handled' = Append(handled, <<Len(handled) + 1, Paths[Len(handled) + 1]>>)
         /\ Len(handled) + 1 \in DOMAIN Paths /\ late = 0
<1>1. /\ rpc = "handle" /\ rpc' = "callback"
      /\ handled' = Append(handled, <<cur, Kind(cur)>>)
      /\ late' = IF closed THEN late + 1 ELSE late
      /\ UNCHANGED <<input, closed>>
  BY DEF Handle, ending
<1>2. /\ Len(handled) < Len(Frames) /\ cur = Len(handled) + 1 /\ Base + pointer = End(cur)
      /\ Base \in Nat /\ ~(late > 0) /\ \A i \in DOMAIN buff : buff[i] = Base + i
  BY <1>1 DEF Receiving
<1>3. late \in Nat /\ Len(handled) \in Nat /\ Len(Frames) \in Nat
      /\ cur \in 1..Len(Frames) /\ DOMAIN Frames = 1..Len(Frames)
  BY <1>2, FrameType DEF TypeOK
<1>4. Kind(cur) = Paths[cur] /\ cur \in DOMAIN Paths
  BY <1>3 DEF Kind, Paths
<1>5. Len(handled') = Len(handled) + 1
  <2>1. <<cur, Kind(cur)>> \in (0..Len(Frames)) \X Kinds
    BY <1>3, SizesPositive
  <2>2. handled \in Seq((0..Len(Frames)) \X Kinds)
    BY DEF TypeOK
  <2>3. QED
    BY <2>1, <2>2, <1>1, AppendProperties
<1>6. UNCHANGED <<received, buff, pointer, cur>> /\ Base' = Base
  BY <1>1 DEF input, Base
<1>7. End(Len(handled))' = End(cur)
  BY <1>2, <1>5 DEF End
<1>8. (late > 0)' => closed'
  BY <1>1, <1>2
<1>9. Receiving'
  BY <1>1, <1>2, <1>3, <1>5, <1>6, <1>7, <1>8 DEF Receiving
<1>10. QED
  BY <1>1, <1>2, <1>3, <1>4, <1>9

LEMMA ReceiverStep ==
  ASSUME TypeOK, Receiving, UNCHANGED <<received, buff, cur, handled, late, closed>>,
         \/ StartRecv \/ CheckLoop \/ EnterRecv \/ CheckBuffer \/ CheckTry \/ CheckUnpacked
         \/ UnpackRaises \/ ReceiverReturns \/ ReceiveEmpty \/ ReceiveReset
         \/ ReceiveAborted \/ NeedMoreData
  PROVE  Receiving'
<1>0. Base' = Base /\ End(Len(handled))' = End(Len(handled)) /\ End(cur)' = End(cur)
  BY DEF Base, End
<1>f. pc \in [Threads -> Labels] /\ Receiver \in Threads /\ Len(buff) \in Nat
      /\ closed \in BOOLEAN
  BY DEF TypeOK, Labels, Threads
<1>1. CASE StartRecv \/ CheckLoop \/ UnpackRaises \/ ReceiverReturns
  BY <1>0, <1>1 DEF Receiving, StartRecv, CheckLoop, UnpackRaises, ReceiverReturns, input, local
<1>2. CASE CheckBuffer \/ CheckTry \/ CheckUnpacked
  <2>1. UNCHANGED <<pointer, pc>>
    BY <1>2 DEF CheckBuffer, CheckTry, CheckUnpacked, input, local
  <2>2. CASE CheckBuffer
    BY <1>0, <1>f, <2>1, <2>2 DEF Receiving, CheckBuffer
  <2>3. CASE CheckTry
    BY <1>0, <1>f, <2>1, <2>3 DEF Receiving, CheckTry
  <2>4. CASE CheckUnpacked
    BY <1>0, <1>f, <2>1, <2>4 DEF Receiving, CheckUnpacked
  <2>5. QED
    BY <1>2, <2>2, <2>3, <2>4
<1>3. CASE EnterRecv \/ ReceiveEmpty \/ ReceiveReset \/ ReceiveAborted
  <2>1. \/ rpc' = "blocked" /\ pc' = pc
        \/ rpc' = "closing"
    BY <1>3 DEF EnterRecv, ReceiveEmpty, ReceiveReset, ReceiveAborted, CloseThenStop, local
  <2>2. rpc \in {"recv", "blocked"} /\ UNCHANGED pointer
    BY <1>3 DEF EnterRecv, ReceiveEmpty, ReceiveReset, ReceiveAborted, CloseThenStop, input
  <2>3. QED
    BY <1>0, <2>1, <2>2 DEF Receiving
<1>4. CASE NeedMoreData
  <2>1. rpc = "unpack" /\ rpc' = "loop" /\ pc' = pc
    BY <1>4 DEF NeedMoreData, local
  <2>2. QED
    BY <1>0, <2>1 DEF Receiving
<1>5. QED
  BY <1>1, <1>2, <1>3, <1>4

LEMMA ReceivingNext ==
  ASSUME TypeOK, Receiving, [Next]_vars
  PROVE  Receiving'
<1>f. pc \in [Threads -> Labels] /\ Receiver \in Threads /\ Users \subseteq Threads
      /\ Receiver \notin Users
  BY ReceiverAssumption DEF TypeOK, Labels, Threads
<1>w. CASE Waits
  BY <1>w, WaitsKeep, ReceivingKept DEF ending, local
<1>1. ASSUME NEW t \in Threads, RunCall(t)
      PROVE  Receiving'
  <2>0. CASE ~Waits
    <3>1. UNCHANGED <<input, history, rpc>> /\ (closed => closed')
      BY <1>1, <2>0 DEF RunCall, Waits, CheckClosed, CloseSocket, NotifyListeners, LockSending,
                  SendChunk, SendReturns, SendFails, ending
    <3>2. pc[t] # "idle" /\ (pc' = pc \/ \E l \in Labels : pc' = [pc EXCEPT ![t] = l])
      BY <1>1, <2>0 DEF RunCall, Waits, CheckClosed, CloseSocket, NotifyListeners, LockSending,
                  SendChunk, SendReturns, SendFails, BeginClose, Labels, local
    <3>3. pc'[Receiver] # "idle" => pc[Receiver] # "idle"
      BY <3>2, <1>f
    <3>4. QED
      BY <3>1, <3>3, ReceivingKept
  <2>1. QED
    BY <2>0, <1>w
<1>2. ASSUME NEW u \in Users, CallClose(u) \/ CallSend(u)
      PROVE  Receiving'
  <2>1. UNCHANGED <<input, history, rpc, closed>>
    BY <1>2 DEF CallClose, CallSend, ending
  <2>2. \E l \in Labels : pc' = [pc EXCEPT ![u] = l]
    BY <1>2 DEF CallClose, CallSend, BeginClose, Labels
  <2>3. pc'[Receiver] = pc[Receiver]
    BY <2>2, <1>f
  <2>4. QED
    BY <2>1, <2>3, ReceivingKept
<1>3. CASE PeerSend \/ PeerEnd \/ UNCHANGED vars
  BY <1>3, ReceivingKept DEF PeerSend, PeerEnd, vars, ending, local
<1>4. CASE \/ StartRecv \/ CheckLoop \/ EnterRecv \/ CheckBuffer \/ CheckTry \/ CheckUnpacked
           \/ UnpackRaises \/ ReceiverReturns \/ ReceiveEmpty \/ ReceiveReset
           \/ ReceiveAborted \/ NeedMoreData
  <2>1. UNCHANGED <<received, buff, cur, handled, late, closed>>
    BY <1>4 DEF StartRecv, CheckLoop, EnterRecv, CheckBuffer, CheckTry, CheckUnpacked,
         UnpackRaises, ReceiverReturns, ReceiveEmpty, ReceiveReset, ReceiveAborted,
         NeedMoreData, CloseThenStop, input, history, ending
  <2>2. QED
    BY <1>4, <2>1, ReceiverStep
<1>5. CASE Receive
  BY <1>4, <1>5, ReceiveDataStep, ResetStep, UnpackStep, HandleStep DEF Receive
<1>6. QED
  BY <1>1, <1>2, <1>3, <1>4, <1>5, <1>w DEF Next, Waits

-----------------------------------------------------------------------------
(* The invariant *)

LEMMA InvInit == Init => IInv
<1> SUFFICES ASSUME Init
             PROVE  IInv
  OBVIOUS
<1>1. /\ sendingLock = NoThread /\ outbound = <<>> /\ buff = <<>> /\ handled = <<>> /\ late = 0
      /\ received = 0 /\ pointer = 0 /\ rpc = "off"
      /\ \A t \in Threads : pc[t] = "idle" /\ chunk[t] = 0
      /\ closed \/ notified = <<>>
  BY DEF Init
<1>2. TypeOK
  BY TypeInit
<1>3. Sending
  BY <1>1, ReceiverAssumption DEF Sending, LockHeld, LastIsItsOwn, CutIsHeld
<1>4. MessagesAreContiguous
  BY <1>1 DEF MessagesAreContiguous
<1>5. Closing
  BY <1>1 DEF Closing, PastTheCheck
<1>6. Receiving
  <2>1. Len(handled) = 0 /\ Base = 0 /\ DOMAIN buff = {} /\ End(0) = 0
    <3>1. Len(<<>>) = 0 /\ DOMAIN <<>> = {}
      OBVIOUS
    <3>2. Len(handled) = 0 /\ Len(buff) = 0 /\ DOMAIN buff = {}
      BY <1>1, <3>1, Zenon
    <3>3. received = 0 /\ End(0) = 0
      BY <1>1 DEF End
    <3>4. Base = 0
      BY <3>2, <3>3 DEF Base
    <3>5. QED
      BY <3>2, <3>3, <3>4
  <2>2. QED
    BY <1>1, <2>1, FrameType DEF Receiving, Threads
<1>7. QED
  BY <1>2, <1>3, <1>4, <1>5, <1>6 DEF IInv

LEMMA InvNext == IInv /\ [Next]_vars => IInv'
<1> SUFFICES ASSUME IInv, [Next]_vars
             PROVE  IInv'
  OBVIOUS
<1>1. TypeOK /\ Sending /\ MessagesAreContiguous /\ Closing /\ Receiving
  BY DEF IInv
<1>2. TypeOK'
  BY <1>1, TypeNext
<1>3. pc[Receiver] # "idle" => rpc \in {"callback", "closing"}
  BY <1>1 DEF Receiving
<1>4. Sending' /\ MessagesAreContiguous'
  BY <1>1, <1>2, <1>3, SendingNext
<1>5. Closing' /\ Receiving'
  BY <1>1, ClosingNext, ReceivingNext
<1>6. QED
  BY <1>2, <1>4, <1>5 DEF IInv

(* The invariant holds in every state. *)
THEOREM Invariant == Spec => []IInv
BY InvInit, InvNext, PTL DEF Spec

(* Whoever sends, fails to send or closes the connection when, the chunks  *)
(* of two sendData() calls never mix on the socket.                        *)
THEOREM MessagesStayTogether == Spec => []MessagesAreContiguous
<1>1. IInv => MessagesAreContiguous
  BY DEF IInv
<1>2. QED
  BY <1>1, Invariant, PTL

-----------------------------------------------------------------------------
(* The refinement *)

LEMMA ChannelInit == Init => Channel!Init
BY DEF Init, Channel!Init, Causes

LEMMA ChannelNext == IInv /\ [Next]_vars => [Channel!Next]_(Channel!vars)
<1> SUFFICES ASSUME IInv, [Next]_vars
             PROVE  [Channel!Next]_(Channel!vars)
  OBVIOUS
<1>0. TypeOK /\ Closing /\ Receiving
  BY DEF IInv
<1>1. ASSUME UNCHANGED <<handled, closed, late, notified>>
      PROVE  UNCHANGED Channel!vars
  BY <1>1 DEF Channel!vars
<1>2. ASSUME NEW t \in Threads, CheckClosed(t)
      PROVE  [Channel!Next]_(Channel!vars)
  <2>1. UNCHANGED <<handled, late, notified>> /\ closed' = TRUE
    BY <1>2 DEF CheckClosed, history
  <2>2. CASE closed
    <3>1. closed = TRUE
      BY <1>0, <2>2 DEF TypeOK
    <3>2. QED
      BY <2>1, <3>1, <1>1
  <2>3. CASE ~closed
    BY <2>1, <2>3 DEF Channel!Next, Channel!Close
  <2>4. QED
    BY <2>2, <2>3
<1>3. ASSUME NEW t \in Threads, NotifyListeners(t)
      PROVE  Channel!Notify
  <2>1. /\ notified' = Append(notified, cause[t])
        /\ UNCHANGED <<handled, closed, late>>
        /\ closed /\ notified = <<>>
    BY <1>0, <1>3 DEF NotifyListeners, history, Closing, PastTheCheck
  <2>2. cause[t] \in Causes
    BY <1>0 DEF TypeOK
  <2>3. notified' = <<cause[t]>>
    BY <2>1
  <2>4. QED
    BY <2>1, <2>2, <2>3 DEF Channel!Notify
<1>4. CASE Handle
  <2>1. /\ handled' = Append(handled, <<Len(handled) + 1, Paths[Len(handled) + 1]>>)
        /\ Len(handled) + 1 \in DOMAIN Paths /\ late = 0
    BY <1>0, <1>4, HandleStep
  <2>2. late' = (IF closed THEN late + 1 ELSE late) /\ UNCHANGED <<closed, notified>>
    BY <1>4 DEF Handle, ending
  <2>3. Channel!Handle
    BY <2>1, <2>2 DEF Channel!Handle
  <2>4. QED
    BY <2>3 DEF Channel!Next
<1>w. CASE Waits
  BY <1>w, <1>0, <1>1, WaitsKeep DEF ending, history
<1>5. ASSUME NEW t \in Threads, RunCall(t)
      PROVE  [Channel!Next]_(Channel!vars)
  <2>1. CASE CloseSocket(t) \/ LockSending(t) \/ SendChunk(t) \/ SendReturns(t) \/ SendFails(t)
    BY <2>1, <1>1 DEF CloseSocket, LockSending, SendChunk, SendReturns, SendFails, ending, history
  <2>2. QED
    BY <2>1, <1>2, <1>3, <1>5, <1>w DEF RunCall, Waits, Channel!Next
<1>6. ASSUME NEW u \in Users, CallClose(u) \/ CallSend(u)
      PROVE  [Channel!Next]_(Channel!vars)
  BY <1>6, <1>1 DEF CallClose, CallSend, ending, history
<1>7. CASE PeerSend \/ PeerEnd \/ StartRecv \/ ReceiveAborted \/ UNCHANGED vars
  BY <1>7, <1>1 DEF PeerSend, PeerEnd, StartRecv, ReceiveAborted, CloseThenStop, vars, ending, history
<1>8. CASE Receive
  <2>1. CASE CheckLoop \/ EnterRecv \/ CheckBuffer \/ ReceiveEmpty \/ ReceiveReset
             \/ (\E n \in 1..StreamSize : ReceiveData(n)) \/ CheckTry \/ NeedMoreData \/ Unpack
             \/ UnpackRaises \/ CheckUnpacked \/ ReceiverReturns \/ ResetBeforePointer
    BY <2>1, <1>1 DEF CheckLoop, EnterRecv, CheckBuffer, ReceiveEmpty, ReceiveReset, ReceiveData,
         CheckTry, NeedMoreData, Unpack, UnpackRaises, CheckUnpacked, ReceiverReturns,
         ResetBeforePointer, CloseThenStop, ending, history
  <2>2. QED
    BY <2>1, <1>4, <1>8 DEF Receive
<1>9. QED
  BY <1>5, <1>6, <1>7, <1>8, <1>w DEF Next, Waits

(* The connection implements FrameChannel: however the stream is cut and   *)
(* whoever closes the connection when, the frames are handled in order,    *)
(* whole and once each, at most one of them after the connection is        *)
(* closed, and the close listeners are told once.                          *)
THEOREM ChannelImplemented == Spec => ImplementsChannel
<1>1. Spec => Channel!Spec
  BY ChannelInit, ChannelNext, Invariant, PTL DEF Spec, Channel!Spec
<1>2. QED
  BY <1>1 DEF ImplementsChannel
-----------------------------------------------------------------------------
(***************************************************************************)
(* What the connection carries.  ProtocolConnection takes a frame as a     *)
(* unit that is read when it has arrived; that it can be is a matter of    *)
(* Formats: writeMessage and readMessage of the WebSocket, and the storage *)
(* whose bytes end where the channel cuts them.  Heaps, Messages and       *)
(* Behind are arbitrary, as far as InputsAssumption allows.                *)
(*                                                                         *)
(* FrameInv says how far a frame has come and StoreInv the same of a       *)
(* value.  What is hard is not the steps but the functions they call: all  *)
(* of them recurse over bytes, numbers or heaps, and the only induction    *)
(* that the provers accept is that a non-empty set of numbers has a least  *)
(* element.  From it come UpTo, and Recursion: a function that follows the *)
(* steps of a recursive definition exists.                                 *)
(***************************************************************************)
-----------------------------------------------------------------------------
(* Induction over sets of numbers. *)
Below == {ss \in Nat \X Nat : ss[1] < ss[2]}

LEMMA LeastElement ==
  ASSUME NEW T \in SUBSET Nat, T # {}
  PROVE  \E x \in T : \A y \in T : x <= y
<1>1. OpToRel(<, Nat) = Below
  BY DEF OpToRel, Below
<1>2. IsWellFoundedOn(Below, Nat)
  BY <1>1, NatLessThanWellFounded
<1>3. PICK x \in T : \A y \in T : ~ (<<y, x>> \in Below)
  BY <1>2, WFMin
<1>4. ASSUME NEW y \in T
      PROVE  x <= y
  <2>1. x \in Nat /\ y \in Nat
    OBVIOUS
  <2>2. ~ (<<y, x>> \in Below)
    BY <1>3
  <2>3. ~ (y < x)
    BY <2>1, <2>2 DEF Below
  <2>4. QED
    BY <2>1, <2>3
<1>5. QED
  BY <1>4

LEMMA UpTo ==
  ASSUME NEW n \in Nat, NEW T, 0 \in T, \A i \in 0..n : i \in T /\ i < n => i + 1 \in T
  PROVE  0..n \subseteq T
<1>1. SUFFICES ASSUME 0..n \ T # {}
               PROVE  FALSE
  OBVIOUS
<1> DEFINE U == 0..n \ T
<1>0. U \in SUBSET Nat /\ U # {}
  BY <1>1
<1>a. \E x \in U : \A y \in U : x <= y
  <2> HIDE DEF U
  <2>1. QED
    BY <1>0, LeastElement
<1>2. PICK x \in U : \A y \in U : x <= y
  BY <1>a
<1>3. x - 1 \in 0..n /\ x - 1 < n
  BY <1>2
<1>4. x - 1 \in T
  BY <1>2, <1>3
<1>5. QED
  BY <1>2, <1>3, <1>4

(* A function defined by recursion exists: f follows the steps. *)
Iterates(f, n, S, base, step) ==
  /\ f \in [0..n -> S]
  /\ f[0] = base
  /\ \A i \in 1..n : f[i] = step[i][f[i - 1]]

LEMMA Recursion ==
  ASSUME NEW n \in Nat, NEW S, NEW base \in S, NEW step \in [1..n -> [S -> S]]
  PROVE  \E f : Iterates(f, n, S, base, step)
<1> DEFINE T == {m \in 0..n : \E f : Iterates(f, m, S, base, step)}
<1>1. 0 \in T
  <2>1. Iterates([i \in 0..0 |-> base], 0, S, base, step)
    BY DEF Iterates
  <2>2. QED
    BY <2>1
<1>2. ASSUME NEW m \in 0..n, m \in T, m < n
      PROVE  m + 1 \in T
  <2>1. PICK f : Iterates(f, m, S, base, step)
    BY <1>2
  <2> DEFINE g == [i \in 0..m + 1 |-> IF i <= m THEN f[i] ELSE step[m + 1][f[m]]]
  <2>2. m + 1 \in 1..n /\ f[m] \in S /\ step[m + 1] \in [S -> S]
    BY <1>2, <2>1 DEF Iterates
  <2>3. g \in [0..m + 1 -> S]
    BY <2>1, <2>2 DEF Iterates
  <2>4. g[0] = base
    BY <2>1 DEF Iterates
  <2>5. ASSUME NEW i \in 1..m + 1
        PROVE  g[i] = step[i][g[i - 1]]
    <3>1. CASE i = m + 1
      <4>1. g[i - 1] = f[m] /\ g[i] = step[m + 1][f[m]]
        BY <3>1
      <4>2. QED
        BY <4>1, <3>1
    <3>2. CASE i # m + 1
      <4>1. g[i - 1] = f[i - 1] /\ g[i] = f[i] /\ i \in 1..m
        BY <3>2
      <4>2. QED
        BY <4>1, <2>1 DEF Iterates
    <3>3. QED
      BY <3>1, <3>2
  <2>6. Iterates(g, m + 1, S, base, step)
    BY <2>3, <2>4, <2>5 DEF Iterates
  <2>7. m + 1 \in 0..n
    BY <1>2
  <2>8. QED
    BY <2>6, <2>7
<1>3. 0..n \subseteq T
  <2> HIDE DEF T
  <2>1. QED
    BY <1>1, <1>2, UpTo
<1>4. QED
  BY <1>3

-----------------------------------------------------------------------------
(* Numbers as bytes, the most significant one first. *)
LEMMA Division ==
  ASSUME NEW n \in Int
  PROVE  /\ n = 256 * (n \div 256) + (n % 256)
         /\ n % 256 \in 0..255 /\ n \div 256 \in Int
         /\ n \in Nat => n \div 256 \in Nat
BY SMT

(* What is left of n when its last bytes have been taken away, one by one. *)
Rests(rest, n, size) ==
  /\ rest \in [0..size -> Int]
  /\ rest[0] = n
  /\ \A i \in 1..size : rest[i] = rest[i - 1] \div 256

LEMMA BigDefined ==
  ASSUME NEW n \in Int, NEW size \in Nat
  PROVE  \E rest : /\ Rests(rest, n, size)
                   /\ Big(n, size) = [i \in 1..size |-> rest[size - i] % 256]
<1> DEFINE g == CHOOSE g : g = [i \in 0..size |-> IF i = 0 THEN n ELSE g[i - 1] \div 256]
           step == [i \in 1..size |-> [r \in Int |-> r \div 256]]
<1>1. step \in [1..size -> [Int -> Int]]
  BY Division
<1>2. PICK f : Iterates(f, size, Int, n, step)
  <2> HIDE DEF step
  <2>1. QED
    BY <1>1, Recursion
<1>3. Rests(f, n, size)
  <2>1. ASSUME NEW i \in 1..size
        PROVE  step[i][f[i - 1]] = f[i - 1] \div 256
    <3>1. f[i - 1] \in Int
      BY <1>2 DEF Iterates
    <3>2. QED
      BY <3>1
  <2> HIDE DEF step
  <2>2. QED
    BY <1>2, <2>1 DEF Iterates, Rests
<1>4. f = [i \in 0..size |-> IF i = 0 THEN n ELSE f[i - 1] \div 256]
  BY <1>3 DEF Rests
<1>5. g = [i \in 0..size |-> IF i = 0 THEN n ELSE g[i - 1] \div 256]
  BY <1>4, ZenonT(40)
<1>6. Big(n, size) = [i \in 1..size |-> g[size - i] % 256]
  BY DEF Big
<1> HIDE DEF g
<1>7. \A i \in 0..size : g[i] = IF i = 0 THEN n ELSE g[i - 1] \div 256
  BY <1>5
<1>8. \A i \in 0..size : g[i] \in Int
  <2> DEFINE T == {i \in 0..size : g[i] \in Int}
  <2>1. 0 \in T
    BY <1>7
  <2>2. \A i \in 0..size : i \in T /\ i < size => i + 1 \in T
    BY <1>7, Division
  <2>3. 0..size \subseteq T
    <3> HIDE DEF T
    <3>1. QED
      BY <2>1, <2>2, UpTo
  <2>4. QED
    BY <2>3
<1>9. g \in [0..size -> Int]
  BY <1>5, <1>8
<1>10. Rests(g, n, size)
  BY <1>7, <1>9 DEF Rests
<1>11. QED
  BY <1>6, <1>10

LEMMA BigType ==
  ASSUME NEW n \in Int, NEW size \in Nat
  PROVE  Big(n, size) \in Seq(Byte) /\ Len(Big(n, size)) = size
<1>1. PICK rest : Rests(rest, n, size) /\ Big(n, size) = [i \in 1..size |-> rest[size - i] % 256]
  BY BigDefined
<1>2. \A i \in 1..size : rest[size - i] \in Int
  BY <1>1 DEF Rests
<1>3. \A i \in 1..size : rest[size - i] % 256 \in 0..255
  BY <1>2, Division
<1>4. QED
  BY <1>1, <1>3 DEF Byte

(* The value of the first bytes, one after the other. *)
Values(value, bytes) ==
  /\ value \in [0..Len(bytes) -> Nat]
  /\ value[0] = 0
  /\ \A i \in 1..Len(bytes) : value[i] = value[i - 1] * 256 + bytes[i]

LEMMA FromBigDefined ==
  ASSUME NEW bytes \in Seq(Nat)
  PROVE  \E value : Values(value, bytes) /\ FromBig(bytes) = value[Len(bytes)]
<1> DEFINE n == Len(bytes)
           g == CHOOSE g : g = [i \in 0..n |-> IF i = 0 THEN 0 ELSE g[i - 1] * 256 + bytes[i]]
           step == [i \in 1..n |-> [v \in Nat |-> v * 256 + bytes[i]]]
<1>0. n \in Nat /\ \A i \in 1..n : bytes[i] \in Nat
  OBVIOUS
<1>1. step \in [1..n -> [Nat -> Nat]]
  <2>1. ASSUME NEW i \in 1..n, NEW v \in Nat
        PROVE  v * 256 + bytes[i] \in Nat
    BY <1>0
  <2>2. QED
    BY <2>1
<1>2. PICK f : Iterates(f, n, Nat, 0, step)
  <2> HIDE DEF step, n
  <2>1. QED
    BY <1>0, <1>1, Recursion
<1>3. Values(f, bytes)
  <2>1. ASSUME NEW i \in 1..n
        PROVE  step[i][f[i - 1]] = f[i - 1] * 256 + bytes[i]
    <3>1. i - 1 \in 0..n
      BY <1>0
    <3>2. f[i - 1] \in Nat
      BY <3>1, <1>2 DEF Iterates
    <3>3. QED
      BY <3>2
  <2> HIDE DEF step
  <2>2. QED
    BY <1>2, <2>1 DEF Iterates, Values
<1>4. f = [i \in 0..n |-> IF i = 0 THEN 0 ELSE f[i - 1] * 256 + bytes[i]]
  BY <1>3 DEF Values
<1>5. g = [i \in 0..n |-> IF i = 0 THEN 0 ELSE g[i - 1] * 256 + bytes[i]]
  BY <1>4, ZenonT(40)
<1>6. FromBig(bytes) = g[n]
  BY DEF FromBig
<1> HIDE DEF g
<1>7. \A i \in 0..n : g[i] = IF i = 0 THEN 0 ELSE g[i - 1] * 256 + bytes[i]
  BY <1>5
<1>8. \A i \in 0..n : g[i] \in Nat
  <2> DEFINE T == {i \in 0..n : g[i] \in Nat}
  <2>1. 0 \in T
    BY <1>0, <1>7
  <2>2. ASSUME NEW i \in 0..n, i \in T, i < n
        PROVE  i + 1 \in T
    <3> HIDE DEF n
    <3>1. g[i + 1] = g[i] * 256 + bytes[i + 1] /\ bytes[i + 1] \in Nat /\ i + 1 \in 0..n
      BY <1>0, <1>7, <2>2
    <3>2. QED
      BY <3>1, <2>2
  <2>3. 0..n \subseteq T
    <3> HIDE DEF T, n
    <3>1. QED
      BY <1>0, <2>1, <2>2, UpTo
  <2>4. QED
    BY <2>3
<1>9. g \in [0..n -> Nat]
  BY <1>5, <1>8
<1>10. Values(g, bytes)
  BY <1>7, <1>9 DEF Values
<1>11. QED
  BY <1>6, <1>10

(* If nothing is left of n after size bytes, these say what n is. *)
LEMMA BigReadsBack ==
  ASSUME NEW n \in Nat, NEW size \in Nat, NEW rest, Rests(rest, n, size), rest[size] = 0
  PROVE  FromBig(Big(n, size)) = n
<1> DEFINE bytes == Big(n, size)
<1>1. PICK r : Rests(r, n, size) /\ bytes = [i \in 1..size |-> r[size - i] % 256]
  BY BigDefined
<1>2. bytes \in Seq(Nat) /\ Len(bytes) = size
  <2>1. bytes \in Seq(Byte) /\ Len(bytes) = size
    BY BigType
  <2>2. \A i \in 1..size : bytes[i] \in Byte
    BY <2>1
  <2>3. \A i \in 1..size : bytes[i] \in Nat
    BY <2>2 DEF Byte
  <2>4. QED
    BY <2>1, <2>3
<1> HIDE DEF bytes
<1>3. PICK value : Values(value, bytes) /\ FromBig(bytes) = value[size]
  BY <1>2, FromBigDefined
<1>4. \A i \in 0..size : r[i] = rest[i]
  <2> DEFINE T == {i \in 0..size : r[i] = rest[i]}
  <2>1. 0 \in T
    BY <1>1 DEF Rests
  <2>2. ASSUME NEW i \in 0..size, i \in T, i < size
        PROVE  i + 1 \in T
    <3>1. i + 1 \in 1..size /\ (i + 1) - 1 = i
      BY <2>2
    <3>2. r[i + 1] = r[i] \div 256 /\ rest[i + 1] = rest[i] \div 256
      BY <3>1, <1>1 DEF Rests
    <3>3. QED
      BY <3>1, <3>2, <2>2
  <2>3. 0..size \subseteq T
    <3> HIDE DEF T
    <3>1. QED
      BY <2>1, <2>2, UpTo
  <2>4. QED
    BY <2>3
<1>5. \A i \in 0..size : value[i] = r[size - i]
  <2> DEFINE T == {i \in 0..size : value[i] = r[size - i]}
  <2>1. 0 \in T
    BY <1>3, <1>4 DEF Values
  <2>2. ASSUME NEW i \in 0..size, i \in T, i < size
        PROVE  i + 1 \in T
    <3> DEFINE j == size - (i + 1)
    <3>1. i + 1 \in 1..size /\ j \in 0..size /\ j + 1 \in 1..size /\ size - i = j + 1 /\ (j + 1) - 1 = j
      BY <2>2
    <3>2. value[i + 1] = value[i] * 256 + bytes[i + 1]
      BY <3>1, <1>2, <1>3 DEF Values
    <3>3. bytes[i + 1] = r[j] % 256
      BY <3>1, <1>1
    <3>4. r[j + 1] = r[j] \div 256
      BY <3>1, <1>1 DEF Rests
    <3>5. value[i] = r[j + 1]
      BY <2>2, <3>1
    <3>6. r[j] \in Int
      BY <3>1, <1>1 DEF Rests
    <3> HIDE DEF j
    <3>7. value[i + 1] = r[j]
      BY <3>2, <3>3, <3>4, <3>5, <3>6, Division
    <3>8. QED
      BY <3>1, <3>7 DEF j
  <2>3. 0..size \subseteq T
    <3> HIDE DEF T
    <3>1. QED
      BY <2>1, <2>2, UpTo
  <2>4. QED
    BY <2>3
<1>6. value[size] = r[0] /\ r[0] = n
  BY <1>1, <1>5 DEF Rests
<1>7. QED
  BY <1>3, <1>6 DEF bytes

LEMMA TwoBytes ==
  ASSUME NEW n \in Nat, n <= 65535
  PROVE  FromBig(Big(n, 2)) = n
<1>1. PICK rest : Rests(rest, n, 2)
  BY BigDefined
<1>2. rest[0] = n /\ rest[1] = rest[0] \div 256 /\ rest[2] = rest[1] \div 256
  BY <1>1 DEF Rests
<1>3. rest[2] = 0
  BY <1>2
<1>4. QED
  BY <1>1, <1>3, BigReadsBack

ByFours(n, a, b, c, d) ==
  /\ a \in Int /\ b \in Int /\ c \in Int /\ d \in Int
  /\ a = n \div 256 /\ b = a \div 256 /\ c = b \div 256 /\ d = c \div 256

LEMMA FourDivisions ==
  ASSUME NEW n \in Nat, NEW a, NEW b, NEW c, NEW d, ByFours(n, a, b, c, d)
  PROVE  /\ n < 4294967296 => d = 0
         /\ n < 18446744073709551616 => d \in Nat /\ d < 4294967296
BY SMT DEF ByFours

LEMMA EightBytes ==
  ASSUME NEW n \in Nat, (n \div 2 ^ 30) \div 2 ^ 30 < 16
  PROVE  FromBig(Big(n, 8)) = n
<1>1. PICK rest : Rests(rest, n, 8)
  BY BigDefined
<1>2. rest[0] = n /\ \A i \in 1..8 : rest[i] = rest[i - 1] \div 256
  BY <1>1 DEF Rests
<1>3. /\ rest[1] = n \div 256 /\ rest[2] = rest[1] \div 256
      /\ rest[3] = rest[2] \div 256 /\ rest[4] = rest[3] \div 256
      /\ rest[5] = rest[4] \div 256 /\ rest[6] = rest[5] \div 256
      /\ rest[7] = rest[6] \div 256 /\ rest[8] = rest[7] \div 256
  BY <1>2, SMT
<1>4. \A i \in 1..8 : rest[i] \in Int
  BY <1>1 DEF Rests
<1>5. /\ rest[1] \in Int /\ rest[2] \in Int /\ rest[3] \in Int /\ rest[4] \in Int
      /\ rest[5] \in Int /\ rest[6] \in Int /\ rest[7] \in Int /\ rest[8] \in Int
  BY <1>4
<1>6. n < 18446744073709551616
  BY SMT
<1> DEFINE a == rest[1]  b == rest[2]  c == rest[3]  d == rest[4]
           e == rest[5]  f == rest[6]  g == rest[7]  h == rest[8]
<1> HIDE DEF a, b, c, d, e, f, g, h
<1>7. /\ a \in Int /\ b \in Int /\ c \in Int /\ d \in Int
      /\ e \in Int /\ f \in Int /\ g \in Int /\ h \in Int
  BY <1>5, SMTT(30) DEF a, b, c, d, e, f, g, h
<1>8. /\ a = n \div 256 /\ b = a \div 256 /\ c = b \div 256 /\ d = c \div 256
      /\ e = d \div 256 /\ f = e \div 256 /\ g = f \div 256 /\ h = g \div 256
  BY <1>3, ZenonT(40) DEF a, b, c, d, e, f, g, h
<1>9. d \in Nat /\ d < 4294967296
  <2>1. ByFours(n, a, b, c, d)
    BY <1>7, <1>8 DEF ByFours
  <2>2. QED
    BY <1>6, <1>7, <2>1, FourDivisions, SMT
<1>10. h = 0
  <2>1. ByFours(d, e, f, g, h)
    BY <1>7, <1>8 DEF ByFours
  <2>2. QED
    BY <1>7, <1>9, <2>1, FourDivisions, SMTT(30)
<1>11. QED
  BY <1>1, <1>10, BigReadsBack DEF h

-----------------------------------------------------------------------------
(* Frames *)

LEMMA TakeAll ==
  ASSUME NEW w, Len(w) \in Nat, NEW p \in Nat \ {0}, NEW n \in Nat, p + n - 1 <= Len(w)
  PROVE  Take(w, p, n).v = SubSeq(w, p, p + n - 1) /\ Take(w, p, n).p = p + n
BY DEF Take, Got

LEMMA TakeTooMuch ==
  ASSUME NEW w, Len(w) \in Nat, NEW p \in Nat \ {0}, NEW n \in Nat, p + n - 1 > Len(w)
  PROVE  Take(w, p, n) = Fail /\ Take(w, p, n).p = 0
BY DEF Take, Fail, Got

LEMMA TakeNothing ==
  ASSUME NEW w, NEW n
  PROVE  Take(w, 0, n) = Fail /\ Take(w, 0, n).p = 0
BY DEF Take, Fail, Got

Extension(m) == IF lenBytes(m.length) > 1 THEN Big(m.length, lenBytes(m.length)) ELSE <<>>
KeyOf(m) == IF m.isMasked THEN maskingKey ELSE <<>>
FirstByte(m) == (IF m.isFin THEN 128 ELSE 0) + m.opcode
Short(m) == CASE lenBytes(m.length) = 1 -> m.length
              [] lenBytes(m.length) = 2 -> 126
              [] OTHER -> 127
SecondByte(m) == (IF m.isMasked THEN 128 ELSE 0) + Short(m)
HeadLength(m) == 2 + Len(Extension(m)) + Len(KeyOf(m))

LEMMA Parts ==
  ASSUME NEW m, IsMessage(m)
  PROVE  /\ m.length \in Nat
         /\ Extension(m) \in Seq(Byte) /\ KeyOf(m) \in Seq(Byte)
         /\ Len(KeyOf(m)) = IF m.isMasked THEN 4 ELSE 0
         /\ Short(m) \in 0..127
         /\ Len(Extension(m)) = IF Short(m) = 126 THEN 2 ELSE IF Short(m) = 127 THEN 8 ELSE 0
         /\ Short(m) < 126 => m.length = Short(m)
         /\ ~ (Short(m) < 126) => m.length = FromBig(Extension(m))
         /\ FirstByte(m) \in Byte /\ SecondByte(m) \in Byte
         /\ (FirstByte(m) >= 128) = m.isFin /\ FirstByte(m) % 16 = m.opcode
         /\ (SecondByte(m) >= 128) = m.isMasked /\ SecondByte(m) % 128 = Short(m)
<1>1. m.length \in Nat /\ m.isFin \in BOOLEAN /\ m.isMasked \in BOOLEAN /\ m.opcode \in Opcodes
  BY DEF IsMessage
<1>2. maskingKey \in Seq(Byte) /\ Len(maskingKey) = 4
  BY DEF maskingKey, Byte
<1>3. KeyOf(m) \in Seq(Byte) /\ Len(KeyOf(m)) = IF m.isMasked THEN 4 ELSE 0
  <2>1. CASE m.isMasked
    BY <1>2, <2>1 DEF KeyOf
  <2>2. CASE ~ m.isMasked
    <3>1. KeyOf(m) = <<>>
      BY <2>2 DEF KeyOf
    <3>2. QED
      BY <2>2, <3>1
  <2>3. QED
    BY <2>1, <2>2
<1>4. FirstByte(m) \in Byte /\ (FirstByte(m) >= 128) = m.isFin /\ FirstByte(m) % 16 = m.opcode
  BY <1>1 DEF FirstByte, Opcodes, Byte
<1>5. ASSUME Short(m) \in 0..127
      PROVE  /\ SecondByte(m) \in Byte
             /\ (SecondByte(m) >= 128) = m.isMasked /\ SecondByte(m) % 128 = Short(m)
  BY <1>1, <1>5 DEF SecondByte, Byte
<1>6. CASE m.length <= 125
  <2>1. lenBytes(m.length) = 1
    BY <1>6 DEF lenBytes
  <2>2. Short(m) = m.length
    BY <2>1 DEF Short
  <2>3. Extension(m) \in Seq(Byte) /\ Len(Extension(m)) = 0
    <3>1. Extension(m) = <<>>
      BY <2>1 DEF Extension
    <3>2. QED
      BY <3>1
  <2>4. Short(m) \in 0..127 /\ Short(m) < 126 /\ ~ (Short(m) = 126) /\ ~ (Short(m) = 127)
    BY <1>1, <1>6, <2>2
  <2>5. Len(Extension(m)) = IF Short(m) = 126 THEN 2 ELSE IF Short(m) = 127 THEN 8 ELSE 0
    BY <2>3, <2>4
  <2>6. /\ Short(m) < 126 => m.length = Short(m)
        /\ ~ (Short(m) < 126) => m.length = FromBig(Extension(m))
    BY <2>2, <2>4
  <2>7. QED
    BY <1>1, <1>3, <1>4, <1>5, <2>3, <2>4, <2>5, <2>6
<1>7. CASE m.length > 125 /\ m.length <= 65535
  <2>1. lenBytes(m.length) = 2
    BY <1>1, <1>7 DEF lenBytes
  <2>2. Short(m) = 126
    BY <2>1 DEF Short
  <2>3. Extension(m) = Big(m.length, 2)
    BY <2>1 DEF Extension
  <2>4. m.length \in Int
    BY <1>1
  <2>5. Extension(m) \in Seq(Byte) /\ Len(Extension(m)) = 2
    BY <2>3, <2>4, BigType
  <2>6. FromBig(Extension(m)) = m.length
    BY <1>1, <1>7, <2>3, TwoBytes
  <2>7. Short(m) \in 0..127
    BY <2>2
  <2>8. QED
    BY <1>1, <1>3, <1>4, <1>5, <2>2, <2>5, <2>6, <2>7
<1>8. CASE m.length > 65535
  <2>1. lenBytes(m.length) = 8
    BY <1>1, <1>8 DEF lenBytes
  <2>2. Short(m) = 127
    BY <2>1 DEF Short
  <2>3. Extension(m) = Big(m.length, 8)
    BY <2>1 DEF Extension
  <2>4. m.length \in Int
    BY <1>1
  <2>5. Extension(m) \in Seq(Byte) /\ Len(Extension(m)) = 8
    BY <2>3, <2>4, BigType
  <2>6. FromBig(Extension(m)) = m.length
    BY <1>1, <1>8, <2>3, EightBytes DEF IsMessage
  <2>7. Short(m) \in 0..127
    BY <2>2
  <2>8. QED
    BY <1>1, <1>3, <1>4, <1>5, <2>2, <2>5, <2>6, <2>7
<1>9. QED
  BY <1>1, <1>6, <1>7, <1>8

LEMMA HeadOf ==
  ASSUME NEW m, IsMessage(m)
  PROVE  /\ writeMessage(m) = <<FirstByte(m), SecondByte(m)>> \o Extension(m) \o KeyOf(m)
         /\ writeMessage(m) \in Seq(Byte)
         /\ Len(writeMessage(m)) = HeadLength(m)
<1>1. writeMessage(m) = <<FirstByte(m), SecondByte(m)>> \o Extension(m) \o KeyOf(m)
  BY DEF writeMessage, FirstByte, SecondByte, Short, Extension, KeyOf
<1>2. <<FirstByte(m), SecondByte(m)>> \in Seq(Byte)
  BY Parts
<1>3. QED
  BY <1>1, <1>2, Parts DEF HeadLength

LEMMA MinOfTwo ==
  ASSUME NEW a \in Int, NEW b \in Int
  PROVE  Min({a, b}) = IF a <= b THEN a ELSE b
BY DEF Min

LEMMA SubSeqOf ==
  ASSUME NEW S, NEW w \in Seq(S), NEW c \in Nat, NEW n \in Nat, c + n <= Len(w)
  PROVE  /\ SubSeq(w, c + 1, c + n) \in Seq(S) /\ Len(SubSeq(w, c + 1, c + n)) = n
         /\ \A i \in 1..n : SubSeq(w, c + 1, c + n)[i] = w[c + i]
<1> DEFINE a == c + 1
           b == c + n
<1>1. a \in Int /\ b \in Int /\ \A i \in a..b : w[i] \in S
  OBVIOUS
<1>2. b - a + 1 = n /\ (IF a <= b THEN b - a + 1 ELSE 0) = n /\ \A i \in 1..n : a + i - 1 = c + i
  OBVIOUS
<1> HIDE DEF a, b
<1>3. /\ SubSeq(w, a, b) \in Seq(S)
      /\ Len(SubSeq(w, a, b)) = IF a <= b THEN b - a + 1 ELSE 0
      /\ \A i \in 1..b - a + 1 : SubSeq(w, a, b)[i] = w[a + i - 1]
  BY <1>1, SubSeqProperties
<1>4. /\ SubSeq(w, a, b) \in Seq(S) /\ Len(SubSeq(w, a, b)) = n
      /\ \A i \in 1..n : SubSeq(w, a, b)[i] = w[c + i]
  BY <1>2, <1>3
<1>5. QED
  BY <1>4 DEF a, b

LEMMA Prefix ==
  ASSUME NEW S, NEW w \in Seq(S), NEW n \in Nat, n <= Len(w)
  PROVE  /\ SubSeq(w, 1, n) \in Seq(S) /\ Len(SubSeq(w, 1, n)) = n
         /\ \A i \in 1..n : SubSeq(w, 1, n)[i] = w[i]
<1>1. 0 + n <= Len(w) /\ 0 \in Nat
  OBVIOUS
<1>2. /\ SubSeq(w, 0 + 1, 0 + n) \in Seq(S) /\ Len(SubSeq(w, 0 + 1, 0 + n)) = n
      /\ \A i \in 1..n : SubSeq(w, 0 + 1, 0 + n)[i] = w[0 + i]
  BY <1>1, SubSeqOf
<1>3. 0 + 1 = 1 /\ 0 + n = n /\ \A i \in 1..n : 0 + i = i
  OBVIOUS
<1>4. QED
  BY <1>2, <1>3

(* What stands in the head, and how much of it has arrived. *)
LEMMA BuffOf ==
  ASSUME NEW m, IsMessage(m), NEW n \in Nat, NEW inBuff,
         inBuff = SubSeq(writeMessage(m), 1, Min({n, Len(writeMessage(m))}))
  PROVE  /\ inBuff \in Seq(Byte)
         /\ Len(inBuff) = IF n <= HeadLength(m) THEN n ELSE HeadLength(m)
         /\ Len(inBuff) >= 1 => inBuff[1] = FirstByte(m)
         /\ Len(inBuff) >= 2 => inBuff[2] = SecondByte(m)
         /\ Len(inBuff) >= 2 + Len(Extension(m)) =>
              SubSeq(inBuff, 3, 2 + Len(Extension(m))) = Extension(m)
<1> DEFINE head == writeMessage(m)
           H == HeadLength(m)
           X == Extension(m)
           K == KeyOf(m)
<1>1. head \in Seq(Byte) /\ Len(head) = H
  BY HeadOf
<1>2. X \in Seq(Byte) /\ K \in Seq(Byte) /\ H = 2 + Len(X) + Len(K)
  BY Parts DEF HeadLength
<1>3. head = <<FirstByte(m), SecondByte(m)>> \o X \o K
  BY HeadOf
<1>4. FirstByte(m) \in Byte /\ SecondByte(m) \in Byte
  BY Parts
<1> HIDE DEF head, H, X, K
<1>h. H \in Nat /\ 2 + Len(X) <= H
  BY <1>2
<1>5. Min({n, Len(head)}) = IF n <= H THEN n ELSE H
  BY <1>1, <1>h, MinOfTwo
<1> DEFINE L == IF n <= H THEN n ELSE H
<1>l. L \in 0..H
  BY <1>h
<1>6. inBuff = SubSeq(head, 1, L)
  BY <1>5 DEF head
<1> HIDE DEF L
<1>7. inBuff \in Seq(Byte) /\ Len(inBuff) = L /\ \A i \in 1..L : inBuff[i] = head[i]
  <2>1. L \in Nat /\ L <= Len(head)
    BY <1>1, <1>l, <1>h
  <2>2. QED
    <3>1. SubSeq(head, 1, L) \in Seq(Byte) /\ Len(SubSeq(head, 1, L)) = L
      BY <1>1, <2>1, Prefix
    <3>2. \A i \in 1..L : SubSeq(head, 1, L)[i] = head[i]
      BY <1>1, <2>1, Prefix
    <3>3. QED
      BY <1>6, <3>1, <3>2
<1>8. head[1] = FirstByte(m) /\ head[2] = SecondByte(m)
  BY <1>2, <1>3, <1>4
<1>9. \A i \in 1..Len(X) : head[2 + i] = X[i]
  BY <1>2, <1>3, <1>4
<1>10. ASSUME Len(inBuff) >= 2 + Len(X)
       PROVE  SubSeq(inBuff, 3, 2 + Len(X)) = X
  <2> DEFINE s == SubSeq(inBuff, 3, 2 + Len(X))
  <2>0. Len(X) \in Nat /\ L \in Nat /\ 2 + Len(X) <= L
    BY <1>2, <1>h, <1>l, <1>7, <1>10
  <2>1. s \in Seq(Byte) /\ Len(s) = Len(X) /\ \A i \in 1..Len(X) : s[i] = inBuff[2 + i]
    <3>1. 2 + Len(X) <= Len(inBuff) /\ Len(X) \in Nat /\ 2 \in Nat
      BY <1>7, <2>0
    <3>2. s = SubSeq(inBuff, 2 + 1, 2 + Len(X))
      OBVIOUS
    <3>3. SubSeq(inBuff, 2 + 1, 2 + Len(X)) \in Seq(Byte)
      BY <1>7, <3>1, SubSeqOf
    <3>6. Len(SubSeq(inBuff, 2 + 1, 2 + Len(X))) = Len(X)
      BY <1>7, <3>1, SubSeqOf
    <3>4. \A i \in 1..Len(X) : SubSeq(inBuff, 2 + 1, 2 + Len(X))[i] = inBuff[2 + i]
      BY <1>7, <3>1, SubSeqOf
    <3> HIDE DEF s
    <3>5. QED
      BY <3>2, <3>3, <3>4, <3>6
  <2>2. ASSUME NEW i \in 1..Len(X)
        PROVE  s[i] = X[i]
    <3>1. 2 + i \in 1..L
      BY <2>0
    <3>2. inBuff[2 + i] = head[2 + i]
      BY <1>7, <3>1
    <3> HIDE DEF s
    <3>3. QED
      BY <1>9, <2>1, <3>2
  <2> HIDE DEF s
  <2>3. s = X
    BY <1>2, <2>1, <2>2
  <2>4. QED
    BY <2>3 DEF s
<1>11. Len(inBuff) >= 1 => inBuff[1] = FirstByte(m)
  <2>1. Len(inBuff) >= 1 => 1 \in 1..L
    BY <1>l, <1>7
  <2>2. QED
    BY <1>7, <1>8, <2>1
<1>12. Len(inBuff) >= 2 => inBuff[2] = SecondByte(m)
  <2>1. Len(inBuff) >= 2 => 2 \in 1..L
    BY <1>l, <1>7
  <2>2. QED
    BY <1>7, <1>8, <2>1
<1>13. QED
  BY <1>7, <1>10, <1>11, <1>12 DEF L, H, X

FullRead(m) ==
  [read |-> HeadLength(m) + m.length,
   message |-> [m EXCEPT !.payload = IF m.isMasked THEN mask(@) ELSE @]]

LEMMA ReadOf ==
  ASSUME NEW m, IsMessage(m), NEW n \in Nat
  PROVE  readMessage(writeMessage(m), m.payload, n)
           = IF n < HeadLength(m) + m.length THEN NoMessage ELSE FullRead(m)
<1> DEFINE head == writeMessage(m)
           inBuff == SubSeq(head, 1, Min({n, Len(head)}))
           first == Take(inBuff, 1, 1)
           second == Take(inBuff, first.p, 1)
           isMasked == second.v[1] >= 128
           short == second.v[1] % 128
           x == CASE short = 126 -> 2 [] short = 127 -> 8 [] OTHER -> 0
           more == Take(inBuff, second.p, x)
           length == IF short < 126 THEN short ELSE FromBig(more.v)
           k == IF isMasked THEN 4 ELSE 0
           key == Take(inBuff, more.p, k)
           end == key.p - 1 + length
           message == Message(first.v[1] >= 128, first.v[1] % 16, isMasked, length,
                                IF isMasked THEN mask(m.payload) ELSE m.payload)
           X == Len(Extension(m))
           K == Len(KeyOf(m))
           H == HeadLength(m)
<1>1. readMessage(head, m.payload, n) =
        IF second.p = 0 \/ key.p = 0 \/ end > n THEN NoMessage ELSE [read |-> end, message |-> message]
  BY DEF readMessage
<1>2. /\ inBuff \in Seq(Byte) /\ Len(inBuff) = IF n <= H THEN n ELSE H
      /\ Len(inBuff) >= 1 => inBuff[1] = FirstByte(m)
      /\ Len(inBuff) >= 2 => inBuff[2] = SecondByte(m)
      /\ Len(inBuff) >= 2 + X => SubSeq(inBuff, 3, 2 + X) = Extension(m)
  BY BuffOf
<1>3. X \in Nat /\ K \in Nat /\ H = 2 + X + K /\ m.length \in Nat
  BY Parts DEF HeadLength
<1>4. n < H => n < H + m.length
  BY <1>3
<1> HIDE DEF inBuff, head, H, X, K
<1>b. Len(inBuff) \in Nat
  BY <1>2
<1>5. CASE n = 0
  <2>1. first.p = 0
    <3>1. 1 + 1 - 1 > Len(inBuff)
      BY <1>2, <1>3, <1>5
    <3>2. QED
      BY <1>b, <3>1, TakeTooMuch
  <2> HIDE DEF first
  <2>2. second.p = 0
    BY <2>1, TakeNothing
  <2>3. n < H
    BY <1>3, <1>5
  <2> HIDE DEF second
  <2>4. QED
    BY <1>1, <1>4, <2>2, <2>3 DEF head, H
<1>6. ASSUME n >= 1
      PROVE  first.v[1] = FirstByte(m) /\ first.p = 2
  <2>1. Len(inBuff) >= 1
    BY <1>2, <1>3, <1>6
  <2>2. first.v = SubSeq(inBuff, 1, 1) /\ first.p = 2
    <3>1. 1 + 1 - 1 = 1 /\ 1 + 1 = 2
      OBVIOUS
    <3>2. first.v = SubSeq(inBuff, 1, 1 + 1 - 1) /\ first.p = 1 + 1
      BY <1>b, <2>1, <3>1, TakeAll
    <3> HIDE DEF first
    <3>3. QED
      BY <3>1, <3>2
  <2> HIDE DEF first
  <2>3. SubSeq(inBuff, 1, 1)[1] = inBuff[1]
    BY <1>2, <2>1
  <2>4. QED
    BY <1>2, <2>1, <2>2, <2>3
<1>7. CASE n = 1
  <2>1. first.p = 2
    BY <1>6, <1>7
  <2> HIDE DEF first
  <2>2. second.p = 0
    <3>1. 2 + 1 - 1 > Len(inBuff)
      BY <1>2, <1>3, <1>7
    <3>2. QED
      BY <1>b, <2>1, <3>1, TakeTooMuch
  <2>3. n < H
    BY <1>3, <1>7
  <2> HIDE DEF second
  <2>4. QED
    BY <1>1, <1>4, <2>2, <2>3 DEF head, H
<1>8. CASE n >= 2
  <2>1. Len(inBuff) >= 2 /\ first.v[1] = FirstByte(m) /\ first.p = 2
    BY <1>2, <1>3, <1>6, <1>8
  <2> HIDE DEF first
  <2>2. second.v = SubSeq(inBuff, 2, 2) /\ second.p = 3
    <3>1. 2 + 1 - 1 = 2 /\ 2 + 1 = 3
      OBVIOUS
    <3>2. second = Take(inBuff, 2, 1)
      BY <2>1
    <3> HIDE DEF second
    <3>3. 2 \in Nat \ {0} /\ 1 \in Nat /\ 2 + 1 - 1 <= Len(inBuff)
      BY <1>b, <2>1
    <3>4. Take(inBuff, 2, 1).v = SubSeq(inBuff, 2, 2 + 1 - 1) /\ Take(inBuff, 2, 1).p = 2 + 1
      BY <1>b, <3>3, TakeAll
    <3>5. QED
      BY <3>1, <3>2, <3>4
  <2> HIDE DEF second
  <2>3. SubSeq(inBuff, 2, 2)[1] = inBuff[2]
    BY <1>2, <2>1
  <2>4. second.v[1] = SecondByte(m) /\ second.p = 3
    BY <1>2, <2>1, <2>2, <2>3
  <2>5. isMasked = m.isMasked
    BY <2>4, Parts
  <2>s. short = Short(m)
    BY <2>4, Parts
  <2> HIDE DEF isMasked, short
  <2>6. k = K
    BY <2>5, Parts DEF K
  <2>x. x = X
    <3>1. x = IF Short(m) = 126 THEN 2 ELSE IF Short(m) = 127 THEN 8 ELSE 0
      BY <2>s
    <3> HIDE DEF x
    <3>2. QED
      BY <3>1, Parts DEF X
  <2> HIDE DEF x, k
  <2>7. CASE n < 2 + X
    <3>1. 3 + X - 1 > Len(inBuff)
      BY <1>2, <1>3, <2>7
    <3>2. more.p = 0
      BY <1>3, <1>b, <2>4, <2>x, <3>1, TakeTooMuch
    <3> HIDE DEF more
    <3>3. key.p = 0
      BY <3>2, TakeNothing
    <3>4. n < H
      BY <1>3, <2>7
    <3> HIDE DEF key
    <3>5. QED
      BY <1>1, <1>4, <3>3, <3>4 DEF head, H
  <2>8. CASE n >= 2 + X
    <3>1. Len(inBuff) >= 2 + X
      BY <1>2, <1>3, <2>8
    <3>2. more.v = SubSeq(inBuff, 3, 2 + X) /\ more.p = 3 + X
      <4>1. 2 + X = 3 + X - 1
        BY <1>3
      <4>2. 2 + X <= Len(inBuff)
        BY <1>2, <1>3, <3>1
      <4>3. more = Take(inBuff, 3, X)
        BY <2>4, <2>x
      <4> HIDE DEF more
      <4>4. more.v = SubSeq(inBuff, 3, 3 + X - 1) /\ more.p = 3 + X
        BY <1>3, <1>b, <4>1, <4>2, <4>3, TakeAll
      <4>5. QED
        BY <4>1, <4>4
    <3>3. more.p = 3 + X
      BY <3>2
    <3>4. more.v = Extension(m)
      BY <1>2, <3>1, <3>2
    <3> HIDE DEF more
    <3>5. length = m.length
      BY <2>s, <3>4, Parts
    <3>k. key = Take(inBuff, 3 + X, K)
      BY <2>6, <3>3
    <3> HIDE DEF key, length
    <3>6. CASE n < H
      <4>1. 3 + X + K - 1 > Len(inBuff)
        BY <1>2, <1>3, <3>6
      <4>2. 3 + X \in Nat \ {0}
        BY <1>3
      <4>3. key.p = 0
        BY <1>3, <1>b, <3>k, <4>1, <4>2, TakeTooMuch
      <4>4. QED
        BY <1>1, <1>4, <3>6, <4>3 DEF head, H
    <3>7. CASE n >= H
      <4>1. Len(inBuff) = 2 + X + K
        BY <1>2, <1>3, <3>7
      <4>3. key.p = 3 + X + K
        <5>1. 2 + X + K = 3 + X + K - 1 /\ 2 + X + K <= Len(inBuff)
          BY <1>3, <4>1
        <5>2. 3 + X \in Nat \ {0}
          BY <1>3
        <5>3. QED
          BY <1>3, <1>b, <3>k, <5>1, <5>2, TakeAll
      <4>4. end = H + m.length /\ key.p # 0
        BY <1>3, <3>5, <4>3
      <4>5. second.p # 0
        BY <2>4
      <4>6. message = [m EXCEPT !.payload = IF m.isMasked THEN mask(@) ELSE @]
        <5>1. message = [isFin |-> m.isFin, opcode |-> m.opcode, isMasked |-> m.isMasked,
                         length |-> m.length,
                         payload |-> IF m.isMasked THEN mask(m.payload) ELSE m.payload]
          BY <2>1, <2>5, <3>5, Parts DEF Message
        <5>2. m \in [isFin : BOOLEAN, opcode : Opcodes, isMasked : BOOLEAN, length : Nat,
                     payload : {"clear", "masked"}]
          BY DEF IsMessage
        <5>3. QED
          BY <5>1, <5>2
      <4> HIDE DEF message, end
      <4>7. [read |-> end, message |-> message] = FullRead(m)
        BY <4>4, <4>6 DEF FullRead, H
      <4>8. CASE n < H + m.length
        BY <1>1, <4>4, <4>8 DEF head, H
      <4>9. CASE ~ (n < H + m.length)
        <5>1. ~ (end > n)
          BY <1>3, <4>4, <4>9
        <5>2. QED
          BY <1>1, <4>4, <4>5, <4>7, <4>9, <5>1 DEF head, H
      <4>10. QED
        BY <4>8, <4>9
    <3>8. QED
      BY <1>3, <3>6, <3>7
  <2>9. QED
    BY <1>3, <2>7, <2>8
<1>9. QED
  BY <1>5, <1>7, <1>8

(* What a step of a frame's writer or reader leaves behind. *)
FrameInv ==
  subject.kind = "frame" =>
    /\ IsMessage(subject.data) /\ arrived \in Nat
    /\ at \in {"write", "transfer", "read", "end"}
    /\ at # "write" => wire = writeMessage(subject.data)
    /\ at = "end" => back = readMessage(wire, subject.data.payload, arrived)

LEMMA FrameInvInit ==
  ASSUME FormatsInit
  PROVE  FrameInv
<1>1. \A h : Stored(h).kind = "bon"
  BY DEF Stored
<1>2. \A m : Sent(m).kind = "frame" /\ Sent(m).data = m
  BY DEF Sent
<1>3. QED
  BY <1>1, <1>2, InputsAssumption DEF FormatsInit, FrameInv

LEMMA SizeOfFrame ==
  ASSUME subject.kind = "frame", IsMessage(subject.data), wire = writeMessage(subject.data)
  PROVE  /\ Total = HeadLength(subject.data) + subject.data.length
         /\ Len(wire) = HeadLength(subject.data) /\ HeadLength(subject.data) \in Nat
         /\ HeadLength(subject.data) >= 2 /\ subject.data.length \in Nat
<1>1. Len(wire) = HeadLength(subject.data)
  BY HeadOf
<1>2. Total = HeadLength(subject.data) + subject.data.length
  BY <1>1 DEF Total
<1>3. Len(Extension(subject.data)) \in Nat /\ Len(KeyOf(subject.data)) \in Nat /\ subject.data.length \in Nat
  BY Parts
<1>4. QED
  BY <1>1, <1>2, <1>3 DEF HeadLength

LEMMA FrameInvStep ==
  ASSUME FrameInv, FormatsNext \/ UNCHANGED formatsVars
  PROVE  FrameInv'
<1> SUFFICES ASSUME subject'.kind = "frame"
             PROVE  /\ IsMessage(subject'.data) /\ arrived' \in Nat
                    /\ at' \in {"write", "transfer", "read", "end"}
                    /\ at' # "write" => wire' = writeMessage(subject'.data)
                    /\ at' = "end" => back' = readMessage(wire', subject'.data.payload, arrived')
  BY DEF FrameInv
<1>1. subject' = subject
  BY DEF FormatsNext, Dump, WriteFrame, Transfer, Load, ReadFrame, formatsVars
<1>2. /\ subject.kind = "frame" /\ IsMessage(subject.data) /\ arrived \in Nat
      /\ at \in {"write", "transfer", "read", "end"}
      /\ at # "write" => wire = writeMessage(subject.data)
      /\ at = "end" => back = readMessage(wire, subject.data.payload, arrived)
  BY <1>1 DEF FrameInv
<1>3. CASE Dump
  BY <1>2, <1>3 DEF Dump
<1>4. CASE WriteFrame
  BY <1>1, <1>2, <1>4 DEF WriteFrame, Step
<1>5. CASE Transfer
  <2>1. at = "transfer" /\ at' = "read" /\ wire' = wire /\ wire = writeMessage(subject.data)
    BY <1>2, <1>5 DEF Transfer, Step
  <2>2. arrived' \in 0..Len(wire) \cup {Total - 1, Total} \cup {Total + Behind}
    BY <1>2, <1>5 DEF Transfer
  <2>3. Behind \in Nat
    BY InputsAssumption
  <2>4. Total \in Nat \ {0}
    BY <1>2, <2>1, SizeOfFrame
  <2>5. arrived' \in Nat
    BY <2>2, <2>3, <2>4
  <2>6. QED
    BY <1>1, <1>2, <2>1, <2>5
<1>6. CASE Load
  BY <1>2, <1>6 DEF Load
<1>7. CASE ReadFrame
  BY <1>1, <1>2, <1>7 DEF ReadFrame, Step
<1>8. CASE UNCHANGED formatsVars
  BY <1>1, <1>2, <1>8 DEF formatsVars
<1>9. QED
  BY <1>3, <1>4, <1>5, <1>6, <1>7, <1>8 DEF FormatsNext

LEMMA FrameInvAlways == FormatsSpec => []FrameInv
<1>1. FormatsInit => FrameInv
  BY FrameInvInit
<1>2. FrameInv /\ [FormatsNext]_formatsVars => FrameInv'
  BY FrameInvStep
<1>3. QED
  BY <1>1, <1>2, PTL DEF FormatsSpec

(* A frame of which all has arrived is read as it was sent, and the frame *)
(* behind it is left where it begins.                                     *)
THEOREM FrameReadsBackHolds == FormatsSpec => []FrameReadsBack
<1>1. ASSUME FrameInv
      PROVE  FrameReadsBack
  <2> SUFFICES ASSUME at = "end", subject.kind = "frame", arrived >= Total
               PROVE  back = [read |-> Total,
                              message |-> [subject.data EXCEPT !.payload =
                                             IF subject.data.isMasked THEN mask(@) ELSE @]]
    BY DEF FrameReadsBack, Done
  <2>1. /\ IsMessage(subject.data) /\ arrived \in Nat /\ wire = writeMessage(subject.data)
        /\ back = readMessage(wire, subject.data.payload, arrived)
    BY <1>1 DEF FrameInv
  <2>2. Total = HeadLength(subject.data) + subject.data.length
        /\ ~ (arrived < HeadLength(subject.data) + subject.data.length)
    BY <2>1, SizeOfFrame
  <2>3. back = FullRead(subject.data)
    BY <2>1, <2>2, ReadOf
  <2>4. QED
    BY <2>2, <2>3 DEF FullRead
<1>2. QED
  BY <1>1, FrameInvAlways, PTL

-----------------------------------------------------------------------------
(* Integers and their signs. *)
Powers(a) == {b \in 0..30 : 2 ^ b <= a}

LEMMA HowManyPowers ==
  ASSUME NEW T, T \in SUBSET (0..30), NEW j \in 0..30
  PROVE  /\ Cardinality(T) \in Nat
         /\ 0..j - 1 \subseteq T => Cardinality(T) >= j
         /\ T \subseteq 0..j - 1 => Cardinality(T) <= j
<1>1. IsFiniteSet(0..30) /\ IsFiniteSet(0..j - 1) /\ Cardinality(0..j - 1) = j
  <2>0. 0 \in Int /\ 30 \in Int /\ j - 1 \in Int
    OBVIOUS
  <2>1. IsFiniteSet(0..30)
    BY <2>0, FS_Interval
  <2>2. IsFiniteSet(0..j - 1)
    BY FS_Interval
  <2>3. Cardinality(0..j - 1) = IF 0 > j - 1 THEN 0 ELSE j - 1 - 0 + 1
    BY FS_Interval
  <2>4. (IF 0 > j - 1 THEN 0 ELSE j - 1 - 0 + 1) = j
    OBVIOUS
  <2>5. QED
    BY <2>1, <2>2, <2>3, <2>4
<1>2. IsFiniteSet(T)
  BY <1>1, FS_Subset
<1>3. Cardinality(T) \in Nat
  BY <1>2, FS_CardinalityType
<1>4. 0..j - 1 \subseteq T => Cardinality(0..j - 1) <= Cardinality(T)
  BY <1>2, FS_Subset
<1>5. T \subseteq 0..j - 1 => Cardinality(T) <= Cardinality(0..j - 1)
  BY <1>1, FS_Subset
<1>6. QED
  BY <1>1, <1>3, <1>4, <1>5

Power(b, p) ==
  /\ p \in Nat
  /\ b >= 0 => p >= 1
  /\ b <= 0 => p <= 1
  /\ b >= 7 => p >= 128
  /\ b <= 7 => p <= 128
  /\ b >= 8 => p >= 256
  /\ b <= 8 => p <= 256
  /\ b >= 15 => p >= 32768
  /\ b <= 15 => p <= 32768
  /\ b >= 16 => p >= 65536
  /\ b <= 16 => p <= 65536
  /\ b >= 23 => p >= 8388608
  /\ b <= 23 => p <= 8388608
  /\ b >= 24 => p >= 16777216
  /\ b <= 24 => p <= 16777216

LEMMA EachPower == \A b \in 0..30 : Power(b, 2 ^ b)
<1>1. Power(0, 2 ^ 0)
  BY SMT DEF Power
<1>2. Power(1, 2 ^ 1)
  BY SMT DEF Power
<1>3. Power(2, 2 ^ 2)
  BY SMT DEF Power
<1>4. Power(3, 2 ^ 3)
  BY SMT DEF Power
<1>5. Power(4, 2 ^ 4)
  BY SMT DEF Power
<1>6. Power(5, 2 ^ 5)
  BY SMT DEF Power
<1>7. Power(6, 2 ^ 6)
  BY SMT DEF Power
<1>8. Power(7, 2 ^ 7)
  BY SMT DEF Power
<1>9. Power(8, 2 ^ 8)
  BY SMT DEF Power
<1>10. Power(9, 2 ^ 9)
  BY SMT DEF Power
<1>11. Power(10, 2 ^ 10)
  BY SMT DEF Power
<1>12. Power(11, 2 ^ 11)
  BY SMT DEF Power
<1>13. Power(12, 2 ^ 12)
  BY SMT DEF Power
<1>14. Power(13, 2 ^ 13)
  BY SMT DEF Power
<1>15. Power(14, 2 ^ 14)
  BY SMT DEF Power
<1>16. Power(15, 2 ^ 15)
  BY SMT DEF Power
<1>17. Power(16, 2 ^ 16)
  BY SMT DEF Power
<1>18. Power(17, 2 ^ 17)
  BY SMT DEF Power
<1>19. Power(18, 2 ^ 18)
  BY SMT DEF Power
<1>20. Power(19, 2 ^ 19)
  BY SMT DEF Power
<1>21. Power(20, 2 ^ 20)
  BY SMT DEF Power
<1>22. Power(21, 2 ^ 21)
  BY SMT DEF Power
<1>23. Power(22, 2 ^ 22)
  BY SMT DEF Power
<1>24. Power(23, 2 ^ 23)
  BY SMT DEF Power
<1>25. Power(24, 2 ^ 24)
  BY SMT DEF Power
<1>26. Power(25, 2 ^ 25)
  BY SMT DEF Power
<1>27. Power(26, 2 ^ 26)
  BY SMT DEF Power
<1>28. Power(27, 2 ^ 27)
  BY SMT DEF Power
<1>29. Power(28, 2 ^ 28)
  BY SMT DEF Power
<1>30. Power(29, 2 ^ 29)
  BY SMT DEF Power
<1>31. Power(30, 2 ^ 30)
  BY SMT DEF Power
<1>32. ASSUME NEW b \in 0..30
       PROVE  \/ b = 0 \/ b = 1 \/ b = 2 \/ b = 3 \/ b = 4 \/ b = 5 \/ b = 6 \/ b = 7
              \/ b = 8 \/ b = 9 \/ b = 10 \/ b = 11 \/ b = 12 \/ b = 13 \/ b = 14 \/ b = 15
              \/ b = 16 \/ b = 17 \/ b = 18 \/ b = 19 \/ b = 20 \/ b = 21 \/ b = 22 \/ b = 23
              \/ b = 24 \/ b = 25 \/ b = 26 \/ b = 27 \/ b = 28 \/ b = 29 \/ b = 30
  BY SMT
<1>33. QED
  BY <1>32, <1>1, <1>2, <1>3, <1>4, <1>5, <1>6, <1>7, <1>8, <1>9, <1>10, <1>11, <1>12,
     <1>13, <1>14, <1>15, <1>16, <1>17, <1>18, <1>19, <1>20, <1>21, <1>22, <1>23, <1>24,
     <1>25, <1>26, <1>27, <1>28, <1>29, <1>30, <1>31, Zenon

LEMMA PowersBetween ==
  ASSUME NEW a \in Nat, a < 2 ^ 24
  PROVE  /\ Powers(a) \in SUBSET (0..30) /\ Powers(a) \subseteq 0..24 - 1
         /\ a < 1 => Powers(a) \subseteq 0..0 - 1
         /\ a >= 1 => 0..1 - 1 \subseteq Powers(a)
         /\ a < 128 => Powers(a) \subseteq 0..7 - 1
         /\ a >= 128 => 0..8 - 1 \subseteq Powers(a)
         /\ a < 256 => Powers(a) \subseteq 0..8 - 1
         /\ a >= 256 => 0..9 - 1 \subseteq Powers(a)
         /\ a < 32768 => Powers(a) \subseteq 0..15 - 1
         /\ a >= 32768 => 0..16 - 1 \subseteq Powers(a)
         /\ a < 65536 => Powers(a) \subseteq 0..16 - 1
         /\ a >= 65536 => 0..17 - 1 \subseteq Powers(a)
         /\ a < 8388608 => Powers(a) \subseteq 0..23 - 1
         /\ a >= 8388608 => 0..24 - 1 \subseteq Powers(a)
<1>1. /\ \A b \in Powers(a) : b \in 0..30 /\ 2 ^ b <= a /\ Power(b, 2 ^ b)
      /\ \A b \in 0..30 : 2 ^ b <= a => b \in Powers(a)
  BY EachPower DEF Powers
<1>0. a <= 16777215
  BY SMT
<1>2. ASSUME NEW b \in Powers(a)
      PROVE  /\ b \in 0..24 - 1
             /\ a < 1 => b \in 0..0 - 1
             /\ a < 128 => b \in 0..7 - 1
             /\ a < 256 => b \in 0..8 - 1
             /\ a < 32768 => b \in 0..15 - 1
             /\ a < 65536 => b \in 0..16 - 1
             /\ a < 8388608 => b \in 0..23 - 1
  <2> DEFINE p == 2 ^ b
  <2>1. b \in 0..30 /\ p <= a /\ Power(b, p)
    BY <1>1
  <2> HIDE DEF p
  <2>2. QED
    BY <1>0, <2>1, SMT DEF Power
<1>3. ASSUME NEW b \in 0..30
      PROVE  /\ a >= 1 /\ b \in 0..1 - 1 => b \in Powers(a)
             /\ a >= 128 /\ b \in 0..8 - 1 => b \in Powers(a)
             /\ a >= 256 /\ b \in 0..9 - 1 => b \in Powers(a)
             /\ a >= 32768 /\ b \in 0..16 - 1 => b \in Powers(a)
             /\ a >= 65536 /\ b \in 0..17 - 1 => b \in Powers(a)
             /\ a >= 8388608 /\ b \in 0..24 - 1 => b \in Powers(a)
  <2> DEFINE p == 2 ^ b
  <2>1. Power(b, p) /\ (p <= a => b \in Powers(a))
    BY <1>1, EachPower
  <2> HIDE DEF p
  <2>2. QED
    BY <2>1, SMT DEF Power
<1>4. \A j \in 0..31 : 0..j - 1 \subseteq 0..30
  BY SMT
<1>5. QED
  BY <1>1, <1>2, <1>3, <1>4

LEMMA BitLengths ==
  ASSUME NEW n \in Int, Abs(n) < 2 ^ 24
  PROVE  /\ bit_length(n) \in Nat
         /\ Abs(n) < 1 => bit_length(n) = 0
         /\ Abs(n) >= 1 /\ Abs(n) < 128 => 1 <= bit_length(n) /\ bit_length(n) <= 7
         /\ Abs(n) >= 128 /\ Abs(n) < 256 => bit_length(n) = 8
         /\ Abs(n) >= 256 /\ Abs(n) < 32768 => 9 <= bit_length(n) /\ bit_length(n) <= 15
         /\ Abs(n) >= 32768 /\ Abs(n) < 65536 => bit_length(n) = 16
         /\ Abs(n) >= 65536 /\ Abs(n) < 8388608 => 17 <= bit_length(n) /\ bit_length(n) <= 23
         /\ Abs(n) >= 8388608 => bit_length(n) = 24
<1> DEFINE a == Abs(n)
           k == bit_length(n)
<1>1. a \in Nat
  BY DEF Abs
<1>2. k = Cardinality(Powers(a))
  BY DEF bit_length, Powers
<1> DEFINE T == Powers(a)
<1>3. /\ T \in SUBSET (0..30) /\ T \subseteq 0..24 - 1
      /\ a < 1 => T \subseteq 0..0 - 1
      /\ a >= 1 => 0..1 - 1 \subseteq T
      /\ a < 128 => T \subseteq 0..7 - 1
      /\ a >= 128 => 0..8 - 1 \subseteq T
      /\ a < 256 => T \subseteq 0..8 - 1
      /\ a >= 256 => 0..9 - 1 \subseteq T
      /\ a < 32768 => T \subseteq 0..15 - 1
      /\ a >= 32768 => 0..16 - 1 \subseteq T
      /\ a < 65536 => T \subseteq 0..16 - 1
      /\ a >= 65536 => 0..17 - 1 \subseteq T
      /\ a < 8388608 => T \subseteq 0..23 - 1
      /\ a >= 8388608 => 0..24 - 1 \subseteq T
  BY <1>1, PowersBetween
<1> HIDE DEF a, k, T
<1>4. k \in Nat
  BY <1>2, <1>3, HowManyPowers DEF T
<1>5. T \subseteq 0..0 - 1 => k <= 0
  BY <1>2, <1>3, HowManyPowers DEF T
<1>6. T \subseteq 0..7 - 1 => k <= 7
  BY <1>2, <1>3, HowManyPowers DEF T
<1>7. T \subseteq 0..8 - 1 => k <= 8
  BY <1>2, <1>3, HowManyPowers DEF T
<1>8. T \subseteq 0..15 - 1 => k <= 15
  BY <1>2, <1>3, HowManyPowers DEF T
<1>9. T \subseteq 0..16 - 1 => k <= 16
  BY <1>2, <1>3, HowManyPowers DEF T
<1>10. T \subseteq 0..23 - 1 => k <= 23
  BY <1>2, <1>3, HowManyPowers DEF T
<1>11. T \subseteq 0..24 - 1 => k <= 24
  BY <1>2, <1>3, HowManyPowers DEF T
<1>12. 0..1 - 1 \subseteq T => k >= 1
  BY <1>2, <1>3, HowManyPowers DEF T
<1>13. 0..8 - 1 \subseteq T => k >= 8
  BY <1>2, <1>3, HowManyPowers DEF T
<1>14. 0..9 - 1 \subseteq T => k >= 9
  BY <1>2, <1>3, HowManyPowers DEF T
<1>15. 0..16 - 1 \subseteq T => k >= 16
  BY <1>2, <1>3, HowManyPowers DEF T
<1>16. 0..17 - 1 \subseteq T => k >= 17
  BY <1>2, <1>3, HowManyPowers DEF T
<1>17. 0..24 - 1 \subseteq T => k >= 24
  BY <1>2, <1>3, HowManyPowers DEF T
<1>18. QED
  BY <1>1, <1>3, <1>4, <1>5, <1>6, <1>7, <1>8, <1>9, <1>10, <1>11, <1>12, <1>13, <1>14, <1>15, <1>16, <1>17, SMT DEF a, k

(* An integer is not encoded if its magnitude fills its bytes. *)
LEMMA SignNeedsRoom ==
  ASSUME NEW n \in Int, Abs(n) < 2 ^ 24
  PROVE  ~ Fits(n, num_bytes(n)) <=> NoRoomForSign(n)
<1> DEFINE a == Abs(n)
           k == bit_length(n)
           s == num_bytes(n)
           top == 2 ^ (8 * s - 1)
<1>1. a \in Nat /\ (a = 0 <=> n = 0) /\ (n = a \/ n = -a)
  BY DEF Abs
<1>2. s = (k + 7) \div 8
  BY DEF num_bytes
<1>3. /\ k \in Nat
      /\ a >= 1 /\ a < 128 => 1 <= k /\ k <= 7
      /\ a >= 128 /\ a < 256 => k = 8
      /\ a >= 256 /\ a < 32768 => 9 <= k /\ k <= 15
      /\ a >= 32768 /\ a < 65536 => k = 16
      /\ a >= 65536 /\ a < 8388608 => 17 <= k /\ k <= 23
      /\ a >= 8388608 => k = 24
  BY BitLengths
<1>4. NoRoomForSign(n) <=> n # 0 /\ k % 8 = 0 /\ n # -128 /\ n # -32768 /\ n # -8388608
  <2>1. NoRoomForSign(n) <=> n # 0 /\ k % 8 = 0 /\ n \notin {-(2 ^ 7), -(2 ^ 15), -(2 ^ 23)}
    BY DEF NoRoomForSign
  <2>2. 2 ^ 7 = 128 /\ 2 ^ 15 = 32768 /\ 2 ^ 23 = 8388608
    BY SMT
  <2>3. QED
    BY <2>1, <2>2
<1>5. Fits(n, s) <=> n = 0 \/ (s > 0 /\ n \in -top..(top - 1))
  BY DEF Fits
<1> DEFINE NoRoom == NoRoomForSign(n)
           HasRoom == Fits(n, s)
<1> HIDE DEF a, k, s, NoRoom, HasRoom
<1>6. s = 1 => top = 128
  BY SMT
<1>7. s = 2 => top = 32768
  BY SMT
<1>8. s = 3 => top = 8388608
  BY SMT
<1> HIDE DEF top
<1>9. n = 0 => HasRoom /\ ~ NoRoom
  BY <1>4, <1>5 DEF HasRoom, NoRoom
<1>10. a >= 1 /\ a < 256 => (~ HasRoom <=> NoRoom)
  <2>1. a >= 1 /\ a < 256 => s = 1 /\ (k % 8 = 0 <=> a >= 128)
    BY <1>1, <1>2, <1>3, SMT
  <2>2. QED
    BY <1>1, <1>4, <1>5, <1>6, <2>1, SMT DEF HasRoom, NoRoom
<1>11. a >= 256 /\ a < 65536 => (~ HasRoom <=> NoRoom)
  <2>1. a >= 256 /\ a < 65536 => s = 2 /\ (k % 8 = 0 <=> a >= 32768)
    BY <1>1, <1>2, <1>3, SMT
  <2>2. QED
    BY <1>1, <1>4, <1>5, <1>7, <2>1, SMT DEF HasRoom, NoRoom
<1>12. a >= 65536 => (~ HasRoom <=> NoRoom)
  <2>1. a >= 65536 => s = 3 /\ (k % 8 = 0 <=> a >= 8388608)
    BY <1>1, <1>2, <1>3, SMT
  <2>2. a < 16777216
    BY SMT DEF a
  <2>3. QED
    BY <1>1, <1>4, <1>5, <1>8, <2>1, <2>2, SMT DEF HasRoom, NoRoom
<1>13. ~ HasRoom <=> NoRoom
  BY <1>1, <1>9, <1>10, <1>11, <1>12, SMT
<1>14. QED
  BY <1>13 DEF HasRoom, NoRoom, s

-----------------------------------------------------------------------------
(* The pool *)

ItemsOf(h) == {v \in [t : ItemKinds, v : Seq(Int)] : IsItem(h, v)}

LEMMA HeapTypes ==
  ASSUME NEW h, IsHeap(h)
  PROVE  /\ Len(h) \in Nat /\ DOMAIN h = 1..Len(h) /\ 1 \in DOMAIN h
         /\ \A i \in DOMAIN h : h[i].items \in Seq(ItemsOf(h))
         /\ \A i \in DOMAIN h : h[i].keys \in Seq(Seq(Characters)) /\ h[i].t \in {"dict", "list"}
         /\ \A i \in DOMAIN h : h[i].t = "dict" => Len(h[i].keys) = Len(h[i].items)
<1> DEFINE N == [t : {"list", "dict"}, keys : Seq(Seq(Characters)), items : Seq([t : ItemKinds, v : Seq(Int)])]
<1>1. h \in Seq(N) /\ h # <<>>
  BY DEF IsHeap
<1>2. \A k \in DOMAIN h : /\ h[k].t = "dict" => Len(h[k].keys) = Len(h[k].items)
                         /\ \A j \in DOMAIN h[k].items : IsItem(h, h[k].items[j])
  BY DEF IsHeap
<1>7. \A k \in DOMAIN h : h[k] \in N
  <2> HIDE DEF N
  <2>1. QED
    BY <1>1
<1>3. ASSUME NEW k \in DOMAIN h
      PROVE  h[k].items \in Seq(ItemsOf(h))
  <2>1. h[k].items \in Seq([t : ItemKinds, v : Seq(Int)])
    BY <1>7
  <2> DEFINE s == h[k].items
  <2>2. \A j \in DOMAIN s : IsItem(h, s[j])
    BY <1>2, <1>3
  <2> HIDE DEF s
  <2>3. s \in Seq([t : ItemKinds, v : Seq(Int)])
    BY <2>1 DEF s
  <2>4. ASSUME NEW j \in 1..Len(s)
        PROVE  s[j] \in ItemsOf(h)
    <3>1. j \in DOMAIN s /\ s[j] \in [t : ItemKinds, v : Seq(Int)]
      <4> DEFINE R == [t : ItemKinds, v : Seq(Int)]
      <4> HIDE DEF R
      <4>1. s \in Seq(R)
        BY <2>3 DEF R
      <4>2. s[j] \in R /\ j \in DOMAIN s
        BY <4>1
      <4>3. QED
        BY <4>2 DEF R
    <3>2. IsItem(h, s[j])
      BY <2>2, <3>1
    <3>3. QED
      BY <3>1, <3>2, Zenon DEF ItemsOf
  <2>5. s \in Seq(ItemsOf(h))
    BY <2>3, <2>4
  <2>6. QED
    BY <2>5 DEF s
<1>4. Len(h) \in Nat /\ DOMAIN h = 1..Len(h) /\ Len(h) # 0
  BY <1>1
<1>5. \A k \in DOMAIN h : h[k].keys \in Seq(Seq(Characters)) /\ h[k].t \in {"dict", "list"}
  <2>1. \A n \in N : n.keys \in Seq(Seq(Characters)) /\ n.t \in {"dict", "list"}
    OBVIOUS
  <2> HIDE DEF N
  <2>2. QED
    BY <1>7, <2>1
<1>6. QED
  BY <1>2, <1>3, <1>4, <1>5

(* What is looked at on the way to the pool. *)
Looks(h) ==
  {s \in [pool : Seq(Nat), todo : Seq(ItemsOf(h))] :
     (s.pool = Endless /\ s.todo = <<>>) \/ s.pool \in Seq(DOMAIN h)}

LEMMA LooksWith ==
  ASSUME NEW h, NEW p \in Seq(Nat), p \in Seq(DOMAIN h), NEW t \in Seq(ItemsOf(h))
  PROVE  [pool |-> p, todo |-> t] \in Looks(h)
BY DEF Looks

LEMMA PooledType ==
  ASSUME NEW h, IsHeap(h), NEW s \in Looks(h)
  PROVE  Pooled(h, s) \in Looks(h)
<1>0. ASSUME NEW i \in DOMAIN h
      PROVE  h[i].items \in Seq(ItemsOf(h))
  BY HeapTypes, Zenon
<1>1. s.pool \in Seq(Nat) /\ s.todo \in Seq(ItemsOf(h)) /\ s = [pool |-> s.pool, todo |-> s.todo]
  BY DEF Looks
<1>2. CASE s.todo = <<>>
  BY <1>2, SMTT(20) DEF Pooled
<1>3. ASSUME s.todo # <<>>
      PROVE  Pooled(h, s) \in Looks(h)
  <2> DEFINE v == Head(s.todo)
             rest == Tail(s.todo)
  <2>1. v \in ItemsOf(h) /\ rest \in Seq(ItemsOf(h))
    BY <1>1, <1>3
  <2>2. s.pool \in Seq(DOMAIN h)
    BY <1>3, SMTT(20) DEF Looks
  <2>3. \/ Pooled(h, s) = [s EXCEPT !.todo = rest]
        \/ Pooled(h, s) = [pool |-> Endless, todo |-> <<>>]
        \/ /\ v.t = "ref"
           /\ Pooled(h, s) = [pool |-> Append(s.pool, v.v[1]), todo |-> h[v.v[1]].items \o rest]
    <3> DEFINE E == s.todo = <<>>
               P == PoolIndex(h, s.pool, v)
    <3>1. Pooled(h, s) =
            CASE E -> s
              [] ~ E /\ (v.t # "ref" \/ P > 0) -> [s EXCEPT !.todo = rest]
              [] ~ E /\ v.t = "ref" /\ P = -1 -> [pool |-> Endless, todo |-> <<>>]
              [] OTHER -> [pool |-> Append(s.pool, v.v[1]), todo |-> h[v.v[1]].items \o rest]
      BY DEF Pooled
    <3>2. ~ E
      BY <1>3
    <3> DEFINE A == [s EXCEPT !.todo = rest]
               B == [pool |-> Endless, todo |-> <<>>]
               C == [pool |-> Append(s.pool, v.v[1]), todo |-> h[v.v[1]].items \o rest]
               isRef == v.t = "ref"
               known == P > 0
               endless == P = -1
    <3> HIDE DEF E, P, A, B, C, v, isRef, known, endless
    <3>3. Pooled(h, s) = CASE E -> s [] ~ E /\ (~ isRef \/ known) -> A
                             [] ~ E /\ isRef /\ endless -> B [] OTHER -> C
      BY <3>1 DEF A, B, C, isRef, known, endless
    <3>4. Pooled(h, s) = A \/ Pooled(h, s) = B \/ (isRef /\ Pooled(h, s) = C)
      BY <3>2, <3>3
    <3>5. QED
      BY <3>4 DEF A, B, C, isRef
  <2> HIDE DEF v, rest
  <2>4. CASE Pooled(h, s) = [s EXCEPT !.todo = rest]
    <3>1. Pooled(h, s) = [pool |-> s.pool, todo |-> rest]
      BY <1>1, <2>4
    <3>2. QED
      BY <1>1, <2>1, <2>2, <3>1 DEF Looks
  <2>5. CASE Pooled(h, s) = [pool |-> Endless, todo |-> <<>>]
    <3>1. Endless \in Seq(Nat)
      BY DEF Endless
    <3>2. QED
      BY <2>5, <3>1 DEF Looks
  <2>6. CASE /\ v.t = "ref"
             /\ Pooled(h, s) = [pool |-> Append(s.pool, v.v[1]), todo |-> h[v.v[1]].items \o rest]
    <3> DEFINE k == v.v[1]
    <3>1. k \in DOMAIN h
      BY <2>1, <2>6 DEF ItemsOf, IsItem
    <3> HIDE DEF k
    <3>7. h[k].items \in Seq(ItemsOf(h))
      BY <1>0, <3>1
    <3>8. DOMAIN h = 1..Len(h) /\ Len(h) \in Nat
      BY HeapTypes
    <3>2. h[k].items \in Seq(ItemsOf(h)) /\ k \in Nat
      BY <3>1, <3>7, <3>8
    <3>3. h[k].items \o rest \in Seq(ItemsOf(h))
      BY <2>1, <3>2
    <3>4. Append(s.pool, k) \in Seq(DOMAIN h) /\ Append(s.pool, k) \in Seq(Nat)
      BY <1>1, <2>2, <3>1, <3>2
    <3>5. Pooled(h, s) = [pool |-> Append(s.pool, k), todo |-> h[k].items \o rest]
      BY <2>6 DEF k
    <3>6. QED
      BY <3>3, <3>4, <3>5, LooksWith
  <2>7. QED
    BY <2>3, <2>4, <2>5, <2>6
<1>4. QED
  BY <1>2, <1>3

LEMMA FlattenType ==
  ASSUME NEW S, NEW seqs \in Seq(Seq(S))
  PROVE  FlattenSeq(seqs) \in Seq(S)
<1> DEFINE n == Len(seqs)
           T == Seq(S)
           g == CHOOSE g : g = [i \in 1..n |-> IF i = 1 THEN seqs[i] ELSE g[i - 1] \o seqs[i]]
           step == [i \in 1..n |-> [r \in T |-> r \o seqs[i]]]
<1>1. n \in Nat /\ \A i \in 1..n : seqs[i] \in T
  <2> HIDE DEF T
  <2>1. seqs \in Seq(T)
    BY DEF T
  <2>2. QED
    BY <2>1
<1>2. step \in [1..n -> [T -> T]] /\ <<>> \in T
  <2> HIDE DEF n
  <2>1. ASSUME NEW i \in 1..n, NEW r \in T
        PROVE  r \o seqs[i] \in T
    BY <1>1, <2>1
  <2>2. QED
    BY <2>1
<1>3. PICK f : Iterates(f, n, T, <<>>, step)
  <2> HIDE DEF step, n, T
  <2>1. QED
    BY <1>1, <1>2, Recursion
<1>4. /\ f \in [0..n -> T] /\ f[0] = <<>>
      /\ \A i \in 1..n : f[i] = f[i - 1] \o seqs[i]
  <2>1. f \in [0..n -> T] /\ f[0] = <<>>
    BY <1>3, Zenon DEF Iterates
  <2>2. ASSUME NEW i \in 1..n
        PROVE  f[i] = f[i - 1] \o seqs[i]
    <3>1. f[i] = step[i][f[i - 1]]
      BY <1>3, Zenon DEF Iterates
    <3>2. i - 1 \in 0..n
      BY <1>1
    <3>3. f[i - 1] \in T
      BY <2>1, <3>2, Zenon
    <3> HIDE DEF T
    <3>4. step[i][f[i - 1]] = f[i - 1] \o seqs[i]
      BY <3>3
    <3>5. QED
      BY <3>1, <3>4
  <2>3. QED
    BY <2>1, <2>2
<1> HIDE DEF n
<1>5. f[1] = seqs[1] \/ n = 0
  <2>1. n # 0 => 1 \in 1..n /\ 1 - 1 = 0
    BY <1>1
  <2>2. n # 0 => f[1] = <<>> \o seqs[1] /\ seqs[1] \in T
    BY <1>1, <1>4, <2>1, Zenon
  <2>3. \A r \in T : <<>> \o r = r
    OBVIOUS
  <2>4. QED
    BY <2>2, <2>3, Zenon
<1>6. CASE n = 0
  <2>1. FlattenSeq(seqs) = seqs
    BY <1>6 DEF n, FlattenSeq
  <2>2. seqs = <<>>
    BY <1>6 DEF n
  <2>3. QED
    BY <1>2, <2>1, <2>2, Zenon
<1>7. CASE n # 0
  <2>1. FlattenSeq(seqs) = g[n]
    BY <1>7 DEF n, FlattenSeq
  <2> DEFINE p == [i \in 1..n |-> f[i]]
  <2>2. p = [i \in 1..n |-> IF i = 1 THEN seqs[i] ELSE p[i - 1] \o seqs[i]]
    <3>1. ASSUME NEW i \in 1..n
          PROVE  p[i] = IF i = 1 THEN seqs[i] ELSE p[i - 1] \o seqs[i]
      <4>1. CASE i = 1
        BY <1>5, <1>7, <4>1
      <4>2. CASE i # 1
        <5>1. i - 1 \in 1..n
          BY <1>1, <4>2
        <5>2. p[i - 1] = f[i - 1] /\ p[i] = f[i]
          BY <5>1
        <5> HIDE DEF p
        <5>3. QED
          BY <1>4, <4>2, <5>2
      <4>3. QED
        BY <4>1, <4>2
    <3>2. QED
      BY <3>1, Zenon
  <2>3. g = [i \in 1..n |-> IF i = 1 THEN seqs[i] ELSE g[i - 1] \o seqs[i]]
    <3> HIDE DEF p
    <3>1. QED
      BY <2>2, Zenon
  <2> HIDE DEF g
  <2>4. \A i \in 1..n : g[i] = IF i = 1 THEN seqs[i] ELSE g[i - 1] \o seqs[i]
    BY <2>3, Zenon
  <2> DEFINE U == {i \in 0..n : i = 0 \/ g[i] \in T}
  <2>5. 0 \in U
    BY <1>1
  <2>6. ASSUME NEW i \in 0..n, i \in U, i < n
        PROVE  i + 1 \in U
    <3>1. i + 1 \in 1..n /\ i + 1 \in 0..n /\ i + 1 - 1 = i
      BY <1>1, <2>6
    <3>2. g[i + 1] = IF i + 1 = 1 THEN seqs[i + 1] ELSE g[i] \o seqs[i + 1]
      BY <2>4, <3>1
    <3>3. seqs[i + 1] \in T
      BY <1>1, <3>1
    <3>4. CASE i = 0
      BY <3>1, <3>2, <3>3, <3>4
    <3>5. CASE i # 0
      <4>0. i + 1 # 1
        BY <1>1, <3>5
      <4>1. g[i + 1] = g[i] \o seqs[i + 1]
        BY <3>2, <4>0, Zenon
      <4>2. g[i] \in T
        BY <2>6, <3>5
      <4>3. g[i + 1] \in T
        BY <3>3, <4>1, <4>2
      <4>4. QED
        BY <3>1, <4>3
    <3>6. QED
      BY <3>4, <3>5
  <2>7. 0..n \subseteq U
    <3> HIDE DEF U
    <3>1. QED
      BY <1>1, <2>5, <2>6, UpTo
  <2>8. n \in U
    BY <1>1, <2>7
  <2>9. QED
    BY <1>7, <2>1, <2>8
<1>8. QED
  BY <1>6, <1>7

(* Every entry of a pool is a container of the heap. *)
LEMMA PoolType ==
  ASSUME NEW h, IsHeap(h)
  PROVE  gen_pool(h) = Endless \/ gen_pool(h) \in Seq(DOMAIN h)
<1> DEFINE parts == [i \in DOMAIN h |-> h[i].items]
           n == 1 + Len(FlattenSeq(parts))
           start == [pool |-> <<>>, todo |-> <<Ref(1)>>]
           g == CHOOSE g : g = [i \in 0..n |-> IF i = 0 THEN start ELSE Pooled(h, g[i - 1])]
           step == [i \in 1..n |-> [s \in Looks(h) |-> Pooled(h, s)]]
<1>1. n \in Nat
  <2>1. DOMAIN h = 1..Len(h) /\ Len(h) \in Nat /\ \A i \in DOMAIN h : h[i].items \in Seq(ItemsOf(h))
    BY HeapTypes, Zenon
  <2>2. parts \in Seq(Seq(ItemsOf(h)))
    BY <2>1
  <2> HIDE DEF parts
  <2>3. FlattenSeq(parts) \in Seq(ItemsOf(h))
    BY <2>2, FlattenType
  <2>4. QED
    BY <2>3
<1>2. start \in Looks(h)
  <2>1. 1 \in DOMAIN h
    BY HeapTypes, Zenon
  <2>2. Ref(1) \in ItemsOf(h)
    BY <2>1 DEF Ref, Item, ItemsOf, IsItem, ItemKinds
  <2>3. <<Ref(1)>> \in Seq(ItemsOf(h)) /\ <<>> \in Seq(Nat) /\ <<>> \in Seq(DOMAIN h)
    BY <2>2
  <2>4. QED
    BY <2>3, LooksWith
<1>3. gen_pool(h) = g[n].pool
  BY DEF gen_pool
<1> HIDE DEF n, start
<1>4. step \in [1..n -> [Looks(h) -> Looks(h)]]
  BY PooledType
<1>5. PICK f : Iterates(f, n, Looks(h), start, step)
  <2> HIDE DEF step
  <2>1. QED
    BY <1>1, <1>2, <1>4, Recursion
<1>6. f = [i \in 0..n |-> IF i = 0 THEN start ELSE Pooled(h, f[i - 1])]
  <2>1. f \in [0..n -> Looks(h)] /\ f[0] = start
    BY <1>5, Zenon DEF Iterates
  <2>2. ASSUME NEW i \in 1..n
        PROVE  f[i] = Pooled(h, f[i - 1])
    <3>1. f[i] = step[i][f[i - 1]]
      BY <1>5, Zenon DEF Iterates
    <3>2. i - 1 \in 0..n
      BY <1>1
    <3>3. f[i - 1] \in Looks(h)
      BY <2>1, <3>2, Zenon
    <3>4. QED
      BY <3>1, <3>3
  <2> HIDE DEF step
  <2>3. \A i \in 0..n : f[i] = IF i = 0 THEN start ELSE Pooled(h, f[i - 1])
    BY <1>1, <2>1, <2>2
  <2>4. QED
    BY <2>1, <2>3
<1>7. g = [i \in 0..n |-> IF i = 0 THEN start ELSE Pooled(h, g[i - 1])]
  BY <1>6, Zenon
<1> HIDE DEF g
<1>8. \A i \in 0..n : g[i] = IF i = 0 THEN start ELSE Pooled(h, g[i - 1])
  BY <1>7, Zenon
<1> DEFINE U == {i \in 0..n : g[i] \in Looks(h)}
<1>9. 0 \in U
  BY <1>1, <1>2, <1>8
<1>10. ASSUME NEW i \in 0..n, i \in U, i < n
       PROVE  i + 1 \in U
  <2>1. i + 1 \in 0..n /\ i + 1 # 0 /\ i + 1 - 1 = i
    BY <1>1, <1>10
  <2>2. g[i + 1] = Pooled(h, g[i])
    BY <1>8, <2>1
  <2>3. g[i] \in Looks(h)
    BY <1>10
  <2>4. QED
    BY <2>1, <2>2, <2>3, PooledType
<1>11. 0..n \subseteq U
  <2> HIDE DEF U
  <2>1. QED
    BY <1>1, <1>9, <1>10, UpTo
<1>12. g[n] \in Looks(h)
  BY <1>1, <1>11
<1>13. QED
  BY <1>3, <1>12 DEF Looks

(* What a step of the storage's writer or reader leaves behind. *)
StoreInv ==
  subject.kind = "bon" =>
    /\ IsHeap(subject.data)
    /\ at \in {"write", "raised", "transfer", "read", "end"}
    /\ at = "raised" => Unencodable(subject.data)
    /\ at \in {"transfer", "read", "end"} =>
         ~ Unencodable(subject.data) /\ wire = encode(subject.data)
    /\ at \in {"read", "end"} => arrived \in 0..Len(wire) \cup {Len(wire) - 1}
    /\ at = "end" => back = decode(SubSeq(wire, 1, arrived))

LEMMA StoreInvInit ==
  ASSUME FormatsInit
  PROVE  StoreInv
<1>1. \A h : Stored(h).kind = "bon" /\ Stored(h).data = h
  BY DEF Stored
<1>2. \A m : Sent(m).kind = "frame"
  BY DEF Sent
<1>3. QED
  BY <1>1, <1>2, InputsAssumption DEF FormatsInit, StoreInv

LEMMA StoreInvStep ==
  ASSUME StoreInv, FormatsNext \/ UNCHANGED formatsVars
  PROVE  StoreInv'
<1> SUFFICES ASSUME subject'.kind = "bon"
             PROVE  /\ IsHeap(subject'.data)
                    /\ at' \in {"write", "raised", "transfer", "read", "end"}
                    /\ at' = "raised" => Unencodable(subject'.data)
                    /\ at' \in {"transfer", "read", "end"} =>
                         ~ Unencodable(subject'.data) /\ wire' = encode(subject'.data)
                    /\ at' \in {"read", "end"} => arrived' \in 0..Len(wire') \cup {Len(wire') - 1}
                    /\ at' = "end" => back' = decode(SubSeq(wire', 1, arrived'))
  BY DEF StoreInv
<1>1. subject' = subject
  BY DEF FormatsNext, Dump, WriteFrame, Transfer, Load, ReadFrame, formatsVars
<1>2. /\ subject.kind = "bon" /\ IsHeap(subject.data)
      /\ at \in {"write", "raised", "transfer", "read", "end"}
      /\ at = "raised" => Unencodable(subject.data)
      /\ at \in {"transfer", "read", "end"} =>
           ~ Unencodable(subject.data) /\ wire = encode(subject.data)
      /\ at \in {"read", "end"} => arrived \in 0..Len(wire) \cup {Len(wire) - 1}
      /\ at = "end" => back = decode(SubSeq(wire, 1, arrived))
  BY <1>1 DEF StoreInv
<1>3. CASE Dump
  <2>1. CASE Unencodable(subject.data)
    BY <1>1, <1>2, <1>3, <2>1 DEF Dump, Step
  <2>2. CASE ~ Unencodable(subject.data)
    BY <1>1, <1>2, <1>3, <2>2 DEF Dump, Step
  <2>3. QED
    BY <2>1, <2>2
<1>4. CASE WriteFrame
  BY <1>2, <1>4 DEF WriteFrame
<1>5. CASE Transfer
  <2>1. at = "transfer" /\ at' = "read" /\ wire' = wire
    BY <1>5 DEF Transfer, Step
  <2>2. arrived' \in 0..Len(wire) \cup {Total - 1, Total} /\ Total = Len(wire) + 0
    BY <1>2, <1>5 DEF Transfer, Total
  <2>3. Len(wire) \in Nat
    BY <1>2, <2>1
  <2>4. arrived' \in 0..Len(wire) \cup {Len(wire) - 1}
    BY <2>2, <2>3
  <2>5. QED
    BY <1>1, <1>2, <2>1, <2>4
<1>6. CASE Load
  BY <1>1, <1>2, <1>6 DEF Load, Step
<1>7. CASE ReadFrame
  BY <1>2, <1>7 DEF ReadFrame
<1>8. CASE UNCHANGED formatsVars
  BY <1>1, <1>2, <1>8 DEF formatsVars
<1>9. QED
  BY <1>3, <1>4, <1>5, <1>6, <1>7, <1>8 DEF FormatsNext

LEMMA StoreInvAlways == FormatsSpec => []StoreInv
<1>1. FormatsInit => StoreInv
  BY StoreInvInit
<1>2. StoreInv /\ [FormatsNext]_formatsVars => StoreInv'
  BY StoreInvStep
<1>3. QED
  BY <1>1, <1>2, PTL DEF FormatsSpec

(* Storing fails for nothing but integers without room for a sign, and for *)
(* comparisons without an end.                                             *)
THEOREM FailsOnlyForSignsHolds == FormatsSpec => []FailsOnlyForSigns
<1>1. ASSUME StoreInv
      PROVE  FailsOnlyForSigns
  <2> DEFINE h == subject.data
             pool == gen_pool(h)
  <2> SUFFICES ASSUME subject.kind = "bon", at # "write", pool # Endless
               PROVE  at = "raised" <=> \E v \in Reachable : v.t = "int" /\ NoRoomForSign(v.v[1])
    BY DEF FailsOnlyForSigns
  <2>1. IsHeap(h) /\ (at = "raised" <=> Unencodable(h))
    BY <1>1 DEF StoreInv
  <2>2. Reachable = UNION {Range(h[i].items) : i \in Range(pool)}
    BY DEF Reachable
  <2>3. Unencodable(h) <=>
          \/ pool = Endless
          \/ \E i \in DOMAIN pool : \E j \in DOMAIN h[pool[i]].items :
               h[pool[i]].items[j].t = "int"
                 /\ ~ Fits(h[pool[i]].items[j].v[1], num_bytes(h[pool[i]].items[j].v[1]))
    BY DEF Unencodable
  <2>4. pool \in Seq(DOMAIN h)
    BY <2>1, PoolType
  <2>5. \A i \in DOMAIN h : h[i].items \in Seq(ItemsOf(h))
    BY <2>1, HeapTypes, Zenon
  <2> HIDE DEF h, pool
  <2>6. ASSUME NEW v \in ItemsOf(h), v.t = "int"
        PROVE  ~ Fits(v.v[1], num_bytes(v.v[1])) <=> NoRoomForSign(v.v[1])
    <3>1. v.v \in Seq(Int) /\ IsItem(h, v)
      BY DEF ItemsOf
    <3>2. Len(v.v) = 1 /\ Abs(v.v[1]) < 2 ^ 24
      BY <2>6, <3>1, Zenon DEF IsItem
    <3>3. v.v[1] \in Int
      BY <3>1, <3>2
    <3>4. QED
      BY <3>2, <3>3, SignNeedsRoom
  <2>7. \A v : v \in Reachable <=>
          \E i \in DOMAIN pool : \E j \in DOMAIN h[pool[i]].items : v = h[pool[i]].items[j]
    BY <2>2 DEF Range
  <2>8. ASSUME NEW i \in DOMAIN pool, NEW j \in DOMAIN h[pool[i]].items
        PROVE  h[pool[i]].items[j] \in ItemsOf(h)
    <3>1. pool[i] \in DOMAIN h
      BY <2>4
    <3> DEFINE s == h[pool[i]].items
    <3>2. s \in Seq(ItemsOf(h))
      BY <2>5, <3>1
    <3>3. j \in DOMAIN s
      OBVIOUS
    <3> HIDE DEF s
    <3>4. s[j] \in ItemsOf(h)
      BY <3>2, <3>3
    <3>5. QED
      BY <3>4 DEF s
  <2>9. QED
    BY <2>1, <2>3, <2>6, <2>7, <2>8 DEF h, pool
<1>2. QED
  BY <1>1, StoreInvAlways, PTL

-----------------------------------------------------------------------------
(* What is written are bytes. *)

LEMMA TypeBytes ==
  ASSUME NEW t \in {"ref", "none", "dict", "list", "int", "float", "str", "true", "false", "bytes"}
  PROVE  <<TypeByte(t)>> \in Seq(Byte)
<1>1. \E b \in 0..9 : Types[b + 1] = t
  <2>1. /\ Types[0 + 1] = "ref" /\ Types[1 + 1] = "none" /\ Types[2 + 1] = "dict"
        /\ Types[3 + 1] = "list" /\ Types[4 + 1] = "int" /\ Types[5 + 1] = "float"
        /\ Types[6 + 1] = "str" /\ Types[7 + 1] = "true" /\ Types[8 + 1] = "false"
        /\ Types[9 + 1] = "bytes"
    BY DEF Types
  <2>2. /\ 0 \in 0..9 /\ 1 \in 0..9 /\ 2 \in 0..9 /\ 3 \in 0..9 /\ 4 \in 0..9
        /\ 5 \in 0..9 /\ 6 \in 0..9 /\ 7 \in 0..9 /\ 8 \in 0..9 /\ 9 \in 0..9
    OBVIOUS
  <2>3. QED
    BY <2>1, <2>2, Zenon
<1>2. TypeByte(t) \in 0..9
  BY <1>1, Zenon DEF TypeByte
<1>3. QED
  BY <1>2 DEF Byte

LEMMA FirstType ==
  ASSUME NEW I \in SUBSET Nat
  PROVE  (IF I # {} THEN Min(I) ELSE 0) \in Nat
<1>1. CASE I # {}
  <2>1. \E x \in I : \A y \in I : x <= y
    BY <1>1, LeastElement
  <2>2. Min(I) \in I
    BY <2>1, Zenon DEF Min
  <2>3. QED
    BY <1>1, <2>2
<1>2. CASE ~ (I # {})
  BY <1>2
<1>3. QED
  BY <1>1, <1>2

LEMMA PoolIndexType ==
  ASSUME NEW h, NEW pool \in Seq(Nat), NEW v
  PROVE  PoolIndex(h, pool, v) \in Int
<1> DEFINE results == [i \in DOMAIN pool |-> PyEq(h, Enough(h), Ref(pool[i]), v)]
           I == {i \in 1..Len(results) : results[i] # "different"}
           first == IF I # {} THEN Min(I) ELSE 0
           endless == first > 0 /\ results[first] = "endless"
<1>1. PoolIndex(h, pool, v) = IF endless THEN -1 ELSE first
  BY DEF PoolIndex, FirstWhere, SelectInSeq
<1>2. I \in SUBSET Nat
  OBVIOUS
<1> HIDE DEF I
<1>3. first \in Nat
  BY <1>2, FirstType
<1> HIDE DEF first, endless
<1>4. QED
  BY <1>1, <1>3

LEMMA FourBytes ==
  ASSUME NEW n \in Int
  PROVE  uint32_to_bytes(n) \in Seq(Byte)
BY BigType DEF uint32_to_bytes

LEMMA Utf8Type ==
  ASSUME NEW s \in Seq(Characters)
  PROVE  utf8(s) \in Seq(Byte)
<1> DEFINE T == Seq(Byte)
           parts == [i \in DOMAIN s |-> IF s[i] < 128 THEN <<s[i]>> ELSE <<192 + s[i] \div 64, 128 + (s[i] % 64)>>]
<1>1. ASSUME NEW i \in DOMAIN s
      PROVE  parts[i] \in T
  <2> DEFINE c == s[i]
  <2>1. c \in 0..2047
    <3>1. s[i] \in Characters
      OBVIOUS
    <3>2. QED
      BY <3>1 DEF Characters
  <2>2. parts[i] = IF c < 128 THEN <<c>> ELSE <<192 + c \div 64, 128 + (c % 64)>>
    OBVIOUS
  <2> HIDE DEF c, parts
  <2>3. CASE c < 128
    <3>1. c \in Byte
      BY <2>1, <2>3 DEF Byte
    <3>2. QED
      BY <2>2, <2>3, <3>1
  <2>4. CASE ~ (c < 128)
    <3>1. 192 + c \div 64 \in Byte /\ 128 + (c % 64) \in Byte
      BY <2>1, <2>4 DEF Byte
    <3> DEFINE a == 192 + c \div 64
               b == 128 + (c % 64)
    <3> HIDE DEF a, b
    <3>2. parts[i] = <<a, b>>
      BY <2>2, <2>4 DEF a, b
    <3>3. a \in Byte /\ b \in Byte
      BY <3>1 DEF a, b
    <3>4. QED
      BY <3>2, <3>3
  <2>5. QED
    BY <2>3, <2>4
<1>2. parts \in Seq(T)
  <2>1. DOMAIN s = 1..Len(s) /\ Len(s) \in Nat /\ DOMAIN parts = DOMAIN s
    OBVIOUS
  <2>2. parts = [i \in 1..Len(s) |-> parts[i]]
    BY <2>1
  <2> HIDE DEF parts, T
  <2>3. QED
    BY <1>1, <2>1, <2>2
<1>3. utf8(s) = FlattenSeq(parts)
  BY DEF utf8
<1> HIDE DEF parts
<1>4. QED
  BY <1>2, <1>3, FlattenType

LEMMA StrType ==
  ASSUME NEW s \in Seq(Characters)
  PROVE  str_to_bytes(s) \in Seq(Byte)
<1>1. uint32_to_bytes(Len(s)) \in Seq(Byte)
  BY FourBytes
<1>2. utf8(s) \in Seq(Byte)
  BY Utf8Type
<1>3. QED
  BY <1>1, <1>2 DEF str_to_bytes

LEMMA IntType ==
  ASSUME NEW n \in Int, Abs(n) < 2 ^ 24
  PROVE  int_to_bytes(n) \in Seq(Byte)
<1>1. num_bytes(n) \in Nat
  <2>1. bit_length(n) \in Nat
    BY BitLengths
  <2>2. QED
    BY <2>1 DEF num_bytes
<1>2. uint32_to_bytes(num_bytes(n)) \in Seq(Byte)
  BY <1>1, FourBytes
<1>3. Big(n, num_bytes(n)) \in Seq(Byte)
  BY <1>1, BigType
<1>4. QED
  BY <1>2, <1>3 DEF int_to_bytes

LEMMA FloatType ==
  ASSUME NEW x \in Byte
  PROVE  float_to_bytes(x) \in Seq(Byte)
<1>1. [i \in 1..8 |-> x] \in Seq(Byte)
  OBVIOUS
<1>2. <<2>> \in Seq(Byte) /\ <<6>> \in Seq(Byte) /\ <<8>> \in Seq(Byte)
  BY DEF Byte
<1> DEFINE e == [i \in 1..8 |-> x]
<1>3. float_to_bytes(x) = <<2>> \/ float_to_bytes(x) = <<6>> \/ float_to_bytes(x) = <<8>> \o e
  BY DEF float_to_bytes
<1> HIDE DEF e
<1>4. <<8>> \o e \in Seq(Byte)
  BY <1>1, <1>2 DEF e
<1>5. QED
  BY <1>2, <1>3, <1>4, Zenon

LEMMA ItemType ==
  ASSUME NEW h, NEW pool \in Seq(Nat), NEW v \in ItemsOf(h)
  PROVE  encode_item(h, pool, v) \in Seq(Byte)
<1> DEFINE T == Seq(Byte)
           A == <<TypeByte("ref")>> \o uint32_to_bytes(PoolIndex(h, pool, v) - 1)
           B == <<TypeByte(IF v.v[1] = 1 THEN "true" ELSE "false")>>
           C == <<TypeByte("int")>> \o int_to_bytes(v.v[1])
           D == <<TypeByte("float")>> \o float_to_bytes(v.v[1])
           E == <<TypeByte("str")>> \o str_to_bytes(v.v)
           G == <<TypeByte("bytes")>> \o uint32_to_bytes(Len(v.v)) \o v.v
           N == <<TypeByte("none")>>
<1>1. encode_item(h, pool, v) =
        CASE v.t = "ref" -> A [] v.t = "bool" -> B [] v.t = "int" -> C [] v.t = "float" -> D
          [] v.t = "str" -> E [] v.t = "bytes" -> G [] OTHER -> N
  BY DEF encode_item
<1>2. v.t \in ItemKinds /\ v.v \in Seq(Int) /\ IsItem(h, v)
  BY DEF ItemsOf
<1>3. \A a, b \in T : a \o b \in T
  OBVIOUS
<1>4. A \in T
  <2>1. PoolIndex(h, pool, v) - 1 \in Int
    BY PoolIndexType
  <2>2. uint32_to_bytes(PoolIndex(h, pool, v) - 1) \in T
    BY <2>1, FourBytes
  <2>3. <<TypeByte("ref")>> \in T
    BY TypeBytes
  <2> HIDE DEF T
  <2>4. QED
    BY <1>3, <2>2, <2>3
<1>5. B \in T
  BY TypeBytes
<1>6. ASSUME v.t = "int"
      PROVE  C \in T
  <2>1. Len(v.v) = 1 /\ Abs(v.v[1]) < 2 ^ 24
    BY <1>2, <1>6, Zenon DEF IsItem
  <2>2. v.v[1] \in Int
    BY <1>2, <2>1
  <2>3. int_to_bytes(v.v[1]) \in T
    BY <2>1, <2>2, IntType
  <2>4. <<TypeByte("int")>> \in T
    BY TypeBytes
  <2> HIDE DEF T
  <2>5. QED
    BY <1>3, <2>3, <2>4
<1>7. ASSUME v.t = "float"
      PROVE  D \in T
  <2>1. v.v[1] \in Byte
    BY <1>2, <1>7, Zenon DEF IsItem
  <2>2. float_to_bytes(v.v[1]) \in T
    BY <2>1, FloatType
  <2>3. <<TypeByte("float")>> \in T
    BY TypeBytes
  <2> HIDE DEF T
  <2>4. QED
    BY <1>3, <2>2, <2>3
<1>8. ASSUME v.t = "str"
      PROVE  E \in T
  <2>1. v.v \in Seq(Characters)
    BY <1>2, <1>8, Zenon DEF IsItem
  <2>2. str_to_bytes(v.v) \in T
    BY <2>1, StrType
  <2>3. <<TypeByte("str")>> \in T
    BY TypeBytes
  <2> HIDE DEF T
  <2>4. QED
    BY <1>3, <2>2, <2>3
<1>9. ASSUME v.t = "bytes"
      PROVE  G \in T
  <2>1. v.v \in T
    BY <1>2, <1>9, Zenon DEF IsItem
  <2>2. uint32_to_bytes(Len(v.v)) \in T
    BY <1>2, FourBytes
  <2>3. <<TypeByte("bytes")>> \in T
    BY TypeBytes
  <2> HIDE DEF T
  <2>4. QED
    BY <1>3, <2>1, <2>2, <2>3
<1>10. N \in T
  BY TypeBytes
<1> HIDE DEF A, B, C, D, E, G, N, T
<1>11. encode_item(h, pool, v) \in T
  BY <1>1, <1>4, <1>5, <1>6, <1>7, <1>8, <1>9, <1>10
<1>12. QED
  BY <1>11 DEF T

LEMMA EncodedType ==
  ASSUME NEW h, IsHeap(h), ~ Unencodable(h)
  PROVE  encode(h) \in Seq(Byte) /\ Len(encode(h)) > 0
<1> DEFINE T == Seq(Byte)
           pool == gen_pool(h)
           Key(i, j) == IF h[pool[i]].t = "dict" THEN str_to_bytes(h[pool[i]].keys[j]) ELSE <<>>
           Entry(i) == [j \in DOMAIN h[pool[i]].items |-> Key(i, j) \o encode_item(h, pool, h[pool[i]].items[j])]
           NodeOf(i) == <<TypeByte(h[pool[i]].t)>> \o uint32_to_bytes(Len(h[pool[i]].items)) \o FlattenSeq(Entry(i))
           nodes == [i \in DOMAIN pool |-> NodeOf(i)]
<1>1. pool \in Seq(DOMAIN h)
  <2>1. pool # Endless
    BY DEF Unencodable
  <2>2. QED
    BY <2>1, PoolType
<1>2. DOMAIN h = 1..Len(h) /\ Len(h) \in Nat
  BY HeapTypes, Zenon
<1>3. pool \in Seq(Nat)
  BY <1>1, <1>2
<1>4. \A i \in DOMAIN h : h[i].items \in Seq(ItemsOf(h))
  BY HeapTypes, Zenon
<1>5. \A i \in DOMAIN h : h[i].keys \in Seq(Seq(Characters)) /\ h[i].t \in {"dict", "list"}
  BY HeapTypes, Zenon
<1>6. \A i \in DOMAIN h : h[i].t = "dict" => Len(h[i].keys) = Len(h[i].items)
  BY HeapTypes, Zenon
<1>7. \A a, b \in T : a \o b \in T
  OBVIOUS
<1>8. <<>> \in T
  OBVIOUS
<1>9. encode_encoded_pool(h, pool) = FlattenSeq(nodes)
  BY DEF encode_encoded_pool
<1>10. encode(h) = MAGIC \o <<TypeByte("ref")>> \o uint32_to_bytes(0)
                       \o uint32_to_bytes(Len(pool)) \o encode_encoded_pool(h, pool)
  BY DEF encode
<1> HIDE DEF T, pool
<1>11. ASSUME NEW i \in DOMAIN pool
       PROVE  NodeOf(i) \in T
  <2> DEFINE n == h[pool[i]]
  <2>1. pool[i] \in DOMAIN h
    BY <1>1
  <2>2. n.items \in Seq(ItemsOf(h)) /\ n.t \in {"dict", "list"} /\ n.keys \in Seq(Seq(Characters))
    BY <1>4, <1>5, <2>1
  <2>3. n.t = "dict" => Len(n.keys) = Len(n.items)
    BY <1>6, <2>1
  <2>4. ASSUME NEW j \in DOMAIN n.items
        PROVE  Key(i, j) \o encode_item(h, pool, n.items[j]) \in T
    <3> DEFINE items == n.items
               keys == n.keys
               S == Seq(Characters)
    <3> HIDE DEF items, keys, S
    <3>1. items \in Seq(ItemsOf(h)) /\ keys \in Seq(S) /\ j \in DOMAIN items
      BY <2>2 DEF items, keys, S
    <3>2. items[j] \in ItemsOf(h)
      BY <3>1
    <3>3. encode_item(h, pool, items[j]) \in T
      BY <1>3, <3>2, ItemType DEF T
    <3>4. Key(i, j) \in T
      <4>1. CASE n.t = "dict"
        <5>1. Len(keys) = Len(items)
          BY <2>3, <4>1 DEF items, keys
        <5>2. keys[j] \in S
          BY <3>1, <5>1
        <5>3. str_to_bytes(keys[j]) \in T
          BY <5>2, StrType DEF S, T
        <5>4. QED
          BY <4>1, <5>3 DEF keys
      <4>2. CASE n.t # "dict"
        BY <1>8, <4>2
      <4>3. QED
        BY <4>1, <4>2
    <3> HIDE DEF Key
    <3>5. QED
      BY <1>7, <3>3, <3>4 DEF items
  <2>5. Entry(i) \in Seq(T)
    <3> DEFINE items == n.items
               e == [j \in DOMAIN items |-> Key(i, j) \o encode_item(h, pool, items[j])]
    <3>1. DOMAIN items = 1..Len(items) /\ Len(items) \in Nat
      BY <2>2
    <3>2. \A j \in DOMAIN items : e[j] \in T
      BY <2>4
    <3>3. e = [j \in 1..Len(items) |-> e[j]]
      BY <3>1
    <3>4. e = Entry(i)
      OBVIOUS
    <3> HIDE DEF e, items, Entry
    <3>5. e \in Seq(T)
      BY <3>1, <3>2, <3>3
    <3>6. QED
      BY <3>4, <3>5
  <2> HIDE DEF Entry
  <2>6. FlattenSeq(Entry(i)) \in T
    BY <2>5, FlattenType DEF T
  <2>7. uint32_to_bytes(Len(n.items)) \in T
    BY <2>2, FourBytes DEF T
  <2>8. <<TypeByte(n.t)>> \in T
    BY <2>2, TypeBytes DEF T
  <2>9. QED
    BY <1>7, <2>6, <2>7, <2>8
<1>12. nodes \in Seq(T)
  <2>1. DOMAIN pool = 1..Len(pool) /\ Len(pool) \in Nat
    BY <1>1
  <2>2. \A i \in DOMAIN pool : nodes[i] \in T
    BY <1>11
  <2>3. nodes = [i \in 1..Len(pool) |-> nodes[i]]
    BY <2>1
  <2> HIDE DEF nodes
  <2>4. QED
    BY <2>1, <2>2, <2>3
<1> HIDE DEF nodes
<1>13. encode_encoded_pool(h, pool) \in T
  BY <1>9, <1>12, FlattenType DEF T
<1>14. uint32_to_bytes(0) \in T /\ uint32_to_bytes(Len(pool)) \in T
  BY <1>1, FourBytes DEF T
<1>15. <<TypeByte("ref")>> \in T
  BY TypeBytes DEF T
<1>16. MAGIC \in T /\ Len(MAGIC) = 3
  BY DEF MAGIC, T, Byte
<1> DEFINE a == MAGIC
           b == <<TypeByte("ref")>>
           c == uint32_to_bytes(0)
           d == uint32_to_bytes(Len(pool))
           e == encode_encoded_pool(h, pool)
<1> HIDE DEF a, b, c, d, e
<1>17. encode(h) = a \o b \o c \o d \o e
  BY <1>10 DEF a, b, c, d, e
<1>18. a \in T /\ b \in T /\ c \in T /\ d \in T /\ e \in T /\ Len(a) = 3
  BY <1>13, <1>14, <1>15, <1>16 DEF a, b, c, d, e
<1>19. QED
  BY <1>17, <1>18 DEF T

-----------------------------------------------------------------------------
(* Reading from bytes that have been cut. *)

CutOf(w2, w) == w \in Seq(Byte) /\ \E n \in 0..Len(w) : w2 = SubSeq(w, 1, n)

(* What is read of the cut bytes is what is read of all of them, unless it *)
(* fails.                                                                  *)
Same(a, b) ==
  /\ a.p \in Nat
  /\ a.p # 0 => b = a
  /\ a.p = 0 => a = Fail

LEMMA FailSame ==
  ASSUME NEW b
  PROVE  Same(Fail, b)
BY DEF Same, Fail, Got

LEMMA GotSame ==
  ASSUME NEW v, NEW p \in Nat \ {0}
  PROVE  Same(Got(v, p), Got(v, p))
BY DEF Same, Got

LEMMA ThenSame ==
  ASSUME NEW a, NEW b, Same(a, b), NEW x, NEW y, a.p # 0 /\ b = a => Same(x, y),
         NEW s, s = IF a.p = 0 THEN Fail ELSE x,
         NEW t, t = IF b.p = 0 THEN Fail ELSE y
  PROVE  Same(s, t)
<1>1. CASE a.p = 0
  <2>1. s = Fail
    BY <1>1
  <2>2. QED
    BY <2>1, FailSame
<1>2. CASE a.p # 0
  <2>1. b = a /\ s = x /\ t = y /\ Same(x, y)
    BY <1>2 DEF Same
  <2>2. QED
    BY <2>1
<1>3. QED
  BY <1>1, <1>2

LEMMA TakeSame ==
  ASSUME NEW w, NEW w2, CutOf(w2, w), NEW p \in Nat, NEW n \in Nat
  PROVE  /\ Same(Take(w2, p, n), Take(w, p, n))
         /\ Take(w2, p, n).p # 0 => Take(w2, p, n).v \in Seq(Byte)
<1>1. PICK len \in 0..Len(w) : w2 = SubSeq(w, 1, len)
  BY DEF CutOf
<1>2. w \in Seq(Byte) /\ len \in Nat /\ len <= Len(w)
  BY DEF CutOf
<1>3. w2 \in Seq(Byte) /\ Len(w2) = len /\ \A i \in 1..len : w2[i] = w[i]
  BY <1>1, <1>2, Prefix
<1>4. CASE p = 0
  <2>1. Take(w2, p, n) = Fail /\ Take(w2, p, n).p = 0
    BY <1>4, TakeNothing
  <2>2. QED
    BY <2>1, FailSame
<1>5. CASE p # 0 /\ p + n - 1 > len
  <2>1. Take(w2, p, n) = Fail /\ Take(w2, p, n).p = 0
    BY <1>3, <1>5, TakeTooMuch
  <2>2. QED
    BY <2>1, FailSame
<1>6. CASE p # 0 /\ ~ (p + n - 1 > len)
  <2> DEFINE c == p - 1
             A == SubSeq(w2, p, p + n - 1)
             B == SubSeq(w, p, p + n - 1)
  <2>0. c \in Nat /\ p = c + 1 /\ p + n - 1 = c + n /\ c + n <= len /\ c + n <= Len(w) /\ Len(w) \in Nat
    BY <1>2, <1>6
  <2>1. A = SubSeq(w2, c + 1, c + n) /\ B = SubSeq(w, c + 1, c + n)
    BY <2>0
  <2> HIDE DEF c, A, B
  <2>2. A \in Seq(Byte)
    BY <1>3, <2>0, <2>1, SubSeqOf
  <2>3. Len(A) = n
    BY <1>3, <2>0, <2>1, SubSeqOf
  <2>4. \A i \in 1..n : A[i] = w2[c + i]
    BY <1>3, <2>0, <2>1, SubSeqOf
  <2>5. B \in Seq(Byte)
    BY <1>2, <2>0, <2>1, SubSeqOf
  <2>6. Len(B) = n
    BY <1>2, <2>0, <2>1, SubSeqOf
  <2>7. \A i \in 1..n : B[i] = w[c + i]
    BY <1>2, <2>0, <2>1, SubSeqOf
  <2>8. \A i \in 1..n : c + i \in 1..len
    BY <1>2, <2>0
  <2>9. \A i \in 1..n : A[i] = B[i]
    BY <1>3, <2>4, <2>7, <2>8
  <2>10. A = B
    BY <2>2, <2>3, <2>5, <2>6, <2>9
  <2>11. ~ (p = 0 \/ p + n - 1 > Len(w2)) /\ ~ (p = 0 \/ p + n - 1 > Len(w))
    BY <1>2, <1>3, <1>6, <2>0
  <2>12. Take(w2, p, n) = Got(A, p + n) /\ Take(w, p, n) = Got(B, p + n)
    BY <2>11, Zenon DEF Take, A, B
  <2>13. p + n \in Nat \ {0}
    BY <1>6
  <2>14. Got(A, p + n).v = A
    BY DEF Got
  <2>15. QED
    BY <2>2, <2>10, <2>12, <2>13, <2>14, GotSame
<1>7. QED
  BY <1>4, <1>5, <1>6

LEMMA FromBigType ==
  ASSUME NEW v \in Seq(Byte)
  PROVE  FromBig(v) \in Nat
<1>1. v \in Seq(Nat)
  <2>1. \A x \in Byte : x \in Nat
    BY DEF Byte
  <2>2. QED
    BY <2>1
<1>2. PICK value : Values(value, v) /\ FromBig(v) = value[Len(v)]
  BY <1>1, FromBigDefined
<1>3. QED
  BY <1>2 DEF Values

LEMMA NumberSame ==
  ASSUME NEW w, NEW w2, CutOf(w2, w), NEW p \in Nat
  PROVE  /\ Same(Number(w2, p), Number(w, p))
         /\ Number(w2, p).p # 0 => Number(w2, p).v \in Nat
<1> DEFINE a == Take(w2, p, 4)
           b == Take(w, p, 4)
           x == Got(FromBig(a.v), a.p)
           y == Got(FromBig(b.v), b.p)
<1>1. Number(w2, p) = IF a.p = 0 THEN Fail ELSE x
  BY DEF Number, Then
<1>2. Number(w, p) = IF b.p = 0 THEN Fail ELSE y
  BY DEF Number, Then
<1>3. Same(a, b) /\ (a.p # 0 => a.v \in Seq(Byte))
  BY TakeSame
<1> HIDE DEF a, b
<1>4. ASSUME a.p # 0, b = a
      PROVE  Same(x, y)
  <2>1. a.p \in Nat \ {0}
    BY <1>3, <1>4 DEF Same
  <2>2. QED
    BY <1>4, <2>1, GotSame
<1>5. Number(w2, p).p # 0 => Number(w2, p).v = FromBig(a.v) /\ a.p # 0
  BY <1>1 DEF Got, Fail
<1> HIDE DEF x, y
<1>6. Same(Number(w2, p), Number(w, p))
  BY <1>1, <1>2, <1>3, <1>4, ThenSame
<1>7. QED
  BY <1>3, <1>5, <1>6, FromBigType

LEMMA SizedSame ==
  ASSUME NEW w, NEW w2, CutOf(w2, w), NEW p \in Nat
  PROVE  Same(Sized(w2, p), Sized(w, p))
<1> DEFINE a == Number(w2, p)
           b == Number(w, p)
           x == Take(w2, a.p, a.v)
           y == Take(w, b.p, b.v)
<1>1. Sized(w2, p) = IF a.p = 0 THEN Fail ELSE x
  BY DEF Sized, Then
<1>2. Sized(w, p) = IF b.p = 0 THEN Fail ELSE y
  BY DEF Sized, Then
<1>3. Same(a, b) /\ (a.p # 0 => a.v \in Nat)
  BY NumberSame
<1> HIDE DEF a, b
<1>4. ASSUME a.p # 0, b = a
      PROVE  Same(x, y)
  <2>1. a.p \in Nat /\ a.v \in Nat
    BY <1>3, <1>4 DEF Same
  <2>2. QED
    BY <1>4, <2>1, TakeSame
<1> HIDE DEF x, y
<1>5. QED
  BY <1>1, <1>2, <1>3, <1>4, ThenSame

LEMMA StrSame ==
  ASSUME NEW w, NEW w2, CutOf(w2, w), NEW p \in Nat
  PROVE  Same(str_from_bytes(w2, p), str_from_bytes(w, p))
<1> DEFINE a == Sized(w2, p)
           b == Sized(w, p)
           x == IF IsUtf8(a.v) THEN Got(decode8(a.v), a.p) ELSE Fail
           y == IF IsUtf8(b.v) THEN Got(decode8(b.v), b.p) ELSE Fail
<1>1. str_from_bytes(w2, p) = IF a.p = 0 THEN Fail ELSE x
  BY DEF str_from_bytes, Then
<1>2. str_from_bytes(w, p) = IF b.p = 0 THEN Fail ELSE y
  BY DEF str_from_bytes, Then
<1>3. Same(a, b)
  BY SizedSame
<1> HIDE DEF a, b
<1>4. ASSUME a.p # 0, b = a
      PROVE  Same(x, y)
  <2>1. a.p \in Nat \ {0}
    BY <1>3, <1>4 DEF Same
  <2>2. CASE IsUtf8(a.v)
    BY <1>4, <2>1, <2>2, GotSame
  <2>3. CASE ~ IsUtf8(a.v)
    BY <1>4, <2>3, FailSame
  <2>4. QED
    BY <2>2, <2>3
<1> HIDE DEF x, y
<1>5. QED
  BY <1>1, <1>2, <1>3, <1>4, ThenSame

LEMMA FloatSame ==
  ASSUME NEW w, NEW w2, CutOf(w2, w), NEW p \in Nat
  PROVE  Same(float_from_bytes(w2, p), float_from_bytes(w, p))
<1> DEFINE a == Take(w2, p, 1)
           b == Take(w, p, 1)
           c == Take(w2, a.p, 8)
           d == Take(w, b.p, 8)
           e == Got(SubSeq(c.v, 1, Min({1, Len(c.v)})), c.p)
           f == Got(SubSeq(d.v, 1, Min({1, Len(d.v)})), d.p)
           g == IF c.p = 0 THEN Fail ELSE e
           h == IF d.p = 0 THEN Fail ELSE f
           x == CASE a.v = <<8>> -> g [] a.v = <<2>> -> Got(<<Inf>>, a.p)
                  [] a.v = <<6>> -> Got(<<NegInf>>, a.p) [] OTHER -> Fail
           y == CASE b.v = <<8>> -> h [] b.v = <<2>> -> Got(<<Inf>>, b.p)
                  [] b.v = <<6>> -> Got(<<NegInf>>, b.p) [] OTHER -> Fail
<1>1. float_from_bytes(w2, p) = IF a.p = 0 THEN Fail ELSE x
  BY DEF float_from_bytes, Then
<1>2. float_from_bytes(w, p) = IF b.p = 0 THEN Fail ELSE y
  BY DEF float_from_bytes, Then
<1>3. Same(a, b)
  BY TakeSame
<1> HIDE DEF a, b
<1>4. ASSUME a.p # 0, b = a
      PROVE  Same(x, y)
  <2>1. a.p \in Nat \ {0}
    BY <1>3, <1>4 DEF Same
  <2>2. Same(c, d)
    BY <1>4, <2>1, TakeSame
  <2>3. Same(g, h)
    <3> HIDE DEF c, d
    <3>1. ASSUME c.p # 0, d = c
          PROVE  Same(e, f)
      <4>1. c.p \in Nat \ {0}
        BY <2>2, <3>1 DEF Same
      <4>2. QED
        BY <3>1, <4>1, GotSame
    <3> HIDE DEF e, f
    <3>2. QED
      BY <2>2, <3>1, ThenSame
  <2> DEFINE i == Got(<<Inf>>, a.p)
             n == Got(<<NegInf>>, a.p)
             is8 == a.v = <<8>>
             is2 == a.v = <<2>>
             is6 == a.v = <<6>>
  <2>4. Same(i, i) /\ Same(n, n) /\ Same(Fail, Fail)
    BY <2>1, GotSame, FailSame
  <2>5. x = CASE is8 -> g [] is2 -> i [] is6 -> n [] OTHER -> Fail
    OBVIOUS
  <2>6. y = CASE is8 -> h [] is2 -> i [] is6 -> n [] OTHER -> Fail
    BY <1>4
  <2>7. is8 => ~ is2 /\ ~ is6
    OBVIOUS
  <2>8. is2 => ~ is6
    OBVIOUS
  <2> HIDE DEF x, y, g, h, i, n, is8, is2, is6
  <2>9. QED
    BY <2>3, <2>4, <2>5, <2>6, <2>7, <2>8
<1> HIDE DEF x, y
<1>5. QED
  BY <1>1, <1>2, <1>3, <1>4, ThenSame

(* A value of type t made of what has been read. *)
LEMMA MadeSame ==
  ASSUME NEW a, NEW b, Same(a, b), NEW u, NEW v, a.p # 0 /\ b = a => u = v, NEW t,
         NEW x, x = IF a.p = 0 THEN Fail ELSE Got(Item(t, u), a.p),
         NEW y, y = IF b.p = 0 THEN Fail ELSE Got(Item(t, v), b.p)
  PROVE  Same(x, y)
<1>1. ASSUME a.p # 0, b = a
      PROVE  Same(Got(Item(t, u), a.p), Got(Item(t, v), b.p))
  <2>1. a.p \in Nat \ {0} /\ u = v
    BY <1>1 DEF Same
  <2>2. QED
    BY <1>1, <2>1, GotSame
<1> DEFINE c == Got(Item(t, u), a.p)
           d == Got(Item(t, v), b.p)
<1>2. (x = IF a.p = 0 THEN Fail ELSE c) /\ (y = IF b.p = 0 THEN Fail ELSE d)
  OBVIOUS
<1>3. a.p # 0 /\ b = a => Same(c, d)
  BY <1>1
<1> HIDE DEF c, d
<1>4. QED
  BY <1>2, <1>3, ThenSame

LEMMA ValueSame ==
  ASSUME NEW w, NEW w2, CutOf(w2, w), NEW p \in Nat \ {0}, NEW t
  PROVE  Same(value_of_type(w2, t, p), value_of_type(w, t, p))
<1> DEFINE x == value_of_type(w2, t, p)
           y == value_of_type(w, t, p)
<1>1. CASE t = "ref"
  <2> DEFINE a == Number(w2, p)
             b == Number(w, p)
  <2>1. x = IF a.p = 0 THEN Fail ELSE Got(Item(t, <<a.v + 1>>), a.p)
    BY <1>1, Zenon DEF value_of_type, Then
  <2>2. y = IF b.p = 0 THEN Fail ELSE Got(Item(t, <<b.v + 1>>), b.p)
    BY <1>1, Zenon DEF value_of_type, Then
  <2>3. Same(a, b)
    BY NumberSame
  <2> DEFINE u == <<a.v + 1>>
             v == <<b.v + 1>>
  <2>4. b = a => u = v
    OBVIOUS
  <2> HIDE DEF a, b, x, y, u, v
  <2>5. QED
    BY <2>1, <2>2, <2>3, <2>4, MadeSame DEF x, y, u, v
<1>2. CASE t = "int"
  <2> DEFINE a == Sized(w2, p)
             b == Sized(w, p)
  <2>1. x = IF a.p = 0 THEN Fail ELSE Got(Item(t, <<signed(a.v)>>), a.p)
    BY <1>2, Zenon DEF value_of_type, Then
  <2>2. y = IF b.p = 0 THEN Fail ELSE Got(Item(t, <<signed(b.v)>>), b.p)
    BY <1>2, Zenon DEF value_of_type, Then
  <2>3. Same(a, b)
    BY SizedSame
  <2> DEFINE u == <<signed(a.v)>>
             v == <<signed(b.v)>>
  <2>4. b = a => u = v
    OBVIOUS
  <2> HIDE DEF a, b, x, y, u, v
  <2>5. QED
    BY <2>1, <2>2, <2>3, <2>4, MadeSame DEF x, y, u, v
<1>3. CASE t = "str"
  <2> DEFINE a == str_from_bytes(w2, p)
             b == str_from_bytes(w, p)
  <2>1. x = IF a.p = 0 THEN Fail ELSE Got(Item(t, a.v), a.p)
    BY <1>3, Zenon DEF value_of_type, Then
  <2>2. y = IF b.p = 0 THEN Fail ELSE Got(Item(t, b.v), b.p)
    BY <1>3, Zenon DEF value_of_type, Then
  <2>3. Same(a, b)
    BY StrSame
  <2>4. b = a => a.v = b.v
    OBVIOUS
  <2> HIDE DEF a, b, x, y
  <2>5. QED
    BY <2>1, <2>2, <2>3, <2>4, MadeSame DEF x, y
<1>4. CASE t = "float"
  <2> DEFINE a == float_from_bytes(w2, p)
             b == float_from_bytes(w, p)
  <2>1. x = IF a.p = 0 THEN Fail ELSE Got(Item(t, a.v), a.p)
    BY <1>4, Zenon DEF value_of_type, Then
  <2>2. y = IF b.p = 0 THEN Fail ELSE Got(Item(t, b.v), b.p)
    BY <1>4, Zenon DEF value_of_type, Then
  <2>3. Same(a, b)
    BY FloatSame
  <2>4. b = a => a.v = b.v
    OBVIOUS
  <2> HIDE DEF a, b, x, y
  <2>5. QED
    BY <2>1, <2>2, <2>3, <2>4, MadeSame DEF x, y
<1>5. CASE t = "bytes"
  <2> DEFINE a == Sized(w2, p)
             b == Sized(w, p)
  <2>1. x = IF a.p = 0 THEN Fail ELSE Got(Item(t, a.v), a.p)
    BY <1>5, Zenon DEF value_of_type, Then
  <2>2. y = IF b.p = 0 THEN Fail ELSE Got(Item(t, b.v), b.p)
    BY <1>5, Zenon DEF value_of_type, Then
  <2>3. Same(a, b)
    BY SizedSame
  <2>4. b = a => a.v = b.v
    OBVIOUS
  <2> HIDE DEF a, b, x, y
  <2>5. QED
    BY <2>1, <2>2, <2>3, <2>4, MadeSame DEF x, y
<1>6. CASE t = "true"
  <2>1. x = Got(Item("bool", <<1>>), p) /\ y = x
    BY <1>6, Zenon DEF value_of_type
  <2> DEFINE i == Item("bool", <<1>>)
  <2> HIDE DEF i, x, y
  <2>2. QED
    BY <2>1, GotSame DEF i, x, y
<1>7. CASE t = "false"
  <2>1. x = Got(Item("bool", <<0>>), p) /\ y = x
    BY <1>7, Zenon DEF value_of_type
  <2> DEFINE i == Item("bool", <<0>>)
  <2> HIDE DEF i, x, y
  <2>2. QED
    BY <2>1, GotSame DEF i, x, y
<1>8. CASE t = "none"
  <2>1. x = Got(Item("none", <<>>), p) /\ y = x
    BY <1>8, Zenon DEF value_of_type
  <2> DEFINE i == Item("none", <<>>)
  <2> HIDE DEF i, x, y
  <2>2. QED
    BY <2>1, GotSame DEF i, x, y
<1>9. CASE t \notin {"ref", "int", "str", "float", "bytes", "true", "false", "none"}
  <2>1. x = Fail
    BY <1>9, Zenon DEF value_of_type
  <2>2. QED
    BY <2>1, FailSame
<1>10. QED
  BY <1>1, <1>2, <1>3, <1>4, <1>5, <1>6, <1>7, <1>8, <1>9

LEMMA RawValueSame ==
  ASSUME NEW w, NEW w2, CutOf(w2, w), NEW p \in Nat
  PROVE  Same(decode_raw_value(w2, p), decode_raw_value(w, p))
<1> DEFINE a == Take(w2, p, 1)
           b == Take(w, p, 1)
           Type(kind) == IF kind \in {<<i>> : i \in 0..9} THEN Types[kind[1] + 1] ELSE "unknown"
           x == value_of_type(w2, Type(a.v), a.p)
           y == value_of_type(w, Type(b.v), b.p)
<1>1. decode_raw_value(w2, p) = IF a.p = 0 THEN Fail ELSE x
  BY DEF decode_raw_value, Then
<1>2. decode_raw_value(w, p) = IF b.p = 0 THEN Fail ELSE y
  BY DEF decode_raw_value, Then
<1>3. Same(a, b)
  BY TakeSame
<1> HIDE DEF a, b, Type
<1>4. ASSUME a.p # 0, b = a
      PROVE  Same(x, y)
  <2>1. a.p \in Nat \ {0}
    BY <1>3, <1>4 DEF Same
  <2>2. QED
    BY <1>4, <2>1, ValueSame
<1> HIDE DEF x, y
<1>5. QED
  BY <1>1, <1>2, <1>3, <1>4, ThenSame

(* One turn of the two loops of the decoder: an item of a container of     *)
(* type c, or, of a heap, a container.                                     *)
KeyAt(w, c, p) == IF c = "dict" THEN str_from_bytes(w, p) ELSE Got(<<>>, p)
KeysWith(c, keys, key) == IF c = "dict" THEN Append(keys, key) ELSE <<>>
WithItem(c, node, key, item) ==
  Got(Node(c, KeysWith(c, node.keys, key.v), Append(node.items, item.v)), item.p)
ItemTurn(w, c, node, p) ==
  LET key == KeyAt(w, c, p)
      item == decode_raw_value(w, key.p)
  IN  IF key.p = 0 THEN Fail ELSE IF item.p = 0 THEN Fail ELSE WithItem(c, node, key, item)
HeapTurn(w, heap, p) ==
  LET node == decode_object(w, p)
  IN  IF node.p = 0 THEN Fail ELSE Got(Append(heap, node.v), node.p)
Turn(w, c, v, p) == IF c = "heap" THEN HeapTurn(w, v, p) ELSE ItemTurn(w, c, v, p)

Turns(f, w, c, n, start) ==
  f = [i \in 0..n |-> IF i = 0 THEN start
                      ELSE IF f[i - 1].p = 0 THEN Fail ELSE Turn(w, c, f[i - 1].v, f[i - 1].p)]

LEMMA TurnsExist ==
  ASSUME NEW w, NEW c, NEW n \in Nat, NEW start
  PROVE  \E f : Turns(f, w, c, n, start)
<1> DEFINE After(r) == IF r.p = 0 THEN Fail ELSE Turn(w, c, r.v, r.p)
           T == {m \in 0..n : \E f : Turns(f, w, c, m, start)}
<1> HIDE DEF After
<1>0. \A f, m : Turns(f, w, c, m, start) <=> f = [i \in 0..m |-> IF i = 0 THEN start ELSE After(f[i - 1])]
  BY DEF Turns, After
<1>1. 0 \in T
  <2> DEFINE f == [i \in 0..0 |-> start]
  <2>1. f = [i \in 0..0 |-> IF i = 0 THEN start ELSE After(f[i - 1])]
    OBVIOUS
  <2> HIDE DEF f
  <2>2. Turns(f, w, c, 0, start)
    BY <1>0, <2>1
  <2>3. QED
    BY <2>2
<1>2. ASSUME NEW m \in 0..n, m \in T, m < n
      PROVE  m + 1 \in T
  <2>1. PICK f : Turns(f, w, c, m, start)
    BY <1>2
  <2>2. f = [i \in 0..m |-> IF i = 0 THEN start ELSE After(f[i - 1])]
    BY <1>0, <2>1
  <2> DEFINE g == [i \in 0..m + 1 |-> IF i <= m THEN f[i] ELSE After(f[m])]
  <2>3. ASSUME NEW i \in 0..m + 1
        PROVE  g[i] = IF i = 0 THEN start ELSE After(g[i - 1])
    <3>1. CASE i = 0
      BY <2>2, <3>1
    <3>2. CASE i = m + 1
      <4>1. g[i - 1] = f[m] /\ g[i] = After(f[m]) /\ i # 0
        BY <3>2
      <4>2. QED
        BY <4>1
    <3>3. CASE i # 0 /\ i # m + 1
      <4>1. g[i - 1] = f[i - 1] /\ g[i] = f[i] /\ i \in 0..m
        BY <3>3
      <4>2. f[i] = After(f[i - 1])
        BY <2>2, <3>3, <4>1
      <4>3. QED
        BY <3>3, <4>1, <4>2
    <3>4. QED
      BY <3>1, <3>2, <3>3
  <2>4. g = [i \in 0..m + 1 |-> IF i = 0 THEN start ELSE After(g[i - 1])]
    BY <2>3, Zenon
  <2> HIDE DEF g
  <2>5. Turns(g, w, c, m + 1, start)
    BY <1>0, <2>4
  <2>6. m + 1 \in 0..n
    BY <1>2
  <2>7. QED
    BY <2>5, <2>6
<1>3. 0..n \subseteq T
  <2> HIDE DEF T
  <2>1. QED
    BY <1>1, <1>2, UpTo
<1>4. n \in 0..n
  OBVIOUS
<1>5. QED
  BY <1>3, <1>4

Loop(w, c, n, start) == (CHOOSE f : Turns(f, w, c, n, start))[n]

LEMMA LoopSame ==
  ASSUME NEW w, NEW w2, NEW c, NEW n \in Nat, NEW v, NEW p \in Nat \ {0},
         ASSUME NEW u, NEW q \in Nat \ {0}
         PROVE  Same(Turn(w2, c, u, q), Turn(w, c, u, q))
  PROVE  Same(Loop(w2, c, n, Got(v, p)), Loop(w, c, n, Got(v, p)))
<1> DEFINE start == Got(v, p)
           f == CHOOSE f : Turns(f, w2, c, n, start)
           g == CHOOSE g : Turns(g, w, c, n, start)
           U == {i \in 0..n : Same(f[i], g[i])}
<1>1. Turns(f, w2, c, n, start) /\ Turns(g, w, c, n, start)
  BY TurnsExist
<1>2. Loop(w2, c, n, start) = f[n] /\ Loop(w, c, n, start) = g[n]
  BY DEF Loop
<1>3. Same(start, start)
  BY GotSame
<1> HIDE DEF f, g, start
<1> DEFINE A(i) == Turn(w2, c, f[i - 1].v, f[i - 1].p)
           B(i) == Turn(w, c, g[i - 1].v, g[i - 1].p)
<1>4. \A i \in 0..n : f[i] = IF i = 0 THEN start ELSE IF f[i - 1].p = 0 THEN Fail ELSE A(i)
  BY <1>1, Zenon DEF Turns
<1>5. \A i \in 0..n : g[i] = IF i = 0 THEN start ELSE IF g[i - 1].p = 0 THEN Fail ELSE B(i)
  BY <1>1, Zenon DEF Turns
<1>6. 0 \in U
  <2>1. 0 \in 0..n
    OBVIOUS
  <2>2. f[0] = start /\ g[0] = start
    BY <1>4, <1>5, <2>1, Zenon
  <2>3. QED
    BY <1>3, <2>1, <2>2
<1>7. ASSUME NEW i \in 0..n, i \in U, i < n
      PROVE  i + 1 \in U
  <2>1. i + 1 \in 0..n /\ i + 1 # 0 /\ i + 1 - 1 = i
    BY <1>7
  <2> DEFINE a == f[i]
             b == g[i]
             x == Turn(w2, c, a.v, a.p)
             y == Turn(w, c, b.v, b.p)
  <2>2. f[i + 1] = IF a.p = 0 THEN Fail ELSE x
    BY <1>4, <2>1
  <2>3. g[i + 1] = IF b.p = 0 THEN Fail ELSE y
    BY <1>5, <2>1
  <2>4. Same(a, b)
    BY <1>7
  <2> HIDE DEF a, b
  <2>5. ASSUME a.p # 0, b = a
        PROVE  Same(x, y)
    <3>1. a.p \in Nat \ {0}
      BY <2>4, <2>5 DEF Same
    <3>2. QED
      BY <2>5, <3>1
  <2> HIDE DEF x, y
  <2>6. Same(f[i + 1], g[i + 1])
    BY <2>2, <2>3, <2>4, <2>5, ThenSame
  <2>7. QED
    BY <2>1, <2>6
<1>8. 0..n \subseteq U
  <2> HIDE DEF U
  <2>1. QED
    BY <1>6, <1>7, UpTo
<1>9. n \in U
  BY <1>8
<1>10. QED
  BY <1>2, <1>9 DEF start

LEMMA ItemTurnSame ==
  ASSUME NEW w, NEW w2, CutOf(w2, w), NEW c, NEW node, NEW p \in Nat \ {0}
  PROVE  Same(ItemTurn(w2, c, node, p), ItemTurn(w, c, node, p))
<1> DEFINE a == KeyAt(w2, c, p)
           b == KeyAt(w, c, p)
           d == decode_raw_value(w2, a.p)
           e == decode_raw_value(w, b.p)
           u == WithItem(c, node, a, d)
           v == WithItem(c, node, b, e)
           x == IF d.p = 0 THEN Fail ELSE u
           y == IF e.p = 0 THEN Fail ELSE v
<1>1. ItemTurn(w2, c, node, p) = IF a.p = 0 THEN Fail ELSE x
  BY DEF ItemTurn
<1>2. ItemTurn(w, c, node, p) = IF b.p = 0 THEN Fail ELSE y
  BY DEF ItemTurn
<1>3. Same(a, b)
  <2>1. CASE c = "dict"
    <3>1. a = str_from_bytes(w2, p) /\ b = str_from_bytes(w, p)
      BY <2>1 DEF KeyAt
    <3> HIDE DEF a, b
    <3>2. QED
      BY <3>1, StrSame
  <2>2. CASE c # "dict"
    <3>1. a = Got(<<>>, p) /\ b = Got(<<>>, p)
      BY <2>2 DEF KeyAt
    <3> DEFINE none == <<>>
    <3>2. a = Got(none, p) /\ b = Got(none, p)
      BY <3>1
    <3> HIDE DEF a, b, none
    <3>3. QED
      BY <3>2, GotSame
  <2>3. QED
    BY <2>1, <2>2
<1> HIDE DEF a, b
<1>4. ASSUME a.p # 0, b = a
      PROVE  Same(x, y)
  <2>1. a.p \in Nat
    BY <1>3, <1>4 DEF Same
  <2>2. Same(d, e)
    BY <1>4, <2>1, RawValueSame
  <2> HIDE DEF d, e
  <2>3. ASSUME d.p # 0, e = d
        PROVE  Same(u, v)
    <3>1. d.p \in Nat \ {0}
      BY <2>2, <2>3 DEF Same
    <3>2. QED
      BY <1>4, <2>3, <3>1, GotSame DEF WithItem
  <2> HIDE DEF u, v
  <2>4. QED
    BY <2>2, <2>3, ThenSame
<1> HIDE DEF x, y
<1>5. QED
  BY <1>1, <1>2, <1>3, <1>4, ThenSame

Container(kind) == IF kind = <<2>> THEN "dict" ELSE "list"
Empty(c) == Node(c, <<>>, <<>>)

LEMMA ObjectIs ==
  ASSUME NEW w, NEW p
  PROVE  LET kind == Take(w, p, 1)
             c == Container(kind.v)
             length == Number(w, kind.p)
         IN  decode_object(w, p) =
               IF kind.p = 0 THEN Fail
               ELSE IF kind.v \in {<<2>>, <<3>>}
                    THEN IF length.p = 0 THEN Fail ELSE Loop(w, c, length.v, Got(Empty(c), length.p))
                    ELSE Fail
<1> DEFINE kind == Take(w, p, 1)
           c == Container(kind.v)
           length == Number(w, kind.p)
<1>1. c # "heap"
  BY DEF Container
<1> DEFINE Stepped(r) == IF r.p = 0 THEN Fail ELSE ItemTurn(w, c, r.v, r.p)
           start == Got(Empty(c), length.p)
           n == length.v
<1>2. decode_object(w, p) =
        IF kind.p = 0 THEN Fail
        ELSE IF kind.v \in {<<2>>, <<3>>}
             THEN IF length.p = 0 THEN Fail
                  ELSE (CHOOSE f : f = [i \in 0..n |-> IF i = 0 THEN start ELSE Stepped(f[i - 1])])[n]
             ELSE Fail
  BY DEF decode_object, Then, Repeat, ItemTurn, KeyAt, KeysWith, WithItem, Container, Empty
<1>3. \A r : Stepped(r) = IF r.p = 0 THEN Fail ELSE Turn(w, c, r.v, r.p)
  BY <1>1 DEF Turn
<1> HIDE DEF kind, c, length, start, n
<1>4. \A f : Turns(f, w, c, n, start) <=> f = [i \in 0..n |-> IF i = 0 THEN start ELSE Stepped(f[i - 1])]
  BY <1>3 DEF Turns
<1>5. Loop(w, c, n, start) = (CHOOSE f : f = [i \in 0..n |-> IF i = 0 THEN start ELSE Stepped(f[i - 1])])[n]
  BY <1>4, ZenonT(40) DEF Loop
<1>6. QED
  BY <1>2, <1>5 DEF kind, c, length, start, n

LEMMA ObjectSame ==
  ASSUME NEW w, NEW w2, CutOf(w2, w), NEW p \in Nat
  PROVE  Same(decode_object(w2, p), decode_object(w, p))
<1> DEFINE a == Take(w2, p, 1)
           b == Take(w, p, 1)
           d == Number(w2, a.p)
           e == Number(w, b.p)
           c == Container(a.v)
           u == Loop(w2, c, d.v, Got(Empty(c), d.p))
           v == Loop(w, Container(b.v), e.v, Got(Empty(Container(b.v)), e.p))
           i == IF d.p = 0 THEN Fail ELSE u
           j == IF e.p = 0 THEN Fail ELSE v
           x == IF a.v \in {<<2>>, <<3>>} THEN i ELSE Fail
           y == IF b.v \in {<<2>>, <<3>>} THEN j ELSE Fail
<1>1. decode_object(w2, p) = IF a.p = 0 THEN Fail ELSE x
  BY ObjectIs
<1>2. decode_object(w, p) = IF b.p = 0 THEN Fail ELSE y
  BY ObjectIs
<1>3. Same(a, b)
  BY TakeSame
<1>0. c # "heap"
  BY DEF Container
<1> HIDE DEF a, b, c
<1>4. ASSUME a.p # 0, b = a
      PROVE  Same(x, y)
  <2>1. a.p \in Nat
    BY <1>3, <1>4 DEF Same
  <2>2. Same(d, e) /\ (d.p # 0 => d.v \in Nat)
    BY <1>4, <2>1, NumberSame
  <2>c. Container(b.v) = c
    BY <1>4 DEF c
  <2> HIDE DEF d, e
  <2>3. ASSUME d.p # 0, e = d
        PROVE  Same(u, v)
    <3>1. d.p \in Nat \ {0} /\ d.v \in Nat
      BY <2>2, <2>3 DEF Same
    <3>2. ASSUME NEW r, NEW q \in Nat \ {0}
          PROVE  Same(Turn(w2, c, r, q), Turn(w, c, r, q))
      BY <1>0, ItemTurnSame DEF Turn
    <3>3. Same(u, Loop(w, c, d.v, Got(Empty(c), d.p)))
      <4> DEFINE n == d.v
                 start == Empty(c)
                 at1 == d.p
      <4> HIDE DEF n, start, at1
      <4>1. n \in Nat /\ at1 \in Nat \ {0}
        BY <3>1 DEF n, at1
      <4>2. Same(Loop(w2, c, n, Got(start, at1)), Loop(w, c, n, Got(start, at1)))
        BY <3>2, <4>1, LoopSame
      <4>3. QED
        BY <4>2 DEF n, start, at1
    <3>4. QED
      BY <2>3, <2>c, <3>3
  <2> HIDE DEF u, v
  <2>4. Same(i, j)
    BY <2>2, <2>3, ThenSame
  <2> DEFINE known == a.v \in {<<2>>, <<3>>}
  <2>5. x = (IF known THEN i ELSE Fail) /\ y = IF known THEN j ELSE Fail
    BY <1>4
  <2> HIDE DEF i, j, x, y, known
  <2>6. QED
    BY <2>4, <2>5, FailSame
<1> HIDE DEF x, y
<1>5. QED
  BY <1>1, <1>2, <1>3, <1>4, ThenSame

LEMMA HeapTurnSame ==
  ASSUME NEW w, NEW w2, CutOf(w2, w), NEW heap, NEW p \in Nat \ {0}
  PROVE  Same(HeapTurn(w2, heap, p), HeapTurn(w, heap, p))
<1> DEFINE a == decode_object(w2, p)
           b == decode_object(w, p)
           x == Got(Append(heap, a.v), a.p)
           y == Got(Append(heap, b.v), b.p)
<1>1. HeapTurn(w2, heap, p) = IF a.p = 0 THEN Fail ELSE x
  BY DEF HeapTurn
<1>2. HeapTurn(w, heap, p) = IF b.p = 0 THEN Fail ELSE y
  BY DEF HeapTurn
<1>3. Same(a, b)
  BY ObjectSame
<1> HIDE DEF a, b
<1>4. ASSUME a.p # 0, b = a
      PROVE  Same(x, y)
  <2>1. a.p \in Nat \ {0}
    BY <1>3, <1>4 DEF Same
  <2>2. QED
    BY <1>4, <2>1, GotSame
<1> HIDE DEF x, y
<1>5. QED
  BY <1>1, <1>2, <1>3, <1>4, ThenSame

(* decode, as far as the value at the root, the length of the pool, and    *)
(* the pool.                                                               *)
RootOf(w) ==
  LET magic == Take(w, 1, 3)
  IN  IF magic.p = 0 THEN Fail
      ELSE IF magic.v = MAGIC THEN decode_raw_value(w, magic.p) ELSE Fail
LengthOf(w) == IF RootOf(w).p = 0 THEN Fail ELSE Number(w, RootOf(w).p)
PoolOf(w) ==
  IF LengthOf(w).p = 0 THEN Fail
  ELSE Loop(w, "heap", LengthOf(w).v, Got(<<>>, LengthOf(w).p))

LEMMA DecodeIs ==
  ASSUME NEW w
  PROVE  decode(w) = PoolOf(w).v
<1> DEFINE length == LengthOf(w)
           n == length.v
           start == Got(<<>>, length.p)
           Stepped(r) == IF r.p = 0 THEN Fail ELSE HeapTurn(w, r.v, r.p)
<1>1. decode(w) =
        (IF length.p = 0 THEN Fail
         ELSE (CHOOSE f : f = [i \in 0..n |-> IF i = 0 THEN start ELSE Stepped(f[i - 1])])[n]).v
  BY DEF decode, Then, Repeat, HeapTurn, RootOf, LengthOf
<1>2. \A r : Stepped(r) = IF r.p = 0 THEN Fail ELSE Turn(w, "heap", r.v, r.p)
  BY DEF Turn
<1> HIDE DEF length, start, n
<1>3. \A f : Turns(f, w, "heap", n, start) <=> f = [i \in 0..n |-> IF i = 0 THEN start ELSE Stepped(f[i - 1])]
  BY <1>2 DEF Turns
<1>4. Loop(w, "heap", n, start) = (CHOOSE f : f = [i \in 0..n |-> IF i = 0 THEN start ELSE Stepped(f[i - 1])])[n]
  BY <1>3, ZenonT(40) DEF Loop
<1>5. PoolOf(w) = IF length.p = 0 THEN Fail ELSE Loop(w, "heap", n, start)
  BY DEF PoolOf, length, start, n
<1>6. QED
  BY <1>1, <1>4, <1>5

LEMMA PoolSame ==
  ASSUME NEW w, NEW w2, CutOf(w2, w)
  PROVE  Same(PoolOf(w2), PoolOf(w))
<1>1. Same(RootOf(w2), RootOf(w))
  <2> DEFINE a == Take(w2, 1, 3)
             b == Take(w, 1, 3)
             x == IF a.v = MAGIC THEN decode_raw_value(w2, a.p) ELSE Fail
             y == IF b.v = MAGIC THEN decode_raw_value(w, b.p) ELSE Fail
  <2>1. RootOf(w2) = IF a.p = 0 THEN Fail ELSE x
    BY DEF RootOf
  <2>2. RootOf(w) = IF b.p = 0 THEN Fail ELSE y
    BY DEF RootOf
  <2>3. Same(a, b)
    BY TakeSame
  <2> HIDE DEF a, b
  <2>4. ASSUME a.p # 0, b = a
        PROVE  Same(x, y)
    <3>1. a.p \in Nat
      BY <2>3, <2>4 DEF Same
    <3>2. Same(decode_raw_value(w2, a.p), decode_raw_value(w, a.p))
      BY <3>1, RawValueSame
    <3>3. QED
      BY <2>4, <3>2, FailSame
  <2> HIDE DEF x, y
  <2>5. QED
    BY <2>1, <2>2, <2>3, <2>4, ThenSame
<1>2. Same(LengthOf(w2), LengthOf(w)) /\ (LengthOf(w2).p # 0 => LengthOf(w2).v \in Nat)
  <2> DEFINE a == RootOf(w2)
             b == RootOf(w)
             x == Number(w2, a.p)
             y == Number(w, b.p)
  <2>1. LengthOf(w2) = IF a.p = 0 THEN Fail ELSE x
    BY DEF LengthOf
  <2>2. LengthOf(w) = IF b.p = 0 THEN Fail ELSE y
    BY DEF LengthOf
  <2> HIDE DEF a, b
  <2>3. ASSUME a.p # 0, b = a
        PROVE  Same(x, y) /\ (x.p # 0 => x.v \in Nat)
    <3>1. a.p \in Nat
      BY <1>1 DEF Same, a
    <3>2. QED
      BY <2>3, <3>1, NumberSame
  <2>4. Same(a, b)
    BY <1>1 DEF a, b
  <2> HIDE DEF x, y
  <2>5. Same(LengthOf(w2), LengthOf(w))
    BY <2>1, <2>2, <2>3, <2>4, ThenSame
  <2>6. ASSUME LengthOf(w2).p # 0
        PROVE  LengthOf(w2).v \in Nat
    <3>1. a.p # 0 /\ LengthOf(w2) = x
      BY <2>1, <2>6 DEF Fail, Got
    <3>2. b = a
      BY <2>4, <3>1 DEF Same
    <3>3. QED
      BY <2>3, <2>6, <3>1, <3>2
  <2>7. QED
    BY <2>5, <2>6
<1> DEFINE a == LengthOf(w2)
           b == LengthOf(w)
           none == <<>>
           x == Loop(w2, "heap", a.v, Got(none, a.p))
           y == Loop(w, "heap", b.v, Got(none, b.p))
<1>3. PoolOf(w2) = IF a.p = 0 THEN Fail ELSE x
  BY DEF PoolOf
<1>4. PoolOf(w) = IF b.p = 0 THEN Fail ELSE y
  BY DEF PoolOf
<1>5. Same(a, b) /\ (a.p # 0 => a.v \in Nat)
  BY <1>2
<1> HIDE DEF a, b, none
<1>6. ASSUME a.p # 0, b = a
      PROVE  Same(x, y)
  <2> DEFINE n == a.v
             q == a.p
  <2> HIDE DEF n, q
  <2>1. q \in Nat \ {0} /\ n \in Nat
    BY <1>5, <1>6 DEF Same, q, n
  <2>2. ASSUME NEW r, NEW z \in Nat \ {0}
        PROVE  Same(Turn(w2, "heap", r, z), Turn(w, "heap", r, z))
    BY HeapTurnSame DEF Turn
  <2>3. Same(Loop(w2, "heap", n, Got(none, q)), Loop(w, "heap", n, Got(none, q)))
    BY <2>1, <2>2, LoopSame
  <2>4. QED
    BY <1>6, <2>3 DEF n, q
<1> HIDE DEF x, y
<1>7. QED
  BY <1>3, <1>4, <1>5, <1>6, ThenSame

LEMMA DecodeCut ==
  ASSUME NEW w, NEW w2, CutOf(w2, w), decode(w2) # Raised
  PROVE  decode(w2) = decode(w)
<1> DEFINE a == PoolOf(w2)
           b == PoolOf(w)
<1>1. decode(w2) = a.v /\ decode(w) = b.v
  BY DecodeIs
<1>2. Same(a, b)
  BY PoolSame
<1> HIDE DEF a, b
<1>3. a.p # 0
  <2>1. Fail.v = Raised
    BY DEF Fail, Got, Raised
  <2>2. QED
    BY <1>1, <1>2, <2>1 DEF Same
<1>4. QED
  BY <1>1, <1>2, <1>3 DEF Same

(* A file or a frame of which a part is missing is not taken for another.  *)
THEOREM CutIsNoticedHolds == FormatsSpec => []CutIsNoticed
<1>1. ASSUME StoreInv, Done("bon"), back # Raised
      PROVE  back = decode(wire)
  <2>1. at = "end" /\ subject.kind = "bon"
    BY <1>1 DEF Done
  <2>2. /\ IsHeap(subject.data) /\ ~ Unencodable(subject.data) /\ wire = encode(subject.data)
        /\ arrived \in 0..Len(wire) \cup {Len(wire) - 1}
        /\ back = decode(SubSeq(wire, 1, arrived))
    BY <1>1, <2>1 DEF StoreInv
  <2>3. wire \in Seq(Byte) /\ Len(wire) > 0 /\ Len(wire) \in Nat
    BY <2>2, EncodedType
  <2>4. arrived \in 0..Len(wire)
    BY <2>2, <2>3
  <2>5. CutOf(SubSeq(wire, 1, arrived), wire)
    BY <2>3, <2>4, Zenon DEF CutOf
  <2>6. QED
    BY <1>1, <2>2, <2>5, DecodeCut
<1>2. ASSUME FrameInv, Done("frame"), arrived < Total
      PROVE  back = NoMessage
  <2>1. at = "end" /\ subject.kind = "frame"
    BY <1>2 DEF Done
  <2>2. /\ IsMessage(subject.data) /\ arrived \in Nat /\ wire = writeMessage(subject.data)
        /\ back = readMessage(wire, subject.data.payload, arrived)
    BY <1>2, <2>1 DEF FrameInv
  <2>3. arrived < HeadLength(subject.data) + subject.data.length
    BY <1>2, <2>1, <2>2, SizeOfFrame
  <2>4. QED
    BY <2>2, <2>3, ReadOf
<1>3. StoreInv /\ FrameInv => CutIsNoticed
  BY <1>1, <1>2 DEF CutIsNoticed
<1>4. QED
  BY <1>3, StoreInvAlways, FrameInvAlways, PTL
=============================================================================
