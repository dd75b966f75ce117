---------------------- MODULE HTTPServerConnectionProofs ---------------------
(***************************************************************************)
(* What holds of module HTTPServerConnection for any items that the peer   *)
(* sends and any number of pushes.                                         *)
(***************************************************************************)
EXTENDS HTTPServerConnection, SequenceTheorems, TLAPS

\* The receiver closes the connection only where it can wait for the close; a
\* thread that is past the check has set closed.  A socket that is still open
\* after that has a thread about to close it, and before it upgrades the
\* application only closes of its own accord.
CloseInv ==
  /\ rpc \notin {"denied", "upgrade", "callback", "ending"} => pc["receiver"] = "idle"
  /\ pc["server"] = "idle"
  /\ \A t \in Threads : pc[t] \in {"sock", "listeners"} => closed
  /\ closed /\ sockOpen => pc["receiver"] = "sock" \/ pc["app"] = "sock"
  /\ pc["app"] # "idle" /\ state = "HTTP" => apc = "stopped"

\* The receiver starts when the connection is set up, the application hears of
\* it first.
SetUpInv ==
  /\ spc # "accept" => rpc = "off"
  /\ spc = "onConnection" => apc = "none"

\* Items that were looked at: the receiver stays at one while it answers it.
Handled == IF rpc \in {"denied", "upgrade", "add", "callback"} THEN done + 1 ELSE done

LayerInv ==
  /\ layer = "WS" => \E k \in 1..Handled : script[k].t = "wsReq"
  /\ layer # "HTTP" => rpc \notin {"denied", "upgrade"}
  /\ layer = "SSE" => rpc # "inner"
  /\ layer = "TCP" <=> rpc = "add"
  /\ state = IF layer = "TCP" THEN "HTTP" ELSE layer
  /\ rpc \in {"upgrade", "add"} => Item.t \in {"wsReq", "sseReq"}

\* Until the upgrade, every item that was handled is a request that was answered.
AnswersInv ==
  layer = "HTTP" =>
    /\ \A i \in DOMAIN outbound : outbound[i][1] # "push"
    /\ ~closed /\ rpc \notin {"denied", "upgrade"} /\ pc["receiver"] = "idle" =>
         Len(outbound) = Handled /\ \A i \in DOMAIN outbound : outbound[i][1] = "200"

\* The answer that switches protocols is on the wire before anything is pushed,
\* unless it could not be sent, and then nothing can.
Sent(data) == \E i \in DOMAIN outbound : outbound[i][1] = data
Mute == apc = "stopped" \/ ~sockOpen
SwitchInv ==
  /\ rpc = "upgrade" =>
       \/ Sent(IF Item.t = "wsReq" THEN "101" ELSE "stream")
       \/ pc["receiver"] \in {"check", "sock"} \/ Mute
  /\ rpc = "add" => Sent(IF Item.t = "wsReq" THEN "101" ELSE "stream") \/ Mute
  /\ layer \in DOMAIN Switched => Sent(Switched[layer]) \/ Mute

\* The frames that are kept follow what was delivered, and nothing for the
\* application lies between them and what comes next.
Tip == IF dataBuffer = <<>> THEN EndOf(Len(delivered)) ELSE dataBuffer[Len(dataBuffer)]

AssemblyInv ==
  /\ \A k \in 1..Len(dataBuffer) :
       /\ Follows(IF k = 1 THEN EndOf(Len(delivered)) ELSE dataBuffer[k - 1], dataBuffer[k])
       /\ dataBuffer[k] \in DOMAIN script /\ ForApplication(dataBuffer[k])
       /\ ~script[dataBuffer[k]].fin
  /\ Tip <= Handled
  /\ ~closed => \A i \in (Tip + 1)..Handled : ~ForApplication(i)

IInv ==
  /\ TypeOK /\ SetUpInv /\ CloseInv /\ LayerInv
  /\ AnswersInv /\ SwitchInv /\ Conversation
  /\ AssemblyInv /\ MessagesAssembled

----------------------------------------------------------------------------
(* Facts about the script.                                                  *)

LEMMA ItemTyped ==
  ASSUME script \in Scripts, NEW i \in 1..Len(script)
  PROVE  /\ script[i] \in Items /\ DOMAIN script = 1..Len(script) /\ Len(script) \in Nat
         /\ script[i].t = "frame" <=> \E j \in 1..(i - 1) : script[j].t = "wsReq"
         /\ script[i].t \in Requests \cup {"frame"}
         /\ script[i].op \in Opcodes \cup {"none"}
         /\ script[i].t = "frame" <=> script[i].op # "none"
         /\ script[i].t # "frame" => script[i].fin = TRUE
         /\ script[i].fin \in BOOLEAN
<1>1. script \in Seq(Items) /\ DOMAIN script = 1..Len(script) /\ Len(script) \in Nat
  BY ScriptsAssumption, LenProperties
<1>2. script[i] \in Items
  BY <1>1, ElementOfSeq
<1>3. script[i].t = "frame" <=> \E j \in 1..(i - 1) : script[j].t = "wsReq"
  BY <1>1, ScriptsAssumption
<1>4. /\ script[i].t \in Requests \cup {"frame"} /\ script[i].op \in Opcodes \cup {"none"}
      /\ script[i].t = "frame" <=> script[i].op # "none"
      /\ script[i].t # "frame" => script[i].fin = TRUE
      /\ script[i].fin \in BOOLEAN
  <2>1. CASE \E r \in Requests : script[i] = Request(r)
    <3>1. PICK r \in Requests : script[i] = Request(r)
      BY <2>1
    <3>2. r # "frame"
      BY DEF Requests
    <3> QED
      BY <3>1, <3>2 DEF Request
  <2>2. CASE \E op \in Opcodes, fin \in BOOLEAN : script[i] = Frame(op, fin)
    <3>1. PICK op \in Opcodes, fin \in BOOLEAN : script[i] = Frame(op, fin)
      BY <2>2
    <3>2. op # "none"
      BY DEF Opcodes
    <3> QED
      BY <3>1, <3>2 DEF Frame
  <2>3. \/ \E r \in Requests : script[i] = Request(r)
        \/ \E op \in Opcodes, fin \in BOOLEAN : script[i] = Frame(op, fin)
    BY <1>2 DEF Items
  <2> QED
    BY <2>1, <2>2, <2>3
<1> QED
  BY <1>1, <1>2, <1>3, <1>4

LEMMA ItemNow ==
  ASSUME TypeOK, done < received
  PROVE  /\ done + 1 \in 1..Len(script) /\ Len(script) \in Nat
         /\ Item.t \in Requests \cup {"frame"}
         /\ Item.op \in Opcodes \cup {"none"}
         /\ Item.t = "frame" <=> Item.op # "none"
         /\ Item.t # "frame" => Item.fin = TRUE
         /\ Item.t = "frame" <=> \E j \in 1..done : script[j].t = "wsReq"
         /\ ForApplication(done + 1) <=> (Item.t = "get" \/ Item.op \in {"text", "binary"})
<1>1. Len(script) \in Nat
  BY ScriptsAssumption, LenProperties DEF TypeOK
<1>2. done + 1 \in 1..Len(script) /\ (done + 1) - 1 = done
  BY <1>1 DEF TypeOK
<1>3. script \in Scripts
  BY DEF TypeOK
<1> QED
  BY <1>1, <1>2, <1>3, ItemTyped DEF Item, ForApplication

LEMMA SendTyped ==
  ASSUME TypeOK, NEW t \in Threads, NEW data \in Data, SendOrClose(t, data)
  PROVE  /\ outbound' \in Seq(Data \X Layers)
         /\ pc' \in [Threads -> {"idle", "check", "sock", "listeners"}]
         /\ \A u \in Threads : u # t => pc'[u] = pc[u]
         /\ \/ sockOpen /\ outbound' = Append(outbound, <<data, layer>>) /\ pc' = pc
            \/ outbound' = outbound /\ pc' = [pc EXCEPT ![t] = "check"] /\ pc'[t] = "check"
<1>1. outbound \in Seq(Data \X Layers) /\ <<data, layer>> \in Data \X Layers
  BY DEF TypeOK
<1>2. Append(outbound, <<data, layer>>) \in Seq(Data \X Layers)
  BY <1>1, AppendProperties
<1> QED
  BY <1>1, <1>2 DEF SendOrClose, BeginClose, TypeOK

\* What an appended answer changes.
LEMMA Appended ==
  ASSUME TypeOK, NEW x \in Data \X Layers, outbound' = Append(outbound, x)
  PROVE  /\ Len(outbound) \in Nat /\ Len(outbound') = Len(outbound) + 1
         /\ DOMAIN outbound = 1..Len(outbound) /\ DOMAIN outbound' = 1..(Len(outbound) + 1)
         /\ outbound'[Len(outbound) + 1] = x
         /\ \A i \in 1..Len(outbound) : outbound'[i] = outbound[i]
<1>1. outbound \in Seq(Data \X Layers)
  BY DEF TypeOK
<1>2. outbound' \in Seq(Data \X Layers)
  BY <1>1, AppendProperties
<1> QED
  BY <1>1, <1>2, AppendProperties, LenProperties

----------------------------------------------------------------------------
(* The types.                                                               *)

LEMMA DeliverTyped ==
  ASSUME TypeOK, NEW kind \in {"request", "text", "binary"}, NEW earlier \in Seq(Nat),
         Deliver(kind, earlier)
  PROVE  delivered' \in Seq([kind : {"request", "text", "binary"}, parts : Seq(Nat)])
<1>1. done + 1 \in Nat
  BY ScriptsAssumption, LenProperties DEF TypeOK
<1>2. Append(earlier, done + 1) \in Seq(Nat)
  BY <1>1, AppendProperties
<1>3. [kind |-> kind, parts |-> Append(earlier, done + 1)]
        \in [kind : {"request", "text", "binary"}, parts : Seq(Nat)]
  BY <1>2
<1> QED
  BY <1>3, AppendProperties DEF Deliver, TypeOK

LEMMA ClosingTyped ==
  ASSUME TypeOK, NEW t \in Threads, NEW where \in {"idle", "check", "sock", "listeners"},
         pc' = [pc EXCEPT ![t] = where]
  PROVE  pc' \in [Threads -> {"idle", "check", "sock", "listeners"}]
BY DEF TypeOK

LEMMA TypeKept ==
  ASSUME TypeOK, [Next]_vars
  PROVE  TypeOK'
<1>1. CASE UNCHANGED vars
  BY <1>1 DEF TypeOK, vars, socket, server, upgrade, ws, app
<1>2. CASE Serve
  <2>1. CASE OnConnection
    BY <2>1 DEF TypeOK, OnConnection, socket, server, upgrade, ws, app
  <2>2. CASE AppendListener
    BY <2>2 DEF TypeOK, AppendListener, socket, server, upgrade, ws, app
  <2>3. CASE AppendConnection
    BY <2>3 DEF TypeOK, AppendConnection, socket, server, upgrade, ws, app
  <2>4. CASE StartRecv
    BY <2>4 DEF TypeOK, StartRecv, socket, server, upgrade, ws, app
  <2> QED
    BY <1>2, <2>1, <2>2, <2>3, <2>4 DEF Serve
<1>3. CASE CheckLoop \/ EnterRecv \/ EndReceive \/ NeedMoreData \/ ReadLineRaises \/ StopScanning
           \/ Unpack \/ ReceiveEmpty \/ ReceiveAborted
  <2>1. pc' \in [Threads -> {"idle", "check", "sock", "listeners"}]
    <3>1. pc' = pc \/ BeginClose("receiver")
      BY <1>3 DEF CheckLoop, EnterRecv, EndReceive, NeedMoreData, ReadLineRaises,
         StopScanning, Unpack, ReceiveEmpty, ReceiveAborted
    <3> QED
      BY <3>1, ClosingTyped DEF BeginClose, Threads, TypeOK
  <2>2. \E from, to \in {"loop", "recv", "blocked", "scan", "inner", "ending", "done", "dead"} :
          OuterStep(from, to) /\ (to = "inner" => Buffered)
    BY <1>3 DEF CheckLoop, EnterRecv, EndReceive, NeedMoreData, ReadLineRaises,
       StopScanning, Unpack, ReceiveEmpty, ReceiveAborted
  <2> QED
    BY <2>1, <2>2 DEF TypeOK, OuterStep, Buffered, socket, server, upgrade, ws, app
<1>4. CASE \E n \in 0..Len(script), cut \in Cuts \cup {"none"} : ReceiveData(n, cut)
  <2>1. Len(script) \in Nat
    BY ScriptsAssumption, LenProperties DEF TypeOK
  <2> QED
    BY <1>4, <2>1 DEF TypeOK, ReceiveData, socket, server, upgrade, ws, app
<1>5. CASE Cancel \/ ReturnFromCallback
  BY <1>5 DEF TypeOK, Cancel, ReturnFromCallback, Consume, socket, server, upgrade, ws, app
<1>6. CASE (\E status \in {"403", "406"} : Deny(status)) \/ RequireUpgrade \/ Accept
  <2>1. \E data \in Data : SendOrClose("receiver", data)
    BY <1>6 DEF Deny, RequireUpgrade, Accept, Data
  <2>2. /\ outbound' \in Seq(Data \X Layers)
        /\ pc' \in [Threads -> {"idle", "check", "sock", "listeners"}]
    BY <2>1, SendTyped DEF Threads
  <2> QED
    BY <1>6, <2>2 DEF TypeOK, Deny, RequireUpgrade, Accept, Inner, socket, server, upgrade, ws,
       app
<1>7. CASE OnRequest
  <2>1. /\ outbound' \in Seq(Data \X Layers)
        /\ pc' \in [Threads -> {"idle", "check", "sock", "listeners"}]
    BY <1>7, SendTyped DEF OnRequest, Threads, Data
  <2>2. delivered' \in Seq([kind : {"request", "text", "binary"}, parts : Seq(Nat)])
    BY <1>7, DeliverTyped, EmptySeq DEF OnRequest
  <2> QED
    BY <1>7, <2>1, <2>2 DEF TypeOK, OnRequest, Inner, socket, server, upgrade, ws, app
<1>8. CASE CloseDenied \/ CallbackCloses
  BY <1>8, ClosingTyped DEF Threads, TypeOK, CloseDenied, CallbackCloses, BeginClose, socket,
     server, upgrade, ws, app
<1>9. CASE RemoveProtocol \/ AddProtocol
  BY <1>9 DEF TypeOK, RemoveProtocol, AddProtocol, Layers, socket, server, upgrade, ws, app
<1>10. CASE OnFinalFrame
  <2>1. delivered' \in Seq([kind : {"request", "text", "binary"}, parts : Seq(Nat)])
    BY <1>10, DeliverTyped DEF OnFinalFrame, TypeOK
  <2>2. dataBuffer' \in Seq(Nat)
    BY <1>10, EmptySeq DEF OnFinalFrame
  <2> QED
    BY <1>10, <2>1, <2>2 DEF TypeOK, OnFinalFrame, Inner, socket, server, upgrade, ws, app
<1>11. CASE OnPartialFrame
  <2>1. done + 1 \in Nat /\ done < received
    BY <1>11, ScriptsAssumption, LenProperties DEF TypeOK, OnPartialFrame, Inner
  <2>2. dataBuffer' \in Seq(Nat)
    BY <1>11, <2>1, AppendProperties DEF OnPartialFrame, TypeOK
  <2> QED
    BY <1>11, <2>1, <2>2 DEF TypeOK, OnPartialFrame, Consume, Inner, socket, server, upgrade, ws, app
<1>12. CASE CloseWebSocket
  BY <1>12 DEF TypeOK, CloseWebSocket, Consume, Inner, socket, server, upgrade, ws, app
<1>13. CASE Push
  <2>1. /\ outbound' \in Seq(Data \X Layers)
        /\ pc' \in [Threads -> {"idle", "check", "sock", "listeners"}]
    BY <1>13, SendTyped DEF Push, Threads, Data
  <2> QED
    BY <1>13, <2>1, PushesAssumption DEF TypeOK, Push, socket, server, upgrade, ws, app
<1>14. CASE AppCloses
  BY <1>14, ClosingTyped DEF Threads, TypeOK, AppCloses, BeginClose, socket, server, upgrade, ws, app
<1>15. CASE \E t \in Threads : RunClose(t)
  <2>1. PICK t \in Threads : RunClose(t)
    BY <1>15
  <2>2. pc' \in [Threads -> {"idle", "check", "sock", "listeners"}]
    BY <2>1, ClosingTyped DEF RunClose, Close, CloseSocket, RunListeners
  <2>3. /\ sockOpen' \in BOOLEAN /\ closed' \in BOOLEAN /\ listed' \in BOOLEAN
        /\ UNCHANGED <<socket, outbound, spc, listening, rpc, done, upgrade, ws, delivered, app>>
    BY <2>1 DEF TypeOK, RunClose, Close, CloseSocket, RunListeners, server
  <2> QED
    BY <2>2, <2>3 DEF TypeOK, socket, server, upgrade, ws, app
<1> QED
  BY <1>1, <1>2, <1>3, <1>4, <1>5, <1>6, <1>7, <1>8, <1>9, <1>10, <1>11, <1>12, <1>13, <1>14, <1>15
     DEF Next, Receive, PeerActs, OnItem

----------------------------------------------------------------------------
(* The steps of the threads, as far as close() sees them.                   *)

ReceiverMoves ==
  \/ CheckLoop \/ EnterRecv \/ EndReceive \/ NeedMoreData \/ ReadLineRaises \/ StopScanning
  \/ Unpack \/ ReceiveEmpty \/ ReceiveAborted
  \/ \E n \in 0..Len(script), cut \in Cuts \cup {"none"} : ReceiveData(n, cut)
Answers == (\E status \in {"403", "406"} : Deny(status)) \/ RequireUpgrade \/ Accept \/ OnRequest
Frames == OnFinalFrame \/ OnPartialFrame \/ CloseWebSocket
Leaves == Cancel \/ ReturnFromCallback
Closes == CloseDenied \/ CallbackCloses
Upgrade == RemoveProtocol \/ AddProtocol

LEMMA NextSteps ==
  Next <=> \/ Serve \/ ReceiverMoves \/ Answers \/ Frames \/ Leaves \/ Closes \/ Upgrade
           \/ Push \/ AppCloses \/ \E t \in Threads : RunClose(t)
BY DEF Next, Receive, PeerActs, OnItem, ReceiverMoves, Answers, Frames, Leaves, Closes, Upgrade

\* What a step of close() can be.
LEMMA CloseSteps ==
  ASSUME TypeOK, NEW t \in Threads, RunClose(t)
  PROVE  /\ UNCHANGED <<script, received, tail, outbound, spc, listening, rpc, done, state, layer,
                        wsClosed, dataBuffer, delivered, apc, pushes>>
         /\ \A u \in Threads : u # t => pc'[u] = pc[u]
         /\ closed => closed'
         /\ \/ pc[t] = "check" /\ ~closed /\ closed' /\ sockOpen' = sockOpen /\ pc'[t] = "sock"
            \/ pc[t] = "check" /\ closed /\ closed' /\ sockOpen' = sockOpen /\ pc'[t] = "idle"
            \/ pc[t] = "sock" /\ closed' = closed /\ ~sockOpen' /\ pc'[t] = "listeners"
            \/ pc[t] = "listeners" /\ closed' = closed /\ sockOpen' = sockOpen /\ pc'[t] = "idle"
<1>1. UNCHANGED <<script, received, tail, outbound, spc, listening, rpc, done, state, layer,
                  wsClosed, dataBuffer, delivered, apc, pushes>>
  BY DEF RunClose, Close, CloseSocket, RunListeners, socket, server, upgrade, ws, app
<1>2. CASE Close(t)
  BY <1>1, <1>2 DEF Close, TypeOK
<1>3. CASE CloseSocket(t)
  BY <1>1, <1>3 DEF CloseSocket, TypeOK
<1>4. CASE RunListeners(t)
  BY <1>1, <1>4 DEF RunListeners, TypeOK
<1> QED
  BY <1>2, <1>3, <1>4 DEF RunClose

\* What a step of an answer can be: it is at an item that is not a frame.
LEMMA AnswerSteps ==
  ASSUME TypeOK, Answers
  PROVE  /\ rpc = "inner" /\ ~closed /\ done < received
         /\ UNCHANGED <<script, received, tail, sockOpen, spc, listening, listed, done, state, layer,
                        closed, wsClosed, dataBuffer, apc, pushes>>
         /\ pc'["app"] = pc["app"] /\ pc'["server"] = pc["server"]
         /\ \E data \in Data \ {"push"} :
              /\ data \in AnswersTo[Item.t] /\ Item.t # "frame"
              /\ \/ sockOpen /\ outbound' = Append(outbound, <<data, layer>>) /\ pc' = pc
                 \/ outbound' = outbound /\ pc'["receiver"] = "check"
              /\ \/ rpc' = "denied" /\ data # "200" /\ delivered' = delivered
                    /\ Item.t \in {"wsReq", "wsBadVersion", "sseReq"}
                 \/ rpc' = "upgrade" /\ delivered' = delivered
                    /\ Item.t \in {"wsReq", "sseReq"}
                    /\ data = IF Item.t = "wsReq" THEN "101" ELSE "stream"
                 \/ rpc' = "callback" /\ data = "200" /\ Item.t = "get"
                    /\ Deliver("request", <<>>)
<1>1. rpc = "inner" /\ ~closed /\ done < received
  BY DEF Answers, Deny, RequireUpgrade, Accept, OnRequest, Inner, TypeOK
<1>2. UNCHANGED <<script, received, tail, sockOpen, spc, listening, listed, done, state, layer,
                  closed, wsClosed, dataBuffer, apc, pushes>>
  BY DEF Answers, Deny, RequireUpgrade, Accept, OnRequest, socket, server, upgrade, ws, app
<1>3. \E data \in Data \ {"push"} :
        /\ data \in AnswersTo[Item.t] /\ Item.t # "frame"
        /\ SendOrClose("receiver", data)
        /\ \/ rpc' = "denied" /\ data # "200" /\ delivered' = delivered
              /\ Item.t \in {"wsReq", "wsBadVersion", "sseReq"}
           \/ rpc' = "upgrade" /\ delivered' = delivered
              /\ Item.t \in {"wsReq", "sseReq"}
              /\ data = IF Item.t = "wsReq" THEN "101" ELSE "stream"
           \/ rpc' = "callback" /\ data = "200" /\ Item.t = "get"
              /\ Deliver("request", <<>>)
  <2>1. CASE \E status \in {"403", "406"} : Deny(status)
    BY <2>1 DEF Deny, Inner, Data, AnswersTo
  <2>2. CASE RequireUpgrade
    BY <2>2 DEF RequireUpgrade, Inner, Data, AnswersTo
  <2>3. CASE Accept
    BY <2>3 DEF Accept, Inner, Data, AnswersTo
  <2>4. CASE OnRequest
    BY <2>4 DEF OnRequest, Inner, Data, AnswersTo
  <2> QED
    BY <2>1, <2>2, <2>3, <2>4 DEF Answers
<1>4. "receiver" \in Threads /\ "app" \in Threads /\ "server" \in Threads
  BY DEF Threads
<1> QED
  BY <1>1, <1>2, <1>3, <1>4, SendTyped

LEMMA SetUpKept ==
  ASSUME TypeOK, SetUpInv, [Next]_vars
  PROVE  SetUpInv'
<1>1. CASE UNCHANGED vars
  BY <1>1 DEF SetUpInv, vars, server, app
<1>2. CASE Serve
  BY <1>2 DEF SetUpInv, Serve, OnConnection, AppendListener, AppendConnection, StartRecv, app
<1>3. CASE ReceiverMoves
  BY <1>3 DEF SetUpInv, ReceiverMoves, CheckLoop, EnterRecv, EndReceive, NeedMoreData,
     ReadLineRaises, StopScanning, Unpack, ReceiveEmpty, ReceiveAborted, OuterStep, ReceiveData,
     server, app
<1>4. CASE Answers
  BY <1>4, AnswerSteps DEF SetUpInv
<1>5. CASE Frames \/ Leaves \/ Closes \/ Upgrade
  BY <1>5 DEF SetUpInv, Frames, OnFinalFrame, OnPartialFrame, CloseWebSocket, Inner, Consume,
     Leaves, Cancel, ReturnFromCallback, Closes, CloseDenied, CallbackCloses, Upgrade,
     RemoveProtocol, AddProtocol, server, app
<1>6. CASE Push \/ AppCloses
  BY <1>6 DEF SetUpInv, Push, AppCloses, server
<1>7. ASSUME NEW t \in Threads, RunClose(t) PROVE SetUpInv'
  BY <1>7, CloseSteps DEF SetUpInv
<1> QED
  BY <1>1, <1>2, <1>3, <1>4, <1>5, <1>6, <1>7, NextSteps

LEMMA CloseKept ==
  ASSUME IInv, [Next]_vars
  PROVE  CloseInv'
<1>0. /\ "receiver" \in Threads /\ "app" \in Threads /\ "server" \in Threads
      /\ TypeOK /\ SetUpInv /\ CloseInv /\ LayerInv
  BY DEF Threads, IInv
<1>1. CASE UNCHANGED vars
  BY <1>0, <1>1 DEF CloseInv, vars, upgrade, app
<1>2. CASE Serve
  <2>1. UNCHANGED <<sockOpen, closed, state, pc>> /\ rpc' \in {rpc, "loop"}
    BY <1>2 DEF Serve, OnConnection, AppendListener, AppendConnection, StartRecv, upgrade
  <2>2. rpc = "off" /\ pc["receiver"] = "idle"
    BY <1>0, <1>2 DEF Serve, OnConnection, AppendListener, AppendConnection, StartRecv, SetUpInv,
       CloseInv
  <2>3. apc' = apc \/ (apc = "none" /\ apc' = "knows")
    BY <1>0, <1>2 DEF Serve, OnConnection, AppendListener, AppendConnection, StartRecv, SetUpInv, app
  <2> QED
    BY <1>0, <2>1, <2>2, <2>3 DEF CloseInv
<1>3. CASE ReceiverMoves
  <2>1. UNCHANGED <<sockOpen, closed, state, apc>>
    BY <1>3 DEF ReceiverMoves, CheckLoop, EnterRecv, EndReceive, NeedMoreData, ReadLineRaises,
       StopScanning, Unpack, ReceiveEmpty, ReceiveAborted, OuterStep, ReceiveData, upgrade, app
  <2>2. \/ pc' = pc /\ pc["receiver"] = "idle"
        \/ pc' = [pc EXCEPT !["receiver"] = "check"] /\ pc["receiver"] = "idle" /\ rpc' = "ending"
    BY <1>0, <1>3 DEF ReceiverMoves, CheckLoop, EnterRecv, EndReceive, NeedMoreData, ReadLineRaises,
       StopScanning, Unpack, ReceiveEmpty, ReceiveAborted, OuterStep, ReceiveData, BeginClose, CloseInv
  <2> QED
    BY <1>0, <2>1, <2>2 DEF CloseInv, TypeOK
<1>4. CASE Answers
  <2>1. pc["receiver"] = "idle"
    BY <1>0, <1>4, AnswerSteps DEF CloseInv
  <2>2. \A t \in Threads : pc'[t] \in {"sock", "listeners"} => pc[t] \in {"sock", "listeners"}
    BY <1>0, <1>4, AnswerSteps DEF Threads
  <2>3. UNCHANGED <<sockOpen, closed, state, apc>> /\ rpc' \in {"denied", "upgrade", "callback"}
    BY <1>0, <1>4, AnswerSteps
  <2>4. pc'["app"] = pc["app"] /\ pc'["server"] = pc["server"]
    BY <1>0, <1>4, AnswerSteps
  <2> QED
    BY <1>0, <2>1, <2>2, <2>3, <2>4 DEF CloseInv
<1>5. CASE Frames
  BY <1>0, <1>5 DEF CloseInv, Frames, OnFinalFrame, OnPartialFrame, CloseWebSocket, Inner, Consume,
     upgrade, app
<1>6. CASE Leaves
  BY <1>0, <1>6 DEF CloseInv, Leaves, Cancel, ReturnFromCallback, Consume, upgrade, app
<1>7. CASE Closes
  BY <1>0, <1>7 DEF CloseInv, Closes, CloseDenied, CallbackCloses, BeginClose, TypeOK, upgrade, app
<1>8. CASE Upgrade
  <2>1. /\ UNCHANGED <<pc, closed, sockOpen, apc>> /\ pc["receiver"] = "idle"
        /\ rpc' \in {"add", "callback"} /\ (state' = "HTTP" => state = "HTTP")
    BY <1>0, <1>8 DEF CloseInv, LayerInv, Upgrade, RemoveProtocol, AddProtocol, app
  <2> QED
    BY <1>0, <2>1 DEF CloseInv
<1>9. CASE Push
  <2>1. UNCHANGED <<sockOpen, closed, state, rpc, apc>> /\ state # "HTTP" /\ pc["app"] = "idle"
    BY <1>0, <1>9 DEF Push, upgrade
  <2>2. /\ \A u \in Threads : u # "app" => pc'[u] = pc[u]
        /\ pc'["app"] \in {"idle", "check"}
    BY <1>0, <1>9, <2>1, SendTyped DEF Push, Data
  <2> QED
    BY <1>0, <2>1, <2>2 DEF CloseInv
<1>10. CASE AppCloses
  BY <1>0, <1>10 DEF CloseInv, AppCloses, BeginClose, TypeOK, upgrade
<1>11. ASSUME NEW t \in Threads, RunClose(t) PROVE CloseInv'
  <2>1. t \in {"receiver", "app"}
    BY <1>0, <1>11, CloseSteps DEF CloseInv, Threads
  <2>2. /\ UNCHANGED <<rpc, state, apc>> /\ (closed => closed')
        /\ pc[t] # "idle"
        /\ \A u \in Threads : u # t => pc'[u] = pc[u]
    BY <1>0, <1>11, CloseSteps
  <2>3. \A u \in Threads : pc'[u] \in {"sock", "listeners"} => closed'
    BY <1>0, <1>11, <2>2, CloseSteps DEF CloseInv
  <2>4. closed' /\ sockOpen' => pc'["receiver"] = "sock" \/ pc'["app"] = "sock"
    <3>1. CASE t = "receiver"
      BY <1>0, <1>11, <2>2, <3>1, CloseSteps DEF CloseInv
    <3>2. CASE t = "app"
      BY <1>0, <1>11, <2>2, <3>2, CloseSteps DEF CloseInv
    <3> QED
      BY <2>1, <3>1, <3>2
  <2> QED
    BY <1>0, <2>1, <2>2, <2>3, <2>4 DEF CloseInv
<1> QED
  BY <1>1, <1>2, <1>3, <1>4, <1>5, <1>6, <1>7, <1>8, <1>9, <1>10, <1>11, NextSteps

----------------------------------------------------------------------------
(* What was handled, and by which protocol.                                 *)

Silent ==
  \/ Serve \/ ReceiverMoves \/ ReturnFromCallback \/ Closes \/ AppCloses
  \/ \E t \in Threads : RunClose(t)

LEMMA SilentSteps ==
  ASSUME TypeOK, SetUpInv, Silent \/ UNCHANGED vars
  PROVE  /\ script' = script /\ Handled' = Handled
         /\ UNCHANGED <<outbound, state, layer, wsClosed, dataBuffer, delivered, pushes>>
         /\ closed => closed'
         /\ rpc' \in {"denied", "upgrade", "add"} => rpc' = rpc /\ done' = done
         /\ rpc' = "inner" => rpc = "inner" \/ layer # "SSE"
         /\ rpc' = "add" <=> rpc = "add"
         /\ apc = "stopped" => apc' = "stopped"
         /\ ~sockOpen => ~sockOpen'
<1>1. CASE UNCHANGED vars
  BY <1>1 DEF Handled, vars, socket, server, upgrade, ws, app
<1>2. CASE Serve
  BY <1>2 DEF SetUpInv, Handled, Serve, OnConnection, AppendListener, AppendConnection, StartRecv,
     socket, upgrade, ws, app
<1>3. CASE ReceiverMoves
  <2>1. CASE \E n \in 0..Len(script), cut \in Cuts \cup {"none"} : ReceiveData(n, cut)
    BY <2>1 DEF Handled, ReceiveData, upgrade, ws, app
  <2>2. CASE CheckLoop \/ EnterRecv \/ EndReceive \/ NeedMoreData \/ ReadLineRaises \/ StopScanning
             \/ ReceiveEmpty \/ ReceiveAborted
    BY <2>2 DEF Handled, CheckLoop, EnterRecv, EndReceive, NeedMoreData, ReadLineRaises,
       StopScanning, ReceiveEmpty, ReceiveAborted, OuterStep, socket, upgrade, ws, app
  <2>3. CASE Unpack
    BY <2>3 DEF Handled, Unpack, OuterStep, socket, upgrade, ws, app
  <2> QED
    BY <1>3, <2>1, <2>2, <2>3 DEF ReceiverMoves
<1>4. CASE ReturnFromCallback
  BY <1>4 DEF Handled, ReturnFromCallback, Consume, socket, upgrade, ws, app
<1>5. CASE Closes
  BY <1>5 DEF Handled, Closes, CloseDenied, CallbackCloses, socket, upgrade, ws, app
<1>6. CASE AppCloses
  BY <1>6 DEF Handled, AppCloses, socket, upgrade, ws
<1>7. ASSUME NEW t \in Threads, RunClose(t)
      PROVE  /\ UNCHANGED <<script, rpc, done, outbound, state, layer, wsClosed, dataBuffer,
                            delivered, apc, pushes>>
             /\ closed => closed'
             /\ ~sockOpen => ~sockOpen'
  BY <1>7, CloseSteps
<1> QED
  BY <1>1, <1>2, <1>3, <1>4, <1>5, <1>6, <1>7 DEF Silent, Handled

LEMMA NextIsOne ==
  Next => \/ Silent \/ Answers \/ Frames \/ Cancel \/ Upgrade \/ Push
BY NextSteps DEF Silent, Leaves

LEMMA FrameSteps ==
  ASSUME TypeOK, Frames
  PROVE  /\ rpc = "inner" /\ ~closed /\ done < received /\ Item.t = "frame"
         /\ Handled = done /\ Handled' = done + 1 /\ rpc' \in {"callback", "scan"}
         /\ UNCHANGED <<script, received, outbound, state, layer, closed, apc, pushes, pc>>
         /\ ~sockOpen => ~sockOpen'
BY DEF Frames, OnFinalFrame, OnPartialFrame, CloseWebSocket, Inner, Consume, Handled, TypeOK,
   socket, upgrade, app

LEMMA HandledSteps ==
  ASSUME TypeOK, SetUpInv, [Next]_vars
  PROVE  /\ script' = script /\ Handled \in 0..Len(script) /\ Len(script) \in Nat
         /\ Handled' = Handled \/ Handled' = Handled + 1
<1>1. Handled \in 0..Len(script) /\ Len(script) \in Nat
  BY ScriptsAssumption, LenProperties DEF TypeOK, Handled
<1>2. CASE Silent \/ UNCHANGED vars
  BY <1>1, <1>2, SilentSteps
<1>3. CASE Answers
  BY <1>1, <1>3, AnswerSteps DEF Handled
<1>4. CASE Frames
  BY <1>1, <1>4, FrameSteps
<1>5. CASE Cancel \/ Upgrade
  BY <1>1, <1>5 DEF Cancel, Upgrade, RemoveProtocol, AddProtocol, Consume, Handled, socket
<1>6. CASE Push
  BY <1>1, <1>6 DEF Push, Handled, socket
<1> QED
  BY <1>2, <1>3, <1>4, <1>5, <1>6, NextIsOne

LEMMA LayerKept ==
  ASSUME IInv, [Next]_vars
  PROVE  LayerInv'
<1>0. TypeOK /\ SetUpInv /\ LayerInv
  BY DEF IInv
<1>1. layer = "WS" /\ layer' = layer => (\E k \in 1..Handled' : script'[k].t = "wsReq")
  BY <1>0, HandledSteps DEF LayerInv
<1>2. CASE Silent \/ UNCHANGED vars
  BY <1>0, <1>1, <1>2, SilentSteps DEF LayerInv, Item
<1>3. CASE Answers
  <2>1. layer # "WS" /\ layer # "SSE"
    <3>1. rpc = "inner" /\ done < received /\ Item.t # "frame" /\ Handled = done
      BY <1>0, <1>3, AnswerSteps DEF Handled
    <3> QED
      BY <1>0, <3>1, ItemNow DEF LayerInv
  <2> QED
    BY <1>0, <1>3, <2>1, AnswerSteps DEF LayerInv, Item, TypeOK, Layers
<1>4. CASE Frames
  BY <1>0, <1>1, <1>4, FrameSteps DEF LayerInv
<1>5. CASE Cancel
  BY <1>0, <1>1, <1>5 DEF LayerInv, Cancel, Consume, upgrade, app
<1>6. CASE RemoveProtocol
  BY <1>0, <1>6 DEF LayerInv, RemoveProtocol, socket, Item
<1>6a. CASE AddProtocol
  <2>1. /\ rpc = "add" /\ rpc' = "callback" /\ script' = script /\ done' = done
        /\ layer' = (IF Item.t = "wsReq" THEN "WS" ELSE "SSE") /\ state' = layer'
    BY <1>6a DEF AddProtocol, socket
  <2>2. layer' = "WS" => \E k \in 1..Handled' : script'[k].t = "wsReq"
    <3>1. done + 1 \in 1..Handled'
      BY <1>0, <2>1, ScriptsAssumption, LenProperties DEF Handled, TypeOK
    <3> QED
      BY <2>1, <3>1 DEF Item
  <2> QED
    BY <2>1, <2>2 DEF LayerInv
<1>7. CASE Push
  BY <1>0, <1>1, <1>7 DEF LayerInv, Push, socket, upgrade, Item
<1> QED
  BY <1>2, <1>3, <1>4, <1>5, <1>6, <1>6a, <1>7, NextIsOne DEF Upgrade

----------------------------------------------------------------------------
(* The conversation.                                                        *)

\* Only close() lets the receiver go on, and then the connection is closed.
LEMMA SilentStays ==
  ASSUME IInv, Silent \/ UNCHANGED vars,
         ~closed', rpc' \notin {"denied", "upgrade"}, pc'["receiver"] = "idle"
  PROVE  ~closed /\ rpc \notin {"denied", "upgrade"} /\ pc["receiver"] = "idle"
<1>0. TypeOK /\ SetUpInv /\ CloseInv /\ "receiver" \in Threads
  BY DEF IInv, Threads
<1>1. CASE Serve \/ UNCHANGED vars
  BY <1>1 DEF Serve, OnConnection, AppendListener, AppendConnection, StartRecv, vars,
     SetUpInv, IInv
<1>2. CASE ReceiverMoves
  <2>1. closed' = closed /\ rpc \notin {"denied", "upgrade", "callback"}
    BY <1>2 DEF ReceiverMoves, CheckLoop, EnterRecv, EndReceive, NeedMoreData, ReadLineRaises,
       StopScanning, Unpack, ReceiveEmpty, ReceiveAborted, OuterStep, ReceiveData
  <2>2. pc["receiver"] = "idle"
    BY <1>0, <1>2 DEF ReceiverMoves, CheckLoop, EnterRecv, EndReceive, NeedMoreData, ReadLineRaises,
       StopScanning, Unpack, ReceiveEmpty, ReceiveAborted, OuterStep, ReceiveData, CloseInv
  <2> QED
    BY <2>1, <2>2
<1>3. CASE ReturnFromCallback
  BY <1>3 DEF ReturnFromCallback
<1>4. CASE Closes
  BY <1>0, <1>4 DEF Closes, CloseDenied, CallbackCloses, BeginClose, TypeOK
<1>5. CASE AppCloses
  BY <1>0, <1>5 DEF AppCloses, BeginClose, TypeOK
<1>6. ASSUME NEW t \in Threads, RunClose(t)
      PROVE  ~closed /\ rpc \notin {"denied", "upgrade"} /\ pc["receiver"] = "idle"
  <2>1. ~closed /\ rpc' = rpc
    BY <1>0, <1>6, CloseSteps
  <2>2. t # "receiver"
    BY <1>0, <1>6, <2>1, CloseSteps DEF CloseInv
  <2> QED
    BY <1>0, <1>6, <2>1, <2>2, CloseSteps
<1> QED
  BY <1>1, <1>2, <1>3, <1>4, <1>5, <1>6 DEF Silent

\* A request is handled before any upgrade: everything so far was answered.
LEMMA RequestNow ==
  ASSUME IInv, rpc = "inner", ~closed
  PROVE  /\ done < received /\ Handled = done
         /\ Item.t # "frame" <=> layer = "HTTP"
         /\ layer = "HTTP" => Len(outbound) = done /\ \A i \in DOMAIN outbound : outbound[i][1] = "200"
<1>0. TypeOK /\ LayerInv /\ AnswersInv /\ Conversation
  BY DEF IInv
<1>1. done < received /\ Handled = done /\ pc["receiver"] = "idle"
  BY DEF IInv, TypeOK, Handled, CloseInv
<1>2. layer = "HTTP" => Len(outbound) = done /\ \A i \in DOMAIN outbound : outbound[i][1] = "200"
  BY <1>0, <1>1 DEF AnswersInv
<1>3. CASE layer = "HTTP"
  <2>1. ASSUME NEW j \in 1..done PROVE script[j].t # "wsReq"
    <3>1. j \in DOMAIN outbound
      BY <1>0, <1>2, <1>3, LenProperties DEF TypeOK
    <3>2. outbound[j][1] = "200"
      BY <1>2, <1>3, <3>1
    <3>3. outbound[j] \in AnswersTo[script[j].t] \X {"HTTP"}
      BY <1>0, <3>1, <3>2 DEF Conversation
    <3>4. "200" \in AnswersTo[script[j].t]
      BY <3>2, <3>3
    <3> QED
      BY <3>4 DEF AnswersTo
  <2> QED
    BY <1>0, <1>1, <1>2, <1>3, <2>1, ItemNow
<1>4. CASE layer # "HTTP"
  BY <1>0, <1>1, <1>4, ItemNow DEF LayerInv, TypeOK, Layers
<1> QED
  BY <1>1, <1>2, <1>3, <1>4

LEMMA AnswersKept ==
  ASSUME IInv, [Next]_vars
  PROVE  AnswersInv'
<1>0. TypeOK /\ SetUpInv /\ LayerInv /\ AnswersInv
  BY DEF IInv
<1>1. CASE Silent \/ UNCHANGED vars
  BY <1>0, <1>1, SilentSteps, SilentStays DEF AnswersInv
<1>2. CASE Answers
  <2>1. /\ layer = "HTTP" /\ layer' = layer /\ Len(outbound) = done
        /\ \A i \in DOMAIN outbound : outbound[i][1] = "200"
    BY <1>0, <1>2, AnswerSteps, RequestNow
  <2>2. PICK data \in Data \ {"push"} :
          /\ \/ sockOpen /\ outbound' = Append(outbound, <<data, layer>>) /\ pc' = pc
             \/ outbound' = outbound /\ pc'["receiver"] = "check"
          /\ rpc' \in {"denied", "upgrade"} \/ (rpc' = "callback" /\ data = "200")
    BY <1>0, <1>2, AnswerSteps
  <2>3. CASE outbound' = outbound /\ pc'["receiver"] = "check"
    BY <1>0, <2>1, <2>3 DEF AnswersInv
  <2>4. CASE outbound' = Append(outbound, <<data, layer>>)
    <3>1. <<data, layer>> \in Data \X Layers
      BY <1>0 DEF TypeOK
    <3>2. /\ Len(outbound') = done + 1
          /\ \A i \in DOMAIN outbound' :
               \/ i \in DOMAIN outbound /\ outbound'[i] = outbound[i]
               \/ outbound'[i] = <<data, layer>>
      BY <1>0, <2>1, <2>4, <3>1, Appended
    <3>3. rpc' = "callback" => Handled' = done + 1
      BY <1>0, <1>2, AnswerSteps DEF Handled
    <3>4. \A i \in DOMAIN outbound' : outbound'[i][1] = "200" \/ outbound'[i][1] = data
      BY <2>1, <3>2
    <3> QED
      BY <2>2, <3>2, <3>3, <3>4 DEF AnswersInv
  <2> QED
    BY <2>2, <2>3, <2>4
<1>3. CASE Frames
  <2>1. layer' # "HTTP"
    BY <1>0, <1>3, FrameSteps, RequestNow
  <2> QED
    BY <2>1 DEF AnswersInv
<1>4. CASE Cancel
  BY <1>0, <1>4 DEF Cancel, AnswersInv, upgrade
<1>5. CASE Upgrade
  BY <1>5 DEF Upgrade, RemoveProtocol, AddProtocol, AnswersInv
<1>6. CASE Push
  BY <1>0, <1>6 DEF Push, AnswersInv, LayerInv, upgrade
<1> QED
  BY <1>1, <1>2, <1>3, <1>4, <1>5, <1>6, NextIsOne

\* Who closes while the receiver changes protocols leaves nothing to push to.
LEMMA SwitchStays ==
  ASSUME IInv, Silent \/ UNCHANGED vars, rpc = "upgrade", pc["receiver"] \in {"check", "sock"}
  PROVE  pc'["receiver"] \in {"check", "sock"} \/ Mute'
<1>0. /\ TypeOK /\ SetUpInv /\ CloseInv /\ layer = "HTTP" /\ state = "HTTP"
      /\ "receiver" \in Threads /\ "app" \in Threads
  BY DEF IInv, LayerInv, Threads
<1>1. CASE Serve \/ UNCHANGED vars
  BY <1>1 DEF Serve, OnConnection, AppendListener, AppendConnection, StartRecv, vars
<1>2. CASE ReceiverMoves
  BY <1>2 DEF ReceiverMoves, CheckLoop, EnterRecv, EndReceive, NeedMoreData, ReadLineRaises,
     StopScanning, Unpack, ReceiveEmpty, ReceiveAborted, OuterStep, ReceiveData
<1>3. CASE ReturnFromCallback \/ Closes
  BY <1>3 DEF ReturnFromCallback, Closes, CloseDenied, CallbackCloses
<1>4. CASE AppCloses
  BY <1>0, <1>4 DEF AppCloses, BeginClose, TypeOK
<1>5. ASSUME NEW t \in Threads, RunClose(t)
      PROVE  pc'["receiver"] \in {"check", "sock"} \/ Mute'
  <2>1. CASE t # "receiver"
    BY <1>0, <1>5, <2>1, CloseSteps
  <2>2. CASE t = "receiver" /\ pc'["receiver"] = "idle"
    <3>1. closed /\ sockOpen' = sockOpen /\ pc["receiver"] = "check" /\ apc' = apc
      BY <1>0, <1>5, <2>2, CloseSteps
    <3>2. sockOpen => apc = "stopped"
      BY <1>0, <3>1 DEF CloseInv
    <3> QED
      BY <1>0, <3>1, <3>2 DEF Mute, TypeOK
  <2>3. CASE t = "receiver" /\ pc'["receiver"] # "idle"
    BY <1>0, <1>5, <2>3, CloseSteps DEF Mute
  <2> QED
    BY <2>1, <2>2, <2>3
<1> QED
  BY <1>1, <1>2, <1>3, <1>4, <1>5 DEF Silent

\* What was sent stays so.
LEMMA SentStays ==
  ASSUME TypeOK, NEW x \in Data \X Layers, outbound' = Append(outbound, x)
  PROVE  (\A data : Sent(data) => Sent(data)') /\ Sent(x[1])'
<1>1. /\ Len(outbound) \in Nat /\ DOMAIN outbound = 1..Len(outbound)
      /\ DOMAIN outbound' = 1..(Len(outbound) + 1)
      /\ outbound'[Len(outbound) + 1] = x
      /\ \A i \in 1..Len(outbound) : outbound'[i] = outbound[i]
  BY Appended
<1>2. DOMAIN outbound \subseteq DOMAIN outbound' /\ Len(outbound) + 1 \in DOMAIN outbound'
  BY <1>1
<1> QED
  BY <1>1, <1>2 DEF Sent

LEMMA SwitchKept ==
  ASSUME IInv, [Next]_vars
  PROVE  SwitchInv'
<1>0. TypeOK /\ SetUpInv /\ LayerInv /\ SwitchInv
  BY DEF IInv
<1>1. CASE Silent \/ UNCHANGED vars
  <2>1. /\ \A data : Sent(data) => Sent(data)'
        /\ layer' = layer /\ (Mute => Mute')
        /\ rpc' \in {"upgrade", "add"} => rpc' = rpc /\ Item' = Item
    BY <1>0, <1>1, SilentSteps DEF Sent, Mute, Item
  <2>2. rpc' = "upgrade" =>
          \/ Sent(IF Item.t = "wsReq" THEN "101" ELSE "stream")'
          \/ pc'["receiver"] \in {"check", "sock"} \/ Mute'
    BY <1>0, <1>1, <2>1, SwitchStays DEF SwitchInv
  <2>3. /\ layer' \in DOMAIN Switched => Sent(Switched[layer])' \/ Mute'
        /\ rpc' = "add" => Sent(IF Item.t = "wsReq" THEN "101" ELSE "stream")' \/ Mute'
    BY <1>0, <2>1 DEF SwitchInv
  <2> QED
    BY <2>1, <2>2, <2>3 DEF SwitchInv
<1>2. CASE Answers
  <2>1. layer' = "HTTP" /\ layer' = layer /\ Item' = Item /\ rpc' # "add"
        /\ "HTTP" \notin DOMAIN Switched
    BY <1>0, <1>2, AnswerSteps, RequestNow DEF Item, Switched
  <2>2. PICK data \in Data \ {"push"} :
          /\ \/ sockOpen /\ outbound' = Append(outbound, <<data, layer>>) /\ pc' = pc
             \/ outbound' = outbound /\ pc'["receiver"] = "check"
          /\ rpc' = "upgrade" => data = IF Item.t = "wsReq" THEN "101" ELSE "stream"
    BY <1>0, <1>2, AnswerSteps
  <2>3. CASE outbound' = Append(outbound, <<data, layer>>)
    <3>1. <<data, layer>> \in Data \X Layers
      BY <1>0 DEF TypeOK
    <3>2. Sent(data)'
      BY <1>0, <2>3, <3>1, SentStays
    <3> QED
      BY <2>1, <2>2, <3>2 DEF SwitchInv
  <2> QED
    BY <2>1, <2>2, <2>3 DEF SwitchInv
<1>3. CASE Frames
  <2>1. /\ outbound' = outbound /\ layer' = layer /\ (Mute => Mute') /\ rpc' \notin {"upgrade", "add"}
    BY <1>0, <1>3, FrameSteps DEF Mute
  <2> QED
    BY <1>0, <2>1 DEF SwitchInv, Sent
<1>4. CASE Cancel
  <2>1. /\ outbound' = outbound /\ layer' = layer /\ (Mute => Mute') /\ rpc' \notin {"upgrade", "add"}
    BY <1>4 DEF Cancel, Consume, Mute, upgrade, app
  <2> QED
    BY <1>0, <2>1 DEF SwitchInv, Sent
<1>5. CASE RemoveProtocol
  <2>1. /\ outbound' = outbound /\ rpc = "upgrade" /\ rpc' = "add" /\ pc["receiver"] = "idle"
        /\ layer' = "TCP" /\ Item' = Item /\ (Mute => Mute')
    BY <1>5 DEF RemoveProtocol, Mute, Item, socket, app
  <2>2. "TCP" \notin DOMAIN Switched
    BY DEF Switched
  <2>3. Sent(IF Item.t = "wsReq" THEN "101" ELSE "stream") \/ Mute
    BY <1>0, <2>1 DEF SwitchInv
  <2> QED
    BY <2>1, <2>2, <2>3 DEF SwitchInv, Sent
<1>5a. CASE AddProtocol
  <2>1. /\ outbound' = outbound /\ rpc = "add" /\ rpc' = "callback"
        /\ layer' = (IF Item.t = "wsReq" THEN "WS" ELSE "SSE") /\ (Mute => Mute')
    BY <1>5a DEF AddProtocol, Mute, app
  <2>2. PICK data : data = IF Item.t = "wsReq" THEN "101" ELSE "stream"
    OBVIOUS
  <2>3. Switched[layer]' = data
    BY <2>1, <2>2 DEF Switched
  <2>4. Sent(data) \/ Mute
    BY <1>0, <2>1, <2>2 DEF SwitchInv
  <2>5. Sent(data)' \/ Mute'
    BY <2>1, <2>4 DEF Sent
  <2> QED
    BY <2>1, <2>3, <2>5 DEF SwitchInv, Sent
<1>6. CASE Push
  <2>1. /\ layer' = layer /\ layer # "HTTP" /\ rpc' = rpc /\ rpc \notin {"upgrade", "add"}
        /\ (Mute => Mute')
    BY <1>0, <1>6 DEF Push, LayerInv, Mute, upgrade
  <2>2. \A data : Sent(data) => Sent(data)'
    <3>1. CASE outbound' = outbound
      BY <3>1 DEF Sent
    <3>2. CASE outbound' = Append(outbound, <<"push", layer>>)
      <4>1. <<"push", layer>> \in Data \X Layers
        BY <1>0 DEF TypeOK, Data
      <4> QED
        BY <1>0, <3>2, <4>1, SentStays
    <3> QED
      BY <1>6, <3>1, <3>2 DEF Push, SendOrClose
  <2> QED
    BY <1>0, <2>1, <2>2 DEF SwitchInv
<1> QED
  BY <1>1, <1>2, <1>3, <1>4, <1>5, <1>5a, <1>6, NextIsOne DEF Upgrade

\* What is written next is in place, and what was written stays so.
Fits(i, x) ==
  IF x[1] = "push"
  THEN \E j \in 1..(i - 1) : x[2] \in DOMAIN Switched /\ outbound[j][1] = Switched[x[2]]
  ELSE /\ i <= Len(script) /\ script[i].t # "frame"
       /\ x \in AnswersTo[script[i].t] \X {"HTTP"}
       /\ \A j \in 1..(i - 1) : outbound[j][1] = "200"

LEMMA ConversationGrows ==
  ASSUME TypeOK, Conversation, script' = script,
         NEW x \in Data \X Layers, outbound' = Append(outbound, x), Fits(Len(outbound) + 1, x)
  PROVE  Conversation'
<1>1. /\ Len(outbound) \in Nat /\ DOMAIN outbound = 1..Len(outbound)
      /\ DOMAIN outbound' = 1..(Len(outbound) + 1)
      /\ outbound'[Len(outbound) + 1] = x
      /\ \A i \in 1..Len(outbound) : outbound'[i] = outbound[i]
  BY Appended
<1> SUFFICES ASSUME NEW i \in 1..(Len(outbound) + 1)
             PROVE  IF outbound'[i][1] = "push"
                    THEN \E j \in 1..(i - 1) : /\ outbound'[i][2] \in DOMAIN Switched
                                               /\ outbound'[j][1] = Switched[outbound'[i][2]]
                    ELSE /\ i <= Len(script) /\ script[i].t # "frame"
                         /\ outbound'[i] \in AnswersTo[script[i].t] \X {"HTTP"}
                         /\ \A j \in 1..(i - 1) : outbound'[j][1] = "200"
  BY <1>1 DEF Conversation
<1>2. \A j \in 1..(i - 1) : j \in 1..Len(outbound) /\ outbound'[j] = outbound[j]
  BY <1>1
<1>3. CASE i \in 1..Len(outbound)
  BY <1>1, <1>2, <1>3 DEF Conversation
<1>4. CASE i = Len(outbound) + 1
  BY <1>1, <1>2, <1>4 DEF Fits
<1> QED
  BY <1>1, <1>3, <1>4

LEMMA ConversationKept ==
  ASSUME IInv, [Next]_vars
  PROVE  Conversation'
<1>0. TypeOK /\ SetUpInv /\ LayerInv /\ SwitchInv /\ Conversation /\ script' = script
  BY HandledSteps DEF IInv
<1>1. CASE outbound' = outbound
  BY <1>0, <1>1 DEF Conversation
<1>2. CASE Answers /\ outbound' # outbound
  <2>1. /\ layer = "HTTP" /\ Len(outbound) = done /\ done < received
        /\ \A i \in DOMAIN outbound : outbound[i][1] = "200"
    BY <1>0, <1>2, AnswerSteps, RequestNow
  <2>2. PICK data \in Data \ {"push"} :
          /\ data \in AnswersTo[Item.t] /\ Item.t # "frame"
          /\ outbound' = Append(outbound, <<data, layer>>)
    BY <1>0, <1>2, AnswerSteps
  <2>3. <<data, layer>> \in Data \X Layers
    BY <1>0 DEF TypeOK
  <2>4. done + 1 <= Len(script) /\ DOMAIN outbound = 1..done /\ (done + 1) - 1 = done
    BY <1>0, <2>1, ItemNow, LenProperties DEF TypeOK
  <2>5. Fits(done + 1, <<data, layer>>)
    BY <2>1, <2>2, <2>4 DEF Fits, Item
  <2> QED
    BY <1>0, <2>1, <2>2, <2>3, <2>5, ConversationGrows
<1>3. CASE Push /\ outbound' # outbound
  <2>1. /\ apc # "stopped" /\ sockOpen /\ layer \notin {"HTTP", "TCP"}
        /\ outbound' = Append(outbound, <<"push", layer>>)
    BY <1>0, <1>3 DEF Push, SendOrClose, LayerInv
  <2>2. Sent(Switched[layer]) /\ layer \in DOMAIN Switched
    BY <1>0, <2>1 DEF SwitchInv, Mute, TypeOK, Layers, Switched
  <2>3. <<"push", layer>> \in Data \X Layers
    BY <1>0 DEF TypeOK, Data
  <2>4. Len(outbound) \in Nat /\ DOMAIN outbound = 1..((Len(outbound) + 1) - 1)
    BY <1>0, LenProperties DEF TypeOK
  <2>5. Fits(Len(outbound) + 1, <<"push", layer>>)
    BY <2>2, <2>4 DEF Fits, Sent
  <2> QED
    BY <1>0, <2>1, <2>3, <2>5, ConversationGrows
<1>4. outbound' = outbound \/ Answers \/ Push
  <2>1. CASE Silent \/ UNCHANGED vars
    BY <1>0, <2>1, SilentSteps
  <2>2. CASE Frames
    BY <1>0, <2>2, FrameSteps
  <2>3. CASE Cancel \/ Upgrade
    BY <2>3 DEF Cancel, Upgrade, RemoveProtocol, AddProtocol
  <2> QED
    BY <2>1, <2>2, <2>3, NextIsOne
<1> QED
  BY <1>1, <1>2, <1>3, <1>4

----------------------------------------------------------------------------
(* The messages.                                                            *)

LEMMA TipTyped ==
  ASSUME TypeOK, MessagesAssembled
  PROVE  /\ EndOf(Len(delivered)) \in Nat /\ Tip \in Nat
         /\ Len(delivered) \in Nat /\ DOMAIN delivered = 1..Len(delivered)
         /\ Len(dataBuffer) \in Nat /\ \A k \in 1..Len(dataBuffer) : dataBuffer[k] \in Nat
<1>1. /\ Len(delivered) \in Nat /\ DOMAIN delivered = 1..Len(delivered)
      /\ Len(dataBuffer) \in Nat /\ \A k \in 1..Len(dataBuffer) : dataBuffer[k] \in Nat
  BY LenProperties, ElementOfSeq DEF TypeOK
<1>2. EndOf(Len(delivered)) \in Nat
  <2>1. CASE Len(delivered) = 0
    BY <2>1 DEF EndOf
  <2>2. CASE Len(delivered) # 0
    <3>1. Len(delivered) \in DOMAIN delivered
      BY <1>1, <2>2
    <3>2. delivered[Len(delivered)].parts \in Seq(Nat) /\ delivered[Len(delivered)].parts # <<>>
      <4>1. delivered[Len(delivered)] \in [kind : {"request", "text", "binary"}, parts : Seq(Nat)]
        BY <1>1, <3>1, ElementOfSeq DEF TypeOK
      <4>2. Whole(EndOf(Len(delivered) - 1), delivered[Len(delivered)].parts)
        BY <3>1 DEF MessagesAssembled
      <4> QED
        BY <4>1, <4>2 DEF Whole
    <3> DEFINE s == delivered[Len(delivered)].parts
    <3> HIDE DEF s
    <3>3. s \in Seq(Nat) /\ s # <<>>
      BY <3>2 DEF s
    <3>4. Len(s) \in 1..Len(s)
      BY <3>3, LenProperties, EmptySeq
    <3>5. s[Len(s)] \in Nat
      BY <3>3, <3>4, ElementOfSeq
    <3> QED
      BY <2>2, <3>5 DEF EndOf, s
  <2> QED
    BY <2>1, <2>2
<1>3. Tip \in Nat
  <2>1. dataBuffer # <<>> => Len(dataBuffer) \in 1..Len(dataBuffer)
    BY <1>1, EmptySeq DEF TypeOK
  <2> QED
    BY <1>1, <1>2, <2>1 DEF Tip
<1> QED
  BY <1>1, <1>2, <1>3

LEMMA DeliveredStays ==
  ASSUME MessagesAssembled, script' = script, delivered' = delivered
  PROVE  MessagesAssembled'
<1>1. \A i : ForApplication(i)' <=> ForApplication(i)
  BY DEF ForApplication
<1>2. \A p, q : Follows(p, q)' <=> Follows(p, q)
  BY <1>1 DEF Follows
<1>3. \A b, s : Whole(b, s)' <=> Whole(b, s)
  BY <1>1, <1>2 DEF Whole
<1> QED
  BY <1>3 DEF MessagesAssembled, EndOf

\* Nothing is kept or delivered: an item that is passed over is not for the
\* application, unless the connection is closed.
LEMMA NothingKept ==
  ASSUME IInv, script' = script, dataBuffer' = dataBuffer, delivered' = delivered,
         closed => closed',
         \/ Handled' = Handled
         \/ Handled' = Handled + 1 /\ (closed' \/ ~ForApplication(Handled + 1))
  PROVE  AssemblyInv' /\ MessagesAssembled'
<1>0. TypeOK /\ AssemblyInv /\ MessagesAssembled /\ Tip \in Nat
  BY TipTyped DEF IInv
<1>1. Handled \in Nat
  BY <1>0, ScriptsAssumption, LenProperties DEF TypeOK, Handled
<1>2. \A i : ForApplication(i)' <=> ForApplication(i)
  BY DEF ForApplication
<1>3. MessagesAssembled'
  BY <1>0, DeliveredStays
<1>4. Tip' = Tip /\ EndOf(Len(delivered))' = EndOf(Len(delivered))
  BY DEF Tip, EndOf
<1>5. \A k \in 1..Len(dataBuffer) :
        /\ Follows(IF k = 1 THEN EndOf(Len(delivered)) ELSE dataBuffer[k - 1], dataBuffer[k])'
        /\ dataBuffer[k] \in DOMAIN script /\ ForApplication(dataBuffer[k])
        /\ ~script[dataBuffer[k]].fin
  BY <1>0, <1>2, <1>4 DEF AssemblyInv, Follows
<1>6. ~closed' => \A i \in (Tip + 1)..Handled' : ~ForApplication(i)
  BY <1>0, <1>1 DEF AssemblyInv
<1>7. Tip <= Handled'
  BY <1>0, <1>1 DEF AssemblyInv
<1> QED
  BY <1>2, <1>3, <1>4, <1>5, <1>6, <1>7 DEF AssemblyInv

\* The next item for the application follows what was kept.
LEMMA NextFollows ==
  ASSUME IInv, rpc = "inner", ~closed
  PROVE  /\ Follows(Tip, done + 1) /\ done + 1 \in DOMAIN script /\ done + 1 \in Nat
         /\ Item.t # "frame" => dataBuffer = <<>>
<1>0. /\ TypeOK /\ AssemblyInv /\ MessagesAssembled /\ Tip \in Nat
      /\ done < received /\ Handled = done /\ done \in Nat
  BY TipTyped, RequestNow, ScriptsAssumption, LenProperties DEF IInv, TypeOK
<1>1. done + 1 \in 1..Len(script) /\ script \in Scripts
  BY <1>0, ItemNow DEF TypeOK
<1>2. done + 1 \in DOMAIN script
  BY <1>1, ItemTyped
<1>3. Tip < done + 1 /\ \A i \in (Tip + 1)..((done + 1) - 1) : ~ForApplication(i)
  BY <1>0 DEF AssemblyInv
<1>4. ASSUME dataBuffer # <<>> PROVE Item.t = "frame"
  <2>1. /\ Len(dataBuffer) \in 1..Len(dataBuffer) /\ Tip = dataBuffer[Len(dataBuffer)]
    BY <1>0, <1>4, TipTyped, EmptySeq DEF TypeOK, Tip
  <2>2. Tip \in 1..Len(script) /\ ForApplication(Tip) /\ ~script[Tip].fin
    BY <1>0, <1>1, <2>1, ItemTyped DEF AssemblyInv
  <2>3. script[Tip].t = "frame"
    BY <1>1, <2>2, ItemTyped DEF ForApplication
  <2>4. PICK j \in 1..(Tip - 1) : script[j].t = "wsReq"
    BY <1>1, <2>2, <2>3, ItemTyped
  <2>5. j \in 1..done
    BY <1>0, <2>2, <2>4 DEF AssemblyInv
  <2> QED
    BY <1>0, <2>4, <2>5, ItemNow
<1> QED
  BY <1>0, <1>2, <1>3, <1>4 DEF Follows

\* A frame that is kept.
LEMMA FrameKept ==
  ASSUME IInv, OnPartialFrame
  PROVE  AssemblyInv' /\ MessagesAssembled'
<1>0. /\ TypeOK /\ AssemblyInv /\ MessagesAssembled /\ Tip \in Nat
      /\ rpc = "inner" /\ ~closed /\ done \in Nat
  BY TipTyped, ScriptsAssumption, LenProperties DEF IInv, OnPartialFrame, Inner, TypeOK
<1>1. /\ script' = script /\ delivered' = delivered /\ closed' = closed /\ done' = done + 1
      /\ Handled' = done + 1 /\ dataBuffer' = Append(dataBuffer, done + 1)
      /\ ~script[done + 1].fin /\ ForApplication(done + 1)
  BY <1>0 DEF OnPartialFrame, Inner, Consume, Handled, socket, ForApplication, Item
<1>2. \A i : ForApplication(i)' <=> ForApplication(i)
  BY <1>1 DEF ForApplication
<1>3. MessagesAssembled'
  BY <1>0, <1>1, DeliveredStays
<1>4. EndOf(Len(delivered))' = EndOf(Len(delivered))
  BY <1>1 DEF EndOf
<1>5. /\ Len(dataBuffer') = Len(dataBuffer) + 1 /\ Len(dataBuffer) \in Nat
      /\ dataBuffer'[Len(dataBuffer) + 1] = done + 1 /\ dataBuffer' # <<>>
      /\ \A k \in 1..Len(dataBuffer) : dataBuffer'[k] = dataBuffer[k]
  <2>1. dataBuffer \in Seq(Nat) /\ done + 1 \in Nat
    BY <1>0 DEF TypeOK
  <2>2. dataBuffer' \in Seq(Nat) /\ Len(dataBuffer') = Len(dataBuffer) + 1
    BY <1>1, <2>1, AppendProperties
  <2> QED
    BY <1>1, <2>1, <2>2, AppendProperties, LenProperties, EmptySeq
<1>6. Tip' = done + 1
  BY <1>5 DEF Tip
<1>7. ASSUME NEW k \in 1..Len(dataBuffer')
      PROVE  /\ Follows(IF k = 1 THEN EndOf(Len(delivered)) ELSE dataBuffer'[k - 1], dataBuffer'[k])
             /\ dataBuffer'[k] \in DOMAIN script /\ ForApplication(dataBuffer'[k])
             /\ ~script[dataBuffer'[k]].fin
  <2>1. CASE k \in 1..Len(dataBuffer)
    <3>1. k # 1 => k - 1 \in 1..Len(dataBuffer)
      BY <1>5, <2>1
    <3>2. dataBuffer'[k] = dataBuffer[k] /\ (k # 1 => dataBuffer'[k - 1] = dataBuffer[k - 1])
      BY <1>5, <2>1, <3>1
    <3> QED
      BY <1>0, <2>1, <3>2 DEF AssemblyInv
  <2>2. CASE k = Len(dataBuffer) + 1
    <3>1. Tip = IF k = 1 THEN EndOf(Len(delivered)) ELSE dataBuffer'[k - 1]
      <4>1. CASE k = 1
        BY <1>0, <1>5, <2>2, <4>1, EmptySeq DEF Tip, TypeOK
      <4>2. CASE k # 1
        <5>1. dataBuffer # <<>> /\ k - 1 = Len(dataBuffer) /\ Len(dataBuffer) \in 1..Len(dataBuffer)
          BY <1>0, <1>5, <2>2, <4>2, EmptySeq DEF TypeOK
        <5> QED
          BY <1>5, <4>2, <5>1 DEF Tip
      <4> QED
        BY <4>1, <4>2
    <3> QED
      BY <1>0, <1>1, <1>5, <2>2, <3>1, NextFollows
  <2> QED
    BY <1>5, <1>7, <2>1, <2>2
<1>8. \A p, q : Follows(p, q)' <=> Follows(p, q)
  BY <1>2 DEF Follows
<1>9. (Tip <= Handled)' /\ (~closed => \A i \in (Tip + 1)..Handled : ~ForApplication(i))'
  BY <1>0, <1>1, <1>6
<1>10. \A k \in 1..Len(dataBuffer') :
         /\ Follows(IF k = 1 THEN EndOf(Len(delivered)) ELSE dataBuffer[k - 1], dataBuffer[k])'
         /\ dataBuffer'[k] \in DOMAIN script' /\ ForApplication(dataBuffer[k])'
         /\ ~script'[dataBuffer'[k]].fin
  BY <1>1, <1>2, <1>4, <1>7, <1>8
<1> QED
  BY <1>3, <1>9, <1>10 DEF AssemblyInv

\* A request, or the last frame of a message, is delivered with what was kept.
LEMMA Delivering ==
  ASSUME IInv, rpc = "inner", ~closed, NEW kind, Deliver(kind, dataBuffer), dataBuffer' = <<>>,
         script' = script, ForApplication(done + 1), script[done + 1].fin = TRUE, Handled' = done + 1
  PROVE  AssemblyInv' /\ MessagesAssembled'
<1>0. /\ TypeOK /\ AssemblyInv /\ MessagesAssembled /\ Tip \in Nat /\ done + 1 \in Nat
      /\ dataBuffer \in Seq(Nat) /\ Len(dataBuffer) \in Nat /\ Len(delivered) \in Nat
  BY TipTyped, NextFollows DEF IInv, TypeOK
<1> DEFINE parts == Append(dataBuffer, done + 1)
           m == [kind |-> kind, parts |-> parts]
<1>1. /\ parts \in Seq(Nat) /\ Len(parts) = Len(dataBuffer) + 1 /\ parts # <<>>
      /\ parts[Len(dataBuffer) + 1] = done + 1
      /\ \A k \in 1..Len(dataBuffer) : parts[k] = dataBuffer[k]
  <2>1. parts \in Seq(Nat) /\ Len(parts) = Len(dataBuffer) + 1
    BY <1>0, AppendProperties
  <2>2. /\ parts[Len(dataBuffer) + 1] = done + 1
        /\ \A k \in 1..Len(dataBuffer) : parts[k] = dataBuffer[k]
    BY <1>0, AppendProperties
  <2> HIDE DEF parts
  <2>3. parts # <<>>
    BY <1>0, <2>1, EmptySeq
  <2> QED
    BY <2>1, <2>2, <2>3
<1>2. /\ Len(delivered') = Len(delivered) + 1 /\ DOMAIN delivered' = 1..(Len(delivered) + 1)
      /\ DOMAIN delivered = 1..Len(delivered)
      /\ delivered'[Len(delivered) + 1] = m
      /\ \A n \in 1..Len(delivered) : delivered'[n] = delivered[n]
  <2>1. delivered' = Append(delivered, m)
    BY DEF Deliver
  <2>2. delivered \in Seq([kind : {"request", "text", "binary"}, parts : Seq(Nat)])
    BY <1>0 DEF TypeOK
  <2> HIDE DEF m
  <2>3. delivered \in Seq([kind : {"request", "text", "binary"}, parts : Seq(Nat)] \cup {m})
    BY <2>2, SeqMonotonic
  <2>4. delivered' \in Seq([kind : {"request", "text", "binary"}, parts : Seq(Nat)] \cup {m})
    BY <2>1, <2>3, AppendProperties
  <2> QED
    BY <2>1, <2>3, <2>4, AppendProperties, LenProperties
<1>3. m.parts = parts
  OBVIOUS
<1> HIDE DEF parts, m
<1>4. ASSUME NEW k \in 1..Len(parts)
      PROVE  /\ Follows(IF k = 1 THEN EndOf(Len(delivered)) ELSE parts[k - 1], parts[k])
             /\ parts[k] \in DOMAIN script /\ ForApplication(parts[k])
             /\ script[parts[k]].fin <=> k = Len(parts)
  <2>1. CASE k \in 1..Len(dataBuffer)
    <3>1. (k # 1 => k - 1 \in 1..Len(dataBuffer)) /\ k # Len(parts)
      BY <1>0, <1>1, <2>1
    <3>2. parts[k] = dataBuffer[k] /\ (k # 1 => parts[k - 1] = dataBuffer[k - 1])
      BY <1>1, <2>1, <3>1
    <3> QED
      BY <1>0, <2>1, <3>1, <3>2 DEF AssemblyInv
  <2>2. CASE k = Len(dataBuffer) + 1
    <3>1. Tip = IF k = 1 THEN EndOf(Len(delivered)) ELSE parts[k - 1]
      <4>1. CASE k = 1
        BY <1>0, <2>2, <4>1, EmptySeq DEF Tip
      <4>2. CASE k # 1
        <5>1. dataBuffer # <<>> /\ k - 1 = Len(dataBuffer) /\ Len(dataBuffer) \in 1..Len(dataBuffer)
          BY <1>0, <2>2, <4>2, EmptySeq
        <5> QED
          BY <1>1, <4>2, <5>1 DEF Tip
      <4> QED
        BY <4>1, <4>2
    <3>2. parts[k] = done + 1 /\ k = Len(parts)
      BY <1>1, <2>2
    <3> QED
      BY <3>1, <3>2, NextFollows
  <2> QED
    BY <1>0, <1>1, <1>4, <2>1, <2>2
<1>5. Whole(EndOf(Len(delivered)), parts)
  BY <1>1, <1>4 DEF Whole
<1>6. /\ \A i : ForApplication(i)' <=> ForApplication(i)
  BY DEF ForApplication
<1>7. \A b, s : Whole(b, s)' <=> Whole(b, s)
  BY <1>6 DEF Whole, Follows
<1>8. ASSUME NEW n \in 1..(Len(delivered) + 1)
      PROVE  Whole(IF n - 1 = 0 THEN 0 ELSE delivered'[n - 1].parts[Len(delivered'[n - 1].parts)],
                   delivered'[n].parts)
  <2>1. n - 1 # 0 => n - 1 \in 1..Len(delivered) /\ delivered'[n - 1] = delivered[n - 1]
    BY <1>0, <1>2
  <2>2. CASE n \in 1..Len(delivered)
    BY <1>0, <1>2, <2>1, <2>2 DEF MessagesAssembled, EndOf
  <2>3. CASE n = Len(delivered) + 1
    <3>1. n - 1 = Len(delivered)
      BY <1>0, <2>3
    <3> QED
      BY <1>2, <1>3, <1>5, <2>1, <2>3, <3>1 DEF EndOf
  <2> QED
    BY <1>0, <2>2, <2>3
<1>9. MessagesAssembled'
  BY <1>2, <1>7, <1>8 DEF MessagesAssembled, EndOf
<1>10. Tip' = done + 1
  <2>1. EndOf(Len(delivered))' = done + 1
    BY <1>0, <1>1, <1>2, <1>3 DEF EndOf
  <2> QED
    BY <2>1 DEF Tip
<1>11. Len(dataBuffer') = 0
  BY EmptySeq
<1>12. \A i \in (Tip' + 1)..Handled' : ~ForApplication(i)
  BY <1>0, <1>10
<1> QED
  BY <1>0, <1>6, <1>9, <1>10, <1>11, <1>12 DEF AssemblyInv

LEMMA AssemblyKept ==
  ASSUME IInv, [Next]_vars
  PROVE  AssemblyInv' /\ MessagesAssembled'
<1>0. TypeOK /\ SetUpInv
  BY DEF IInv
<1>1. CASE Silent \/ UNCHANGED vars
  BY <1>0, <1>1, SilentSteps, NothingKept
<1>2. CASE Answers
  <2>1. /\ rpc = "inner" /\ ~closed /\ done < received /\ Item.t # "frame" /\ script' = script
        /\ dataBuffer' = dataBuffer /\ closed' = closed /\ Handled = done /\ Handled' = done + 1
    BY <1>0, <1>2, AnswerSteps DEF Handled
  <2>2. dataBuffer = <<>>
    BY <2>1, NextFollows
  <2>3. CASE delivered' = delivered /\ Item.t \in {"wsReq", "wsBadVersion", "sseReq"}
    <3>1. ~ForApplication(done + 1)
      BY <1>0, <2>1, <2>3, ItemNow
    <3> QED
      BY <2>1, <2>3, <3>1, NothingKept
  <2>4. CASE Item.t = "get" /\ Deliver("request", <<>>)
    <3>1. ForApplication(done + 1) /\ script[done + 1].fin = TRUE
      BY <1>0, <2>1, <2>4, ItemNow DEF Item
    <3> QED
      BY <2>1, <2>2, <2>4, <3>1, Delivering
  <2> QED
    BY <1>0, <1>2, <2>3, <2>4, AnswerSteps
<1>3. CASE OnFinalFrame
  <2>1. /\ rpc = "inner" /\ ~closed /\ script' = script /\ Handled' = done + 1
        /\ Deliver(Item.op, dataBuffer) /\ dataBuffer' = <<>>
        /\ ForApplication(done + 1) /\ Item.fin /\ done < received
    BY <1>0, <1>3, FrameSteps DEF Frames, OnFinalFrame, Inner, ForApplication, Item
  <2>2. script[done + 1].fin = TRUE
    BY <1>0, <2>1, ItemNow, ItemTyped DEF TypeOK, Item
  <2> QED
    BY <2>1, <2>2, Delivering
<1>4. CASE OnPartialFrame
  BY <1>4, FrameKept
<1>5. CASE CloseWebSocket
  <2>1. /\ rpc = "inner" /\ ~closed /\ done < received /\ Item.t = "frame"
        /\ Item.op \notin {"text", "binary"} /\ Handled = done /\ Handled' = done + 1
        /\ UNCHANGED <<script, dataBuffer, delivered, closed>>
    BY <1>0, <1>5, FrameSteps DEF Frames, CloseWebSocket, Inner
  <2>2. ~ForApplication(done + 1)
    BY <1>0, <2>1, ItemNow
  <2> QED
    BY <2>1, <2>2, NothingKept
<1>6. CASE Cancel
  <2>1. /\ UNCHANGED <<script, dataBuffer, delivered>> /\ closed'
        /\ Handled' = Handled + 1
    BY <1>6 DEF Cancel, Consume, Handled, socket, ws
  <2> QED
    BY <2>1, NothingKept
<1>7. CASE Upgrade \/ Push
  <2>1. UNCHANGED <<script, dataBuffer, delivered, closed, Handled>>
    BY <1>7 DEF Upgrade, RemoveProtocol, AddProtocol, Push, Handled, socket, ws
  <2> QED
    BY <2>1, NothingKept
<1> QED
  BY <1>1, <1>2, <1>3, <1>4, <1>5, <1>6, <1>7, NextIsOne DEF Frames

----------------------------------------------------------------------------
(* What is proved of every behaviour.                                       *)

LEMMA Initially == Init => IInv
<1> SUFFICES ASSUME Init PROVE IInv
  OBVIOUS
<1>1. Len(script) \in Nat /\ Len(outbound) = 0 /\ Len(dataBuffer) = 0 /\ Len(delivered) = 0
  BY ScriptsAssumption, LenProperties, EmptySeq DEF Init
<1>2. TypeOK
  <2>1. /\ outbound \in Seq(Data \X Layers) /\ dataBuffer \in Seq(Nat)
        /\ delivered \in Seq([kind : {"request", "text", "binary"}, parts : Seq(Nat)])
    BY EmptySeq DEF Init
  <2>2. pc \in [Threads -> {"idle", "check", "sock", "listeners"}]
    BY DEF Init
  <2>3. received \in 0..Len(script) /\ done \in 0..received /\ pushes \in 0..MaxPushes
    BY <1>1, PushesAssumption DEF Init
  <2> QED
    BY <2>1, <2>2, <2>3 DEF Init, TypeOK, Layers
<1>3. SetUpInv /\ CloseInv
  BY DEF Init, SetUpInv, CloseInv, Threads
<1>4. Handled = 0 /\ Tip = 0
  BY <1>1 DEF Init, Handled, Tip, EndOf
<1>5. LayerInv /\ AnswersInv /\ SwitchInv
  BY <1>1, <1>4 DEF Init, LayerInv, AnswersInv, SwitchInv, Switched
<1>6. Conversation /\ MessagesAssembled
  BY <1>1 DEF Init, Conversation, MessagesAssembled
<1>7. AssemblyInv
  BY <1>1, <1>4 DEF AssemblyInv
<1> QED
  BY <1>2, <1>3, <1>5, <1>6, <1>7 DEF IInv

LEMMA Invariance == Spec => []IInv
<1>1. IInv /\ [Next]_vars => IInv'
  <2> SUFFICES ASSUME IInv, [Next]_vars PROVE IInv'
    OBVIOUS
  <2>1. TypeOK' /\ SetUpInv'
    BY TypeKept, SetUpKept DEF IInv
  <2>2. CloseInv' /\ LayerInv' /\ AnswersInv' /\ SwitchInv' /\ Conversation'
    BY CloseKept, LayerKept, AnswersKept, SwitchKept, ConversationKept
  <2>3. AssemblyInv' /\ MessagesAssembled'
    BY AssemblyKept
  <2> QED
    BY <2>1, <2>2, <2>3 DEF IInv
<1> QED
  BY <1>1, Initially, PTL DEF Spec

\* Every value keeps its type, and only an item that arrived whole is handled.
THEOREM TypeCorrect == Spec => []TypeOK
<1>1. IInv => TypeOK
  BY DEF IInv
<1> QED
  BY <1>1, Invariance, PTL

\* Whatever the peer sends, and whoever closes the connection when: onData gets
\* every request and every message once and in order, and a message is made of
\* all its frames and of no other's, also of frames between which came others.
THEOREM MessagesWhole == Spec => []MessagesAssembled
<1>1. IInv => MessagesAssembled
  BY DEF IInv
<1> QED
  BY <1>1, Invariance, PTL

\* The n-th answer on the socket is for the n-th request, nothing but pushed
\* data follows a refusal or an upgrade, and data is pushed only after the
\* answer that announced its protocol, although two threads write and any
\* send can fail.
THEOREM ConversationOrdered == Spec => []Conversation
<1>1. IInv => Conversation
  BY DEF IInv
<1> QED
  BY <1>1, Invariance, PTL
=============================================================================
