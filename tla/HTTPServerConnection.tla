------------------------ MODULE HTTPServerConnection ------------------------
(***************************************************************************)
(* One connection of protocol.HTTPServer, from accept() to its end: the    *)
(* server's thread that sets it up and lists it, its receiver thread, which *)
(* parses requests, upgrades the connection to a WebSocket or to           *)
(* server-sent events and assembles WebSocket messages, and an application *)
(* thread that pushes data and may close it.  How the bytes of an item are *)
(* buffered and how chunks are sent is the subject of ProtocolConnection.  *)
(*                                                                         *)
(* After an upgrade to a WebSocket the connection has two objects on one   *)
(* socket, each with a closed flag of its own: the HTTPServerConnection    *)
(* that owns the receiver, and the WSConnection that handles the frames.   *)
(***************************************************************************)
EXTENDS Integers, Sequences

CONSTANTS
  Scripts,      \* the sequences of items the peer may send
  MaxPushes     \* bound: messages the application thread pushes

Requests == {"get", "wsReq", "wsBadVersion", "sseReq"}
Opcodes == {"text", "binary", "continuation", "ping", "connectionClose"}
Frame(op, fin) == [t |-> "frame", op |-> op, fin |-> fin]
Request(r) == [t |-> r, op |-> "none", fin |-> TRUE]
Items == {Request(r) : r \in Requests} \cup {Frame(op, fin) : op \in Opcodes, fin \in BOOLEAN}
(* Where a recv() can end inside an item: after whole lines, inside a line *)
(* of a request's head, or inside its body.                                *)
Cuts == {"line", "midLine", "body"}

(* An item is what the last protocol reads at its place: frames, and only  *)
(* frames, are read after the first request for a WebSocket.               *)
ASSUME ScriptsAssumption ==
  /\ Scripts \subseteq Seq(Items)
  /\ \A s \in Scripts : \A i \in DOMAIN s :
       s[i].t = "frame" <=> \E j \in 1..(i - 1) : s[j].t = "wsReq"
ASSUME PushesAssumption == MaxPushes \in Nat

VARIABLES
  script,       \* what the peer sends on this connection
  received,     \* items that have arrived whole
  tail,         \* where the last recv() ended: "none" or a member of Cuts
  sockOpen,
  outbound,     \* what was written to the socket, and the protocol that packed it
  spc,          \* the server's thread
  listening,    \* the server's close listener is among onCloseListeners
  listed,       \* the connection is in the server's connections
  rpc,          \* the receiver
  done,         \* items taken out of the receiver's buffer
  state,        \* HTTPConnectionState
  layer,        \* the last protocol of the stack
  closed,       \* HTTPServerConnection.closed
  wsClosed,     \* WSConnection.closed
  dataBuffer,   \* WSConnection.dataBuffer: the frames of a message so far
  delivered,    \* history: what onData was given, and the items it is made of
  apc, pushes,  \* the application thread
  pc            \* close(), for each thread that runs it

socket == <<script, received, tail>>
server == <<spc, listening, listed>>
upgrade == <<state, layer>>
ws == <<wsClosed, dataBuffer>>
app == <<apc, pushes>>
vars == <<socket, sockOpen, outbound, server, rpc, done, upgrade, closed, ws,
          delivered, app, pc>>

Threads == {"server", "receiver", "app"}

Init ==
  /\ script \in Scripts
  /\ received = 0 /\ tail = "none"
  /\ sockOpen = TRUE /\ outbound = <<>>
  /\ spc = "onConnection" /\ listening = FALSE /\ listed = FALSE
  /\ rpc = "off" /\ done = 0
  /\ state = "HTTP" /\ layer = "HTTP"
  /\ closed = FALSE /\ wsClosed = FALSE /\ dataBuffer = <<>>
  /\ delivered = <<>>
  /\ apc = "none" /\ pushes = 0
  /\ pc = [t \in Threads |-> "idle"]

Item == script[done + 1]
Buffered == received > done

-----------------------------------------------------------------------------
(* ProtocolConnection.close on the outer object, by any thread. *)

BeginClose(t) == pc' = [pc EXCEPT ![t] = "check"]

Close(t) ==
  /\ pc[t] = "check"
  /\ closed' = TRUE
  /\ pc' = [pc EXCEPT ![t] = IF closed THEN "idle" ELSE "sock"]
  /\ UNCHANGED <<socket, sockOpen, outbound, server, rpc, done, upgrade, ws,
                 delivered, app>>

CloseSocket(t) ==
  /\ pc[t] = "sock"
  /\ sockOpen' = FALSE
  /\ pc' = [pc EXCEPT ![t] = "listeners"]
  /\ UNCHANGED <<socket, outbound, server, rpc, done, upgrade, closed, ws,
                 delivered, app>>

(* ProtocolServer.__onConnectionClose, if it is registered by now. *)
RunListeners(t) ==
  /\ pc[t] = "listeners"
  /\ listed' = (listed /\ ~listening)
  /\ pc' = [pc EXCEPT ![t] = "idle"]
  /\ UNCHANGED <<socket, sockOpen, outbound, spc, listening, rpc, done, upgrade, closed,
                 ws, delivered, app>>

(* sendData.  It fails when the socket is closed or the peer is gone: then *)
(* it closes the connection, and no caller here looks at the result.       *)
SendOrClose(t, data) ==
  \/ sockOpen /\ outbound' = Append(outbound, <<data, layer>>) /\ UNCHANGED pc
  \/ BeginClose(t) /\ UNCHANGED outbound

-----------------------------------------------------------------------------
(* ProtocolServer.listen, from accept() to startRecv() *)

OnConnection ==
  /\ spc = "onConnection"
  /\ spc' = "listen"
  /\ apc' = "knows"
  /\ UNCHANGED <<socket, sockOpen, outbound, listening, listed, rpc, done, upgrade, closed,
                 ws, delivered, pushes, pc>>

AppendListener ==
  /\ spc = "listen"
  /\ listening' = TRUE
  /\ spc' = "list"
  /\ UNCHANGED <<socket, sockOpen, outbound, listed, rpc, done, upgrade, closed, ws,
                 delivered, app, pc>>

AppendConnection ==
  /\ spc = "list"
  /\ listed' = TRUE
  /\ spc' = "startRecv"
  /\ UNCHANGED <<socket, sockOpen, outbound, listening, rpc, done, upgrade, closed, ws,
                 delivered, app, pc>>

StartRecv ==
  /\ spc = "startRecv"
  /\ spc' = "accept"
  /\ rpc' = "loop"
  /\ UNCHANGED <<socket, sockOpen, outbound, listening, listed, done, upgrade, closed, ws,
                 delivered, app, pc>>

Serve == OnConnection \/ AppendListener \/ AppendConnection \/ StartRecv

-----------------------------------------------------------------------------
(* ProtocolConnection.receive *)

OuterStep(from, to) ==
  /\ rpc = from
  /\ rpc' = to
  /\ UNCHANGED <<socket, sockOpen, outbound, server, done, upgrade, closed, ws,
                 delivered, app>>

CheckLoop == OuterStep("loop", IF closed THEN "done" ELSE "recv") /\ UNCHANGED pc

EnterRecv ==
  \/ sockOpen /\ OuterStep("recv", "blocked") /\ UNCHANGED pc
  \/ ~sockOpen /\ OuterStep("recv", "ending") /\ BeginClose("receiver")

(* n more items arrive whole, and perhaps a piece of the next one. *)
ReceiveData(n, cut) ==
  /\ rpc = "blocked"
  /\ received + n <= Len(script)
  /\ n > 0 \/ (tail = "none" /\ cut # "none")
  /\ cut # "none" => received + n < Len(script)
  /\ received' = received + n
  /\ tail' = cut
  /\ rpc' = "scan"
  /\ UNCHANGED <<script, sockOpen, outbound, server, done, upgrade, closed, ws,
                 delivered, app, pc>>

(* The peer ends the connection when it has sent everything. *)
ReceiveEmpty ==
  /\ received = Len(script)
  /\ OuterStep("blocked", "ending")
  /\ BeginClose("receiver")

ReceiveAborted ==
  /\ ~sockOpen
  /\ OuterStep("blocked", "ending")
  /\ BeginClose("receiver")

EndReceive == pc["receiver"] = "idle" /\ OuterStep("ending", "done") /\ UNCHANGED pc

-----------------------------------------------------------------------------
(* The unpackers.  Neither WSProtocol nor SSEProtocol ever fails: WSProtocol *)
(* asks for more data, SSEProtocol always does.  HTTPServerProtocol asks   *)
(* for more when a read runs off the buffer, but a search for the end of a *)
(* line that is not there raises IndexError.                               *)

AskForMore ==
  \/ ~Buffered /\ tail = "none"
  \/ Buffered /\ layer = "SSE"
  \/ ~Buffered /\ tail # "none" /\ (layer = "HTTP" => tail # "midLine")

NeedMoreData ==
  /\ AskForMore
  /\ ~closed
  /\ OuterStep("scan", "loop") /\ UNCHANGED pc

ReadLineRaises ==
  /\ ~closed
  /\ ~Buffered /\ layer = "HTTP" /\ tail = "midLine"
  /\ OuterStep("scan", "dead") /\ UNCHANGED pc

StopScanning == closed /\ OuterStep("scan", "loop") /\ UNCHANGED pc

Unpack ==
  /\ ~closed
  /\ Buffered /\ layer # "SSE"
  /\ OuterStep("scan", "inner") /\ UNCHANGED pc

(* The item is consumed, whatever becomes of it; the next one is tried. *)
Consume == done' = done + 1 /\ rpc' = "scan"

Cancel ==
  /\ rpc = "inner"
  /\ closed
  /\ Consume
  /\ UNCHANGED <<socket, sockOpen, outbound, server, upgrade, closed, ws,
                 delivered, app, pc>>

-----------------------------------------------------------------------------
(* HTTPServerConnection.onDataInner, for a request *)

Inner(kinds) == rpc = "inner" /\ ~closed /\ Item.t \in kinds

(* The application's checker decides, before the request is looked at. *)
Deny(status) ==
  /\ Inner({"wsReq", "wsBadVersion", "sseReq"})
  /\ status = (IF Item.t = "sseReq" THEN "406" ELSE "403")
  /\ rpc' = "denied"
  /\ SendOrClose("receiver", status)
  /\ UNCHANGED <<socket, sockOpen, server, done, upgrade, closed, ws, delivered, app>>

RequireUpgrade ==
  /\ Inner({"wsBadVersion"})
  /\ rpc' = "denied"
  /\ SendOrClose("receiver", "426")
  /\ UNCHANGED <<socket, sockOpen, server, done, upgrade, closed, ws, delivered, app>>

CloseDenied ==
  /\ rpc = "denied"
  /\ pc["receiver"] = "idle"
  /\ BeginClose("receiver")
  /\ rpc' = "callback"
  /\ UNCHANGED <<socket, sockOpen, outbound, server, done, upgrade, closed, ws, delivered, app>>

Accept ==
  /\ Inner({"wsReq", "sseReq"})
  /\ rpc' = "upgrade"
  /\ SendOrClose("receiver", IF Item.t = "wsReq" THEN "101" ELSE "stream")
  /\ UNCHANGED <<socket, sockOpen, server, done, upgrade, closed, ws, delivered, app>>

(* As if the state changed before the protocols. *)
RemoveProtocolLate ==
  /\ rpc = "upgrade"
  /\ pc["receiver"] = "idle"
  /\ layer' = "TCP"
  /\ state' = IF Item.t = "wsReq" THEN "WS" ELSE "SSE"
  /\ rpc' = "add"
  /\ UNCHANGED <<socket, sockOpen, outbound, server, done, closed, ws, delivered, app, pc>>

RemoveProtocol ==
  /\ rpc = "upgrade"
  /\ pc["receiver"] = "idle"
  /\ layer' = "TCP"
  /\ rpc' = "add"
  /\ UNCHANGED <<socket, sockOpen, outbound, server, done, state, closed, ws, delivered, app,
                 pc>>

(* The new protocol is added, then the state changes; nobody looks for the *)
(* protocol before the state has changed.                                  *)
AddProtocol ==
  /\ rpc = "add"
  /\ layer' = IF Item.t = "wsReq" THEN "WS" ELSE "SSE"
  /\ state' = layer'
  /\ rpc' = "callback"
  /\ UNCHANGED <<socket, sockOpen, outbound, server, done, closed, ws, delivered, app, pc>>

(* A request, or the last frame of a message, with the items before it.    *)
Deliver(kind, earlier) ==
  delivered' = Append(delivered, [kind |-> kind, parts |-> Append(earlier, done + 1)])

OnRequest ==
  /\ Inner({"get"})
  /\ Deliver("request", <<>>)
  /\ rpc' = "callback"
  /\ SendOrClose("receiver", "200")
  /\ UNCHANGED <<socket, sockOpen, server, done, upgrade, closed, ws, app>>

-----------------------------------------------------------------------------
(* WSConnection.onDataInner, for a frame *)

(* As if the buffer were kept after a message (issue 8 of the repository). *)
OnFinalFrameKept ==
  /\ Inner({"frame"}) /\ Item.op \in {"text", "binary"} /\ Item.fin
  /\ Deliver(Item.op, dataBuffer)
  /\ dataBuffer' = Append(dataBuffer, done + 1)
  /\ rpc' = "callback"
  /\ UNCHANGED <<socket, sockOpen, outbound, server, done, upgrade, closed, wsClosed, app, pc>>

OnFinalFrame ==
  /\ Inner({"frame"}) /\ Item.op \in {"text", "binary"} /\ Item.fin
  /\ Deliver(Item.op, dataBuffer)
  /\ dataBuffer' = <<>>
  /\ rpc' = "callback"
  /\ UNCHANGED <<socket, sockOpen, outbound, server, done, upgrade, closed, wsClosed, app, pc>>

OnPartialFrame ==
  /\ Inner({"frame"}) /\ Item.op \in {"text", "binary"} /\ ~Item.fin
  /\ dataBuffer' = Append(dataBuffer, done + 1)
  /\ Consume
  /\ UNCHANGED <<socket, sockOpen, outbound, server, upgrade, closed, wsClosed, delivered, app, pc>>

(* As if the frame only marked the connection closed. *)
MarkClosedOnly ==
  /\ Inner({"frame"}) /\ Item.op \notin {"text", "binary"}
  /\ wsClosed' = TRUE
  /\ Consume
  /\ UNCHANGED <<socket, sockOpen, outbound, server, upgrade, closed, dataBuffer, delivered, app, pc>>

(* A close frame, and any opcode it does not know, closes the WSConnection *)
(* and with it the socket that it shares.  It has no close listeners.      *)
CloseWebSocket ==
  /\ Inner({"frame"}) /\ Item.op \notin {"text", "binary"}
  /\ wsClosed' = TRUE
  /\ sockOpen' = (sockOpen /\ wsClosed)
  /\ Consume
  /\ UNCHANGED <<socket, outbound, server, upgrade, closed, dataBuffer, delivered, app, pc>>

CallbackCloses ==
  /\ rpc = "callback"
  /\ pc["receiver"] = "idle" /\ ~closed
  /\ BeginClose("receiver")
  /\ UNCHANGED <<socket, sockOpen, outbound, server, rpc, done, upgrade, closed, ws,
                 delivered, app>>

(* The application's callback returns, and the calls it made. *)
ReturnFromCallback ==
  /\ rpc = "callback"
  /\ pc["receiver"] = "idle"
  /\ Consume
  /\ UNCHANGED <<socket, sockOpen, outbound, server, upgrade, closed, ws, delivered,
                 app, pc>>

-----------------------------------------------------------------------------
(* The application's own thread *)

(* It pushes what it has once it is told of the upgrade, or sees the state *)
(* that says so (didUpgradeToWS, didUpgradeToSSE).                         *)
Push ==
  /\ apc = "knows" /\ state # "HTTP" /\ pushes < MaxPushes
  /\ pc["app"] = "idle"
  /\ pushes' = pushes + 1
  /\ SendOrClose("app", "push")
  /\ UNCHANGED <<socket, sockOpen, server, rpc, done, upgrade, closed, ws, delivered, apc>>

AppCloses ==
  /\ apc = "knows"
  /\ pc["app"] = "idle"
  /\ apc' = "stopped"
  /\ BeginClose("app")
  /\ UNCHANGED <<socket, sockOpen, outbound, server, rpc, done, upgrade, closed, ws,
                 delivered, pushes>>

-----------------------------------------------------------------------------
OnItem ==
  \/ \E status \in {"403", "406"} : Deny(status)
  \/ RequireUpgrade \/ CloseDenied \/ Accept \/ RemoveProtocol \/ AddProtocol
  \/ OnRequest \/ OnFinalFrame \/ OnPartialFrame \/ CloseWebSocket

(* Receiving is up to the peer; everything else the receiver does is not.  *)
Receive ==
  \/ CheckLoop \/ EnterRecv \/ EndReceive
  \/ NeedMoreData \/ ReadLineRaises \/ StopScanning \/ Unpack \/ Cancel
  \/ OnItem \/ ReturnFromCallback

PeerActs ==
  \/ \E n \in 0..Len(script), cut \in Cuts \cup {"none"} : ReceiveData(n, cut)
  \/ ReceiveEmpty

RunClose(t) == Close(t) \/ CloseSocket(t) \/ RunListeners(t)

Next ==
  \/ Serve \/ Receive \/ PeerActs \/ ReceiveAborted
  \/ CallbackCloses \/ Push \/ AppCloses
  \/ \E t \in Threads : RunClose(t)

Spec == Init /\ [][Next]_vars

(* Threads that can run are run.  Nothing makes the peer send or end, or   *)
(* the application push or close.                                          *)
FairSpec ==
  /\ Spec
  /\ WF_vars(Serve) /\ WF_vars(Receive)
  /\ \A t \in Threads : WF_vars(RunClose(t))

-----------------------------------------------------------------------------
(* Properties *)

(* What can be written: answers, and what the application pushes.          *)
Data == {"200", "101", "stream", "403", "406", "426", "push"}
Layers == {"HTTP", "TCP", "WS", "SSE"}

(* Every variable has its type; an item that is handled has arrived whole. *)
TypeOK ==
  /\ script \in Scripts
  /\ received \in 0..Len(script) /\ done \in 0..received
  /\ rpc \in {"inner", "denied", "upgrade", "add", "callback"} => done < received
  /\ tail \in Cuts \cup {"none"}
  /\ sockOpen \in BOOLEAN /\ closed \in BOOLEAN /\ wsClosed \in BOOLEAN
  /\ listening \in BOOLEAN /\ listed \in BOOLEAN
  /\ spc \in {"onConnection", "listen", "list", "startRecv", "accept"}
  /\ rpc \in {"off", "loop", "recv", "blocked", "scan", "inner", "denied", "upgrade",
              "add", "callback", "ending", "done", "dead"}
  /\ state \in Layers \ {"TCP"} /\ layer \in Layers
  /\ pc \in [Threads -> {"idle", "check", "sock", "listeners"}]
  /\ apc \in {"none", "knows", "stopped"}
  /\ pushes \in 0..MaxPushes
  /\ outbound \in Seq(Data \X Layers)
  /\ dataBuffer \in Seq(Nat)
  /\ delivered \in Seq([kind : {"request", "text", "binary"}, parts : Seq(Nat)])

(* The items that the application should get, and one following another.   *)
ForApplication(i) == script[i].t = "get" \/ script[i].op \in {"text", "binary"}
Follows(p, q) == p < q /\ \A i \in (p + 1)..(q - 1) : ~ForApplication(i)

(* All of them after an item, up to the first that ends a message.         *)
Whole(before, parts) ==
  /\ parts # <<>>
  /\ \A k \in 1..Len(parts) :
       /\ Follows(IF k = 1 THEN before ELSE parts[k - 1], parts[k])
       /\ parts[k] \in DOMAIN script /\ ForApplication(parts[k])
       /\ script[parts[k]].fin <=> k = Len(parts)

(* The last item of the n-th thing that was delivered.                     *)
EndOf(n) == IF n = 0 THEN 0 ELSE delivered[n].parts[Len(delivered[n].parts)]

(* However the items arrive, and whoever closes the connection meanwhile,  *)
(* the application gets each request and each message once, in the order   *)
(* they were sent: a message is made of all the frames since the one       *)
(* before, up to the first that says it is the last, and of nothing else.  *)
MessagesAssembled == \A n \in DOMAIN delivered : Whole(EndOf(n - 1), delivered[n].parts)

(* The conversation on the socket: the n-th thing written answers the n-th *)
(* request, a refusal is the last of them, and what the application pushes *)
(* follows the answer that switched protocols, packed by the new one.      *)
AnswersTo ==
  [get |-> {"200"}, wsReq |-> {"101", "403"}, wsBadVersion |-> {"426", "403"},
   sseReq |-> {"stream", "406"}]
Switched == [WS |-> "101", SSE |-> "stream"]

Conversation ==
  \A i \in DOMAIN outbound :
    IF outbound[i][1] = "push"
    THEN \E j \in 1..(i - 1) : /\ outbound[i][2] \in DOMAIN Switched
                               /\ outbound[j][1] = Switched[outbound[i][2]]
    ELSE /\ i <= Len(script) /\ script[i].t # "frame"
         /\ outbound[i] \in AnswersTo[script[i].t] \X {"HTTP"}
         /\ \A j \in 1..(i - 1) : outbound[j][1] = "200"

(* A connection that the server lists is taken off the list when it ends,  *)
(* also when what ended was only the WebSocket on top of it.               *)
EndedConnectionsAreUnlisted ==
  [](listed /\ ~closed => ((closed \/ wsClosed) ~> ~listed))

(* A part of a request makes the receiver wait for the rest of it, as the  *)
(* docstring of tryReceivedData says.                                      *)
PartialRequestAsksForMore ==
  [][rpc = "scan" /\ ~Buffered /\ rpc' # rpc => rpc' = "loop"]_vars
=============================================================================
