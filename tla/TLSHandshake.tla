---------------------------- MODULE TLSHandshake ----------------------------
(***************************************************************************)
(* protocol.HTTPSConnection: the client's side of a TLS handshake.  The    *)
(* constructor starts the receiver thread and then sends the ClientHello;  *)
(* the receiver takes the server's records, each of several messages, and  *)
(* drives the state of the connection.  The code never sends "Finished",   *)
(* so that the handshake ends, at best, with the change of cipher.         *)
(*                                                                         *)
(* A record that comes in pieces, and close() step by step, are the        *)
(* subject of ProtocolConnection: here each is one step.  Of a record this *)
(* is kept: its kind, the messages that can be read, and what reading the  *)
(* rest of it does.  Certificates are verified by a library (external).    *)
(***************************************************************************)
EXTENDS Naturals, Sequences, Functions

CONSTANTS
  Flights,   \* the sequences of records the server may send
  None

(* Reading the rest of a record succeeds, makes the code send an alert     *)
(* (AlertCause, or a read behind the end), or raises something else.       *)
Faults == {"none", "alert", "raise"}
Kinds == {"handshake", "fatal", "warning", "other", "application"}
Hellos == [type : {"ServerHello"}, version : {11, 12, 13}, mark : {"", "00", "01"}, ecdhe : BOOLEAN]
Messages == Hellos \cup [type : {"Certificate", "ServerHelloDone", "Other"}]

ASSUME TLSAssumption ==
  /\ Flights \subseteq Seq([kind : Kinds, messages : Seq(Messages), fault : Faults])
  /\ None \notin Hellos

VARIABLES
  flight, arrived,       \* the server's records, and how many have arrived
  peer,                  \* "open" or "gone"
  sent,                  \* what was written to the socket
  closed,
  state,                 \* ConnectionState.state
  pendingCipher,         \* the hello that chose version and cipher
  selectedCipher,
  serverHelloMessages,   \* _serverHelloMessages
  verified,              \* a certificate chain was verified
  consumed,              \* how many records the receiver has taken
  todo,                  \* messages of the record that are not handled yet
  rpc, mpc               \* where the receiver and the constructor are

wire == <<flight, arrived, peer>>
crypto == <<pendingCipher, selectedCipher, serverHelloMessages, verified>>
vars == <<wire, sent, closed, state, crypto, consumed, todo, rpc, mpc>>

\* A connect() that timed out has closed the connection.
Init ==
  /\ flight \in Flights /\ arrived = 0 /\ peer = "open"
  /\ sent = <<>> /\ closed \in BOOLEAN
  /\ state = "INIT"
  /\ pendingCipher = None /\ selectedCipher = None
  /\ serverHelloMessages = <<>> /\ verified = FALSE
  /\ consumed = 0 /\ todo = <<>>
  /\ rpc = "loop" /\ mpc = "hello"

----------------------------------------------------------------------------
(* The server may speak, also before the ClientHello that the constructor   *)
(* sends when the receiver is already there, and go away, at any time.     *)

Arrive ==
  /\ peer = "open" /\ arrived < Len(flight)
  /\ arrived' = arrived + 1
  /\ UNCHANGED <<flight, peer, sent, closed, state, crypto, consumed, todo, rpc, mpc>>

PeerLeaves ==
  /\ peer = "open"
  /\ peer' = "gone"
  /\ UNCHANGED <<flight, arrived, sent, closed, state, crypto, consumed, todo, rpc, mpc>>

----------------------------------------------------------------------------
(* sendData(): a failure closes the connection and is not reported further. *)

Send(what) ==
  \/ ~closed /\ sent' = Append(sent, what) /\ UNCHANGED closed
  \/ (closed \/ peer = "gone") /\ closed' = TRUE /\ UNCHANGED sent

\* sendAlert() of a fatal alert.
SendAlert == Send("alert")

----------------------------------------------------------------------------
(* The constructor, and the application, which may close the connection but *)
(* cannot send: there is no ApplicationRecord before APPLICATION_DATA.      *)

\* As if the state was also set in advance, so that no record meets INIT.
SendHelloAnnounced ==
  /\ mpc = "hello"
  /\ Send("hello")
  /\ state' = "CLIENT_HELLO_SENT"
  /\ mpc' = "sent"
  /\ UNCHANGED <<wire, crypto, consumed, todo, rpc>>

SendHello ==
  /\ mpc = "hello"
  /\ Send("hello")
  /\ mpc' = "sent"
  /\ UNCHANGED <<wire, state, crypto, consumed, todo, rpc>>

HelloSent ==
  /\ mpc = "sent"
  /\ state' = "CLIENT_HELLO_SENT"
  /\ mpc' = "constructed"
  /\ UNCHANGED <<wire, sent, closed, crypto, consumed, todo, rpc>>

Close ==
  /\ mpc = "constructed" /\ ~closed
  /\ closed' = TRUE
  /\ UNCHANGED <<wire, sent, state, crypto, consumed, todo, rpc, mpc>>

----------------------------------------------------------------------------
(* The receiver: records.                                                  *)

\* Only the place in the code changes.
GoTo(place) ==
  /\ rpc' = place
  /\ UNCHANGED <<wire, sent, closed, state, crypto, consumed, todo, mpc>>

TakeRecord ==
  /\ rpc = "loop" /\ ~closed /\ consumed < arrived
  /\ consumed' = consumed + 1
  /\ rpc' = "read"
  /\ UNCHANGED <<wire, sent, closed, state, crypto, todo, mpc>>

ReceiverEnds ==
  /\ rpc = "loop"
  /\ closed \/ (peer = "gone" /\ consumed = arrived)
  /\ closed' = TRUE
  /\ rpc' = "done"
  /\ UNCHANGED <<wire, sent, state, crypto, consumed, todo, mpc>>

Record == flight[consumed]

\* The ApplicationRecord of a connection that is not in state APPLICATION_DATA
\* cannot be made.  Nothing catches what is raised, nothing closes.
ReadRaises ==
  /\ rpc = "read"
  /\ Record.kind = "application" \/ Record.fault = "raise"
  /\ GoTo("dead")

\* Other records than an ApplicationRecord stop the unpacking and are read
\* again, from a copy; the second alert finds the socket closed.
ReadRecord ==
  /\ rpc = "read"
  /\ Record.kind # "application" /\ Record.fault # "raise"
  /\ IF Record.fault = "alert"
       THEN SendAlert /\ rpc' = "close"
       ELSE rpc' = "inner" /\ UNCHANGED <<sent, closed>>
  /\ todo' = Record.messages
  /\ UNCHANGED <<wire, state, crypto, consumed, mpc>>

\* The record is handled although reading it closed the connection.
CloseAfterRead ==
  /\ rpc = "close"
  /\ closed' = TRUE
  /\ rpc' = "inner"
  /\ UNCHANGED <<wire, sent, state, crypto, consumed, todo, mpc>>

----------------------------------------------------------------------------
(* onDataInner()                                                           *)

Expected ==
  /\ state \in {"CLIENT_HELLO_SENT", "SERVER_HELLO_RECEIVED"}
  /\ Record.kind = "handshake"

FatalAlert ==
  /\ rpc = "inner" /\ Record.kind = "fatal" /\ Record.fault = "none"
  /\ closed' = TRUE
  /\ rpc' = "loop"
  /\ UNCHANGED <<wire, sent, state, crypto, consumed, todo, mpc>>

Dispatch ==
  /\ rpc = "inner" /\ ~(Record.kind = "fatal" /\ Record.fault = "none")
  /\ GoTo(IF Expected THEN "messages" ELSE "error")

\* An exception in the handler: sendAlert() closes itself, or close() follows.
ReportError ==
  /\ rpc = "error"
  /\ SendAlert
  /\ rpc' = "closeAfterError"
  /\ UNCHANGED <<wire, state, crypto, consumed, todo, mpc>>

\* As if sendAlert() did it.
ForgetToClose ==
  /\ rpc = "closeAfterError"
  /\ GoTo("loop")

CloseAfterError ==
  /\ rpc = "closeAfterError"
  /\ closed' = TRUE
  /\ rpc' = "loop"
  /\ UNCHANGED <<wire, sent, state, crypto, consumed, todo, mpc>>

----------------------------------------------------------------------------
(* onDataInner(): messages.                                                *)

AtMessage(type) == rpc = "messages" /\ todo # <<>> /\ Head(todo).type = type

RecordHandled ==
  /\ rpc = "messages" /\ todo = <<>>
  /\ GoTo("loop")

\* The comparison with the version known so far, which is TLS 1.3.
AcceptsVersion(hello) ==
  \/ hello.version = 13
  \/ hello.version = 12 /\ hello.mark = "01"
  \/ hello.version = 11 /\ hello.mark = "00"

ServerHello ==
  /\ AtMessage("ServerHello") /\ state = "CLIENT_HELLO_SENT"
  /\ state' = "SERVER_HELLO_RECEIVED"
  /\ IF AcceptsVersion(Head(todo))
       THEN /\ pendingCipher' = Head(todo)
            /\ rpc' = "messages"
       ELSE rpc' = "error" /\ UNCHANGED pendingCipher
  /\ todo' = Tail(todo)
  /\ UNCHANGED <<wire, sent, closed, selectedCipher, serverHelloMessages, verified, consumed, mpc>>

ServerHelloDone ==
  /\ AtMessage("ServerHelloDone") /\ state = "SERVER_HELLO_RECEIVED"
  /\ state' = "SERVER_HELLO_DONE"
  /\ rpc' = "verify"
  /\ UNCHANGED <<wire, sent, closed, crypto, consumed, todo, mpc>>

\* A failing assertion on the state.
UnexpectedMessage ==
  /\ \/ AtMessage("ServerHello") /\ state # "CLIENT_HELLO_SENT"
     \/ AtMessage("ServerHelloDone") /\ state # "SERVER_HELLO_RECEIVED"
  /\ GoTo("error")

\* As if what comes before the ServerHello was kept.
KeepAnyMessage ==
  /\ AtMessage("Certificate") \/ AtMessage("Other")
  /\ serverHelloMessages' = Append(serverHelloMessages, Head(todo))
  /\ todo' = Tail(todo)
  /\ UNCHANGED <<wire, sent, closed, state, pendingCipher, selectedCipher, verified, consumed, rpc, mpc>>

KeepMessage ==
  /\ AtMessage("Certificate") \/ AtMessage("Other")
  /\ serverHelloMessages' = IF state = "SERVER_HELLO_RECEIVED"
                              THEN Append(serverHelloMessages, Head(todo))
                              ELSE serverHelloMessages
  /\ todo' = Tail(todo)
  /\ UNCHANGED <<wire, sent, closed, state, pendingCipher, selectedCipher, verified, consumed, rpc, mpc>>

----------------------------------------------------------------------------
(* _handleServerHelloDone() and _sendKey()                                 *)

HasCertificate == \E i \in DOMAIN serverHelloMessages : serverHelloMessages[i].type = "Certificate"

\* Alert 116, of TLS 1.3, is not in the table of alerts: making the record
\* raises in the handler of the exception, and ends the receiver.
NoCertificate ==
  /\ rpc = "verify" /\ ~HasCertificate
  /\ GoTo(IF pendingCipher.version = 13 THEN "dead" ELSE "error")

VerifyPeerCertificates ==
  /\ rpc = "verify" /\ HasCertificate
  /\ verified' \in BOOLEAN
  /\ rpc' = IF verified' THEN "key" ELSE "error"
  /\ UNCHANGED <<wire, sent, closed, state, pendingCipher, selectedCipher, serverHelloMessages,
                 consumed, todo, mpc>>

SendKey ==
  /\ rpc = "key" /\ pendingCipher.ecdhe
  /\ Send("key")
  /\ state' = "KEY_SENT"
  /\ rpc' = "changeCipher"
  /\ UNCHANGED <<wire, crypto, consumed, todo, mpc>>

\* ClientKeyExchangeMessage.write() knows no other suites.
KeyNotImplemented ==
  /\ rpc = "key" /\ ~pendingCipher.ecdhe
  /\ GoTo("error")

SendChangeCipher ==
  /\ rpc = "changeCipher"
  /\ Send("changeCipher")
  /\ state' = "CHANGE_CIPHER_SENT"
  /\ selectedCipher' = pendingCipher
  /\ rpc' = "loop"
  /\ UNCHANGED <<wire, pendingCipher, serverHelloMessages, verified, consumed, todo, mpc>>

----------------------------------------------------------------------------
Constructor == SendHello \/ HelloSent

Receive ==
  \/ TakeRecord \/ ReceiverEnds \/ ReadRaises \/ ReadRecord \/ CloseAfterRead
  \/ FatalAlert \/ Dispatch \/ ReportError \/ CloseAfterError
  \/ RecordHandled \/ ServerHello \/ ServerHelloDone \/ UnexpectedMessage \/ KeepMessage
  \/ NoCertificate \/ VerifyPeerCertificates
  \/ SendKey \/ KeyNotImplemented \/ SendChangeCipher

Next == Arrive \/ PeerLeaves \/ Constructor \/ Close \/ Receive

Spec == Init /\ [][Next]_vars /\ WF_vars(Constructor) /\ WF_vars(Receive)

----------------------------------------------------------------------------
(* Properties                                                              *)

States == <<"INIT", "CLIENT_HELLO_SENT", "SERVER_HELLO_RECEIVED", "SERVER_HELLO_DONE",
            "KEY_SENT", "CHANGE_CIPHER_SENT">>

\* Every value keeps its type; a cipher is pending as long as one is needed.
TypeOK ==
  /\ arrived \in 0 .. Len(flight) /\ consumed \in 0 .. arrived
  /\ peer \in {"open", "gone"} /\ closed \in BOOLEAN
  /\ sent \in Seq({"hello", "key", "changeCipher", "alert"})
  /\ state \in Range(States)
  /\ pendingCipher \in Hellos \cup {None} /\ selectedCipher \in Hellos \cup {None}
  /\ rpc \in {"verify", "key", "changeCipher"} => pendingCipher # None
  /\ serverHelloMessages \in Seq(Messages) /\ todo \in Seq(Messages)
  /\ verified \in BOOLEAN
  /\ rpc \in {"loop", "read", "close", "inner", "messages", "error", "closeAfterError",
              "verify", "key", "changeCipher", "done", "dead"}
  /\ mpc \in {"hello", "sent", "constructed"}

\* What is on the wire: the hello, then the key, then the change of cipher, as
\* far as the handshake came, and at most one alert, after which nothing comes,
\* whoever closes the connection and whatever the server sends.  One exception:
\* the alert about a record that came before the hello may be followed by the
\* hello, if the constructor writes it before the receiver closes (lines 89-93).
WireOrder ==
  \/ \E n \in 0 .. 3 :
       LET handshake == SubSeq(<<"hello", "key", "changeCipher">>, 1, n)
       IN sent = handshake \/ sent = Append(handshake, "alert")
  \/ sent = <<"alert", "hello">>

\* The client speaks first, as in the diagram that line 109 links to.  Not kept:
\* the receiver answers a record that comes before the hello with an alert.
HelloComesFirst == sent # <<>> => Head(sent) = "hello"

\* Where the messages are that the receiver has taken: record and place in it.
Places == UNION {{r} \X DOMAIN flight[r].messages : r \in 1 .. consumed}
MessageAt(p) == flight[p[1]].messages[p[2]]
Before(p, q) == p[1] < q[1] \/ (p[1] = q[1] /\ p[2] < q[2])

\* The key is only sent to a server whose certificates were verified, and they
\* were sent between its ServerHello and its ServerHelloDone.
KeyAfterCertificates ==
  "key" \in Range(sent) =>
    /\ verified
    /\ \E p, q, r \in Places :
         /\ Before(p, q) /\ Before(q, r)
         /\ MessageAt(p) = pendingCipher
         /\ MessageAt(q).type = "Certificate"
         /\ MessageAt(r).type = "ServerHelloDone"

Index(s) == CHOOSE i \in DOMAIN States : States[i] = s

\* The constructor and the receiver both set the state; it only goes forward,
\* although the first does not look at it again after it has sent the hello.
StateGoesForward == [][Index(state') >= Index(state)]_vars

\* A cipher, once selected, is the first one the server chose.
CipherIsChosenOnce == [][pendingCipher # None => UNCHANGED pendingCipher]_vars

\* An error that the handler reports to the server ends the connection.
ErrorsClose == rpc = "error" ~> closed

=============================================================================
