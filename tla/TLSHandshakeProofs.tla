------------------------- MODULE TLSHandshakeProofs -------------------------
(***************************************************************************)
(* What holds of module TLSHandshake for any records of the server.        *)
(***************************************************************************)
EXTENDS TLSHandshake, SequenceTheorems, TLAPS

Sendable == {"hello", "key", "changeCipher", "alert"}
CodePlaces == {"loop", "read", "close", "inner", "messages", "error", "closeAfterError",
           "verify", "key", "changeCipher", "done", "dead"}

\* Where the constructor and the receiver are, in terms of the state.
PlaceInv ==
  /\ mpc = "hello" => sent \in {<<>>, <<"alert">>}
  /\ mpc # "constructed" <=> state = "INIT"
  /\ rpc \in {"verify", "key"} => state = "SERVER_HELLO_DONE"
  /\ rpc = "changeCipher" => state = "KEY_SENT"

Handshake == <<"hello", "key", "changeCipher">>

\* How many of them the constructor and the receiver have sent.
Progress ==
  CASE mpc = "hello" -> 0
    [] mpc # "hello" /\ state \notin {"KEY_SENT", "CHANGE_CIPHER_SENT"} -> 1
    [] mpc # "hello" /\ state = "KEY_SENT" -> 2
    [] mpc # "hello" /\ state = "CHANGE_CIPHER_SENT" -> 3

Begins(n) == n <= Len(sent) /\ \A i \in 1 .. n : sent[i] = Handshake[i]
InOrder(n) == Begins(n) /\ Len(sent) = n
Alerted(n) == Begins(n) /\ Len(sent) = n + 1 /\ sent[n + 1] = "alert"

\* While the connection is open, what was sent is what the state says; an alert
\* was sent only if somebody is about to close it.  Until then the constructor
\* may still write the hello.
SentInv ==
  \/ \E n \in 0 .. 3 : InOrder(n) /\ (closed \/ n = Progress)
  \/ /\ sent = <<"alert", "hello">> \/ \E n \in 0 .. 3 : Alerted(n)
     /\ closed \/ rpc \in {"close", "closeAfterError"}

\* A ServerHello that was accepted has chosen the cipher, and no other has.
CipherInv ==
  /\ state \in {"INIT", "CLIENT_HELLO_SENT"} => pendingCipher = None
  /\ state \notin {"INIT", "CLIENT_HELLO_SENT"} =>
       \/ pendingCipher # None
       \/ rpc \in {"error", "closeAfterError"}
       \/ closed /\ rpc \in {"loop", "done"}

\* Only then is there a record to look at.
ReadInv == rpc = "read" => consumed # 0

IInv == TypeOK /\ flight \in Flights /\ PlaceInv /\ SentInv /\ CipherInv /\ ReadInv

----------------------------------------------------------------------------
(* Facts about data.                                                        *)

LEMMA StateSet ==
  Range(States) = {"INIT", "CLIENT_HELLO_SENT", "SERVER_HELLO_RECEIVED", "SERVER_HELLO_DONE",
                   "KEY_SENT", "CHANGE_CIPHER_SENT"}
<1>1. DOMAIN States = 1 .. 6
  BY DEF States
<1>2. /\ States[1] = "INIT" /\ States[2] = "CLIENT_HELLO_SENT" /\ States[3] = "SERVER_HELLO_RECEIVED"
      /\ States[4] = "SERVER_HELLO_DONE" /\ States[5] = "KEY_SENT" /\ States[6] = "CHANGE_CIPHER_SENT"
  BY DEF States
<1> QED
  BY <1>1, <1>2 DEF Range

\* What is sent, or is not because the connection is closed, or closes it.
LEMMA Sending ==
  ASSUME TypeOK, NEW what \in Sendable, Send(what)
  PROVE  /\ sent' \in Seq(Sendable) /\ closed' \in BOOLEAN
         /\ \/ ~closed /\ ~closed' /\ sent' = Append(sent, what)
            \/ closed' /\ sent' = sent
<1>1. sent \in Seq(Sendable) /\ closed \in BOOLEAN
  BY DEF TypeOK, Sendable
<1>2. Append(sent, what) \in Seq(Sendable)
  BY <1>1, AppendProperties
<1>3. CASE ~closed /\ sent' = Append(sent, what) /\ UNCHANGED closed
  BY <1>1, <1>2, <1>3
<1>4. CASE (closed \/ peer = "gone") /\ closed' = TRUE /\ UNCHANGED sent
  BY <1>1, <1>4
<1> QED
  BY <1>3, <1>4 DEF Send

\* Nothing is sent, and the handshake stays where it is.
LEMMA SentStays ==
  ASSUME SentInv, sent' = sent,
         \/ closed'
         \/ ~closed /\ Progress' = Progress
            /\ (rpc \in {"close", "closeAfterError"} => rpc' \in {"close", "closeAfterError"})
  PROVE  SentInv'
BY DEF SentInv, InOrder, Alerted, Begins

\* The next message of the handshake.
LEMMA SentNext ==
  ASSUME TypeOK, NEW n \in 0 .. 2, InOrder(n), Send(Handshake[n + 1])
  PROVE  InOrder(n + 1)' \/ (closed' /\ InOrder(n)')
<1>1. Handshake[n + 1] \in Sendable
  BY DEF Handshake, Sendable
<1>2. CASE closed' /\ sent' = sent
  BY <1>2 DEF InOrder, Begins
<1>3. CASE sent' = Append(sent, Handshake[n + 1])
  <2>1. sent \in Seq(Sendable)
    BY DEF TypeOK, Sendable
  <2>2. /\ Len(sent') = n + 1 /\ sent'[n + 1] = Handshake[n + 1]
        /\ \A i \in 1 .. n : sent'[i] = sent[i]
    BY <1>1, <1>3, <2>1, AppendProperties DEF InOrder
  <2> QED
    BY <2>2 DEF InOrder, Begins
<1> QED
  BY <1>1, <1>2, <1>3, Sending

\* An alert, just before the connection is closed.
LEMMA SentAlert ==
  ASSUME IInv, rpc \notin {"close", "closeAfterError"}, Send("alert"),
         state' = state, mpc' = mpc, rpc' \in {"close", "closeAfterError"}
  PROVE  SentInv'
<1>1. \/ ~closed /\ sent' = Append(sent, "alert")
      \/ closed' /\ sent' = sent
  BY Sending DEF IInv, Sendable
<1>2. CASE closed' /\ sent' = sent
  BY <1>2, SentStays DEF IInv
<1>3. CASE ~closed /\ sent' = Append(sent, "alert")
  <2>1. PICK n \in 0 .. 3 : InOrder(n)
    BY <1>3 DEF IInv, SentInv
  <2>2. sent \in Seq(Sendable) /\ "alert" \in Sendable
    BY DEF IInv, TypeOK, Sendable
  <2>3. /\ Len(sent') = n + 1 /\ sent'[n + 1] = "alert"
        /\ \A i \in 1 .. n : sent'[i] = sent[i]
    BY <1>3, <2>1, <2>2, AppendProperties DEF InOrder
  <2>4. Alerted(n)'
    BY <2>1, <2>3 DEF Alerted, InOrder, Begins
  <2> QED
    BY <2>4 DEF SentInv
<1> QED
  BY <1>1, <1>2, <1>3

LEMMA AppendSecond ==
  ASSUME NEW S, NEW s \in Seq(S), Len(s) = 1, NEW x \in S
  PROVE  /\ Append(s, x) \in Seq(S) /\ Len(Append(s, x)) = 2
         /\ Append(s, x)[1] = s[1] /\ Append(s, x)[2] = x
<1>1. Append(s, x) \in Seq(S)
  BY AppendProperties
<1>2. Len(Append(s, x)) = Len(s) + 1
  BY AppendProperties, Zenon
<1>3. Append(s, x)[1] = s[1]
  BY AppendProperties
<1>4. Append(s, x)[2] = x
  BY AppendProperties
<1> QED
  BY <1>1, <1>2, <1>3, <1>4

\* Before the hello there is one alert at most.
LEMMA AlertFirst ==
  ASSUME IInv, rpc \notin {"close", "closeAfterError"}, Send("alert"), mpc = "hello"
  PROVE  sent' \in {<<>>, <<"alert">>}
<1>1. sent \in {<<>>, <<"alert">>}
  BY DEF IInv, PlaceInv
<1>2. \/ ~closed /\ sent' = Append(sent, "alert")
      \/ closed' /\ sent' = sent
  BY Sending DEF IInv, Sendable
<1>3. CASE closed' /\ sent' = sent
  BY <1>1, <1>3
<1>4. CASE ~closed /\ sent' = Append(sent, "alert")
  <2>1. PICK n \in 0 .. 3 : InOrder(n) /\ n = Progress
    BY <1>4 DEF IInv, SentInv
  <2>2. n = 0
    BY <2>1 DEF Progress
  <2>3. Len(sent) = 0
    BY <2>1, <2>2 DEF InOrder
  <2>4. sent = <<>>
    BY <1>1, <2>3
  <2> QED
    BY <1>4, <2>4
<1> QED
  BY <1>2, <1>3, <1>4

LEMMA NextMessage ==
  ASSUME TypeOK, todo # <<>>
  PROVE  /\ Head(todo) \in Messages /\ Tail(todo) \in Seq(Messages)
         /\ Head(todo).type = "ServerHello" => Head(todo) \in Hellos /\ Head(todo) # None
<1>1. todo \in Seq(Messages)
  BY DEF TypeOK
<1>2. Head(todo) \in Messages /\ Tail(todo) \in Seq(Messages)
  BY <1>1, HeadTailProperties
<1> QED
  BY <1>2, TLSAssumption DEF Messages, Hellos

LEMMA RecordTyped ==
  ASSUME TypeOK, flight \in Flights, consumed # 0
  PROVE  Record.messages \in Seq(Messages)
<1>1. flight \in Seq([kind : Kinds, messages : Seq(Messages), fault : Faults])
  BY TLSAssumption
<1>2. consumed \in 1 .. Len(flight)
  BY <1>1, LenProperties DEF TypeOK
<1>3. flight[consumed] \in [kind : Kinds, messages : Seq(Messages), fault : Faults]
  BY <1>1, <1>2, ElementOfSeq
<1> QED
  BY <1>3 DEF Record

----------------------------------------------------------------------------
(* The invariant holds at first and is kept by every action.                *)

LEMMA Initially == Init => IInv
<1> SUFFICES ASSUME Init PROVE IInv
  OBVIOUS
<1>1. Len(flight) \in Nat
  BY TLSAssumption, LenProperties DEF Init
<1>2. TypeOK
  <2>1. /\ arrived \in 0 .. Len(flight) /\ consumed \in 0 .. arrived
        /\ state \in Range(States)
    BY <1>1, StateSet DEF Init
  <2>2. <<>> \in Seq(Messages) /\ <<>> \in Seq(Sendable)
    BY EmptySeq
  <2> QED
    BY <2>1, <2>2 DEF Init, TypeOK, Sendable
<1>3. SentInv
  <2>1. InOrder(0) /\ Progress = 0
    BY DEF Init, InOrder, Begins, Progress
  <2> QED
    BY <2>1 DEF SentInv
<1> QED
  BY <1>2, <1>3 DEF Init, IInv, PlaceInv, CipherInv, ReadInv

\* The server, and who closes the connection.
LEMMA OutsideKeeps ==
  ASSUME IInv, Arrive \/ PeerLeaves
  PROVE  IInv'
<1>1. TypeOK' /\ flight' \in Flights
  BY DEF IInv, TypeOK, Arrive, PeerLeaves, crypto
<1>2. PlaceInv'
  BY DEF IInv, TypeOK, PlaceInv, Arrive, PeerLeaves, crypto
<1>3. SentInv'
  BY SentStays DEF IInv, TypeOK, PlaceInv, Progress, Arrive, PeerLeaves, crypto
<1>4. CipherInv'
  BY DEF IInv, TypeOK, PlaceInv, CipherInv, Arrive, PeerLeaves, crypto
<1>5. ReadInv'
  BY DEF IInv, TypeOK, ReadInv, Arrive, PeerLeaves
<1> QED
  BY <1>1, <1>2, <1>3, <1>4, <1>5 DEF IInv

LEMMA CloseKeeps ==
  ASSUME IInv, Close \/ ReceiverEnds \/ CloseAfterRead \/ FatalAlert \/ CloseAfterError
  PROVE  IInv'
<1>1. TypeOK' /\ flight' \in Flights
  BY DEF IInv, TypeOK, Close, ReceiverEnds, CloseAfterRead, FatalAlert, CloseAfterError,
     wire, crypto
<1>2. PlaceInv'
  BY DEF IInv, TypeOK, PlaceInv, Close, ReceiverEnds, CloseAfterRead, FatalAlert,
     CloseAfterError, wire, crypto
<1>3. SentInv'
  BY SentStays DEF IInv, TypeOK, PlaceInv, Progress, Close, ReceiverEnds, CloseAfterRead,
     FatalAlert, CloseAfterError, wire, crypto
<1>4. CipherInv'
  BY DEF IInv, TypeOK, PlaceInv, CipherInv, Close, ReceiverEnds, CloseAfterRead, FatalAlert,
     CloseAfterError, wire, crypto
<1>5. ReadInv'
  BY DEF IInv, TypeOK, ReadInv, Close, ReceiverEnds, CloseAfterRead, FatalAlert,
     CloseAfterError
<1> QED
  BY <1>1, <1>2, <1>3, <1>4, <1>5 DEF IInv

\* Who only changes his place.
LEMMA MoveKeeps ==
  ASSUME IInv, ReadRaises \/ Dispatch \/ RecordHandled \/ UnexpectedMessage \/ NoCertificate \/
         KeyNotImplemented
  PROVE  IInv'
<1>1. TypeOK' /\ flight' \in Flights
  BY DEF IInv, TypeOK, ReadRaises, Dispatch, RecordHandled, UnexpectedMessage,
     NoCertificate,
       KeyNotImplemented, GoTo, AtMessage, wire, crypto
<1>2. PlaceInv'
  BY DEF IInv, TypeOK, PlaceInv, ReadRaises, Dispatch, RecordHandled, UnexpectedMessage,
     NoCertificate,
       KeyNotImplemented, GoTo, AtMessage, wire, crypto
<1>3. SentInv'
  BY SentStays DEF IInv, TypeOK, PlaceInv, Progress, ReadRaises, Dispatch, RecordHandled,
     UnexpectedMessage, NoCertificate,
       KeyNotImplemented, GoTo, AtMessage, wire, crypto
<1>4. CipherInv'
  BY DEF IInv, TypeOK, PlaceInv, CipherInv, ReadRaises, Dispatch, RecordHandled,
     UnexpectedMessage, NoCertificate,
       KeyNotImplemented, GoTo, AtMessage, wire, crypto
<1>5. ReadInv'
  BY DEF IInv, TypeOK, ReadInv, ReadRaises, Dispatch, RecordHandled, UnexpectedMessage,
     NoCertificate, KeyNotImplemented, GoTo, AtMessage
<1> QED
  BY <1>1, <1>2, <1>3, <1>4, <1>5 DEF IInv

LEMMA TakeRecordKeeps ==
  ASSUME IInv, TakeRecord
  PROVE  IInv'
<1>1. TypeOK' /\ flight' \in Flights
  BY DEF IInv, TypeOK, TakeRecord, wire, crypto
<1>2. PlaceInv'
  BY DEF IInv, TypeOK, PlaceInv, TakeRecord, wire, crypto
<1>3. SentInv'
  BY SentStays DEF IInv, TypeOK, PlaceInv, Progress, TakeRecord, wire, crypto
<1>4. CipherInv'
  BY DEF IInv, TypeOK, PlaceInv, CipherInv, TakeRecord, wire, crypto
<1>5. ReadInv'
  BY DEF IInv, TypeOK, ReadInv, TakeRecord
<1> QED
  BY <1>1, <1>2, <1>3, <1>4, <1>5 DEF IInv

LEMMA SendHelloKeeps ==
  ASSUME IInv, SendHello
  PROVE  IInv'
<1>1. TypeOK' /\ flight' \in Flights
  BY Sending DEF IInv, TypeOK, SendHello, wire, crypto, Sendable
<1>2. PlaceInv'
  BY DEF IInv, PlaceInv, SendHello, wire
<1>3. SentInv'
  <2>1. CASE closed' /\ sent' = sent
    BY <2>1, SentStays DEF IInv
  <2>2. CASE ~closed /\ ~closed'
    <3>1. Progress = 0 /\ Progress' = 1
      BY DEF IInv, PlaceInv, Progress, SendHello
    <3>2. CASE InOrder(0)
      <4>1. Send(Handshake[0 + 1])
        BY DEF SendHello, Handshake
      <4>2. InOrder(0 + 1)'
        BY <2>2, <3>2, <4>1, SentNext DEF IInv
      <4> QED
        BY <3>1, <4>2 DEF SentInv
    <3>3. CASE ~InOrder(0)
      <4>1. rpc \in {"close", "closeAfterError"}
        BY <2>2, <3>1, <3>3 DEF IInv, SentInv
      <4>2. sent # <<>>
        BY <3>3 DEF InOrder, Begins
      <4>3. sent = <<"alert">>
        BY <4>2 DEF IInv, PlaceInv, SendHello
      <4>4. sent' = Append(sent, "hello")
        BY <2>2 DEF SendHello, Send
      <4>5. sent' = <<"alert", "hello">>
        <5> DEFINE both == <<"alert", "hello">>
        <5>1. both \in Seq(Sendable) /\ Len(both) = 2 /\ both[1] = "alert" /\ both[2] = "hello"
          BY DEF Sendable
        <5>2. sent \in Seq(Sendable) /\ Len(sent) = 1 /\ sent[1] = "alert" /\ "hello" \in Sendable
          BY <4>3 DEF IInv, TypeOK, Sendable
        <5> HIDE DEF both
        <5>3. /\ sent' \in Seq(Sendable) /\ Len(sent') = 2
              /\ sent'[1] = "alert" /\ sent'[2] = "hello"
          BY <4>4, <5>2, AppendSecond
        <5>4. sent' = both
          BY <5>1, <5>3, SeqEqual
        <5> QED
          BY <5>4 DEF both
      <4>6. rpc' = rpc
        BY DEF SendHello
      <4> QED
        BY <4>1, <4>5, <4>6 DEF SentInv
    <3> QED
      BY <3>2, <3>3
  <2>3. "hello" \in Sendable
    BY DEF Sendable
  <2> QED
    BY <2>1, <2>2, <2>3, Sending DEF IInv, SendHello
<1>4. CipherInv'
  BY DEF IInv, PlaceInv, CipherInv, SendHello, crypto
<1>5. ReadInv'
  BY DEF IInv, TypeOK, ReadInv, SendHello
<1> QED
  BY <1>1, <1>2, <1>3, <1>4, <1>5 DEF IInv

LEMMA HelloSentKeeps ==
  ASSUME IInv, HelloSent
  PROVE  IInv'
<1>1. TypeOK' /\ flight' \in Flights
  BY StateSet DEF IInv, TypeOK, HelloSent, wire, crypto
<1>2. PlaceInv'
  BY DEF IInv, TypeOK, PlaceInv, HelloSent, wire, crypto
<1>3. SentInv'
  BY SentStays DEF IInv, TypeOK, PlaceInv, Progress, HelloSent, wire, crypto
<1>4. CipherInv'
  BY DEF IInv, TypeOK, PlaceInv, CipherInv, HelloSent, wire, crypto
<1>5. ReadInv'
  BY DEF IInv, TypeOK, ReadInv, HelloSent
<1> QED
  BY <1>1, <1>2, <1>3, <1>4, <1>5 DEF IInv

LEMMA ReadRecordKeeps ==
  ASSUME IInv, ReadRecord
  PROVE  IInv'
<1>1. TypeOK' /\ flight' \in Flights
  <2>1. todo' \in Seq(Messages)
    <3>1. consumed # 0
      BY DEF IInv, ReadInv, ReadRecord
    <3> QED
      BY <3>1, RecordTyped DEF IInv, ReadRecord
  <2>2. sent' \in Seq(Sendable) /\ closed' \in BOOLEAN
    BY Sending DEF IInv, TypeOK, ReadRecord, SendAlert, Sendable
  <2> QED
    BY <2>1, <2>2 DEF IInv, TypeOK, ReadRecord, wire, crypto, Sendable
<1>2. PlaceInv'
  <2>1. mpc = "hello" => sent' \in {<<>>, <<"alert">>}
    BY AlertFirst DEF IInv, PlaceInv, ReadRecord, SendAlert
  <2> QED
    BY <2>1 DEF IInv, TypeOK, PlaceInv, ReadRecord, wire
<1>3. SentInv'
  <2>1. CASE Record.fault = "alert"
    BY <2>1, SentAlert DEF ReadRecord, SendAlert
  <2>2. CASE Record.fault # "alert"
    BY <2>2, SentStays DEF IInv, TypeOK, Progress, ReadRecord
  <2> QED
    BY <2>1, <2>2
<1>4. CipherInv'
  BY DEF IInv, TypeOK, CipherInv, ReadRecord, crypto
<1>5. ReadInv'
  BY DEF IInv, TypeOK, ReadInv, ReadRecord
<1> QED
  BY <1>1, <1>2, <1>3, <1>4, <1>5 DEF IInv

LEMMA ReportErrorKeeps ==
  ASSUME IInv, ReportError
  PROVE  IInv'
<1>1. TypeOK' /\ flight' \in Flights
  BY Sending DEF IInv, TypeOK, ReportError, SendAlert, wire, crypto, Sendable
<1>2. PlaceInv'
  <2>1. mpc = "hello" => sent' \in {<<>>, <<"alert">>}
    BY AlertFirst DEF ReportError, SendAlert
  <2> QED
    BY <2>1 DEF IInv, PlaceInv, ReportError, wire
<1>3. SentInv'
  BY SentAlert DEF ReportError, SendAlert
<1>4. CipherInv'
  BY DEF IInv, CipherInv, ReportError, crypto
<1>5. ReadInv'
  BY DEF IInv, TypeOK, ReadInv, ReportError
<1> QED
  BY <1>1, <1>2, <1>3, <1>4, <1>5 DEF IInv

LEMMA ServerHelloKeeps ==
  ASSUME IInv, ServerHello
  PROVE  IInv'
<1>1. TypeOK' /\ flight' \in Flights
  BY StateSet, NextMessage DEF IInv, TypeOK, ServerHello, AtMessage, wire
<1>2. PlaceInv'
  BY DEF IInv, TypeOK, PlaceInv, ServerHello, AtMessage, wire
<1>3. SentInv'
  BY SentStays DEF IInv, TypeOK, PlaceInv, Progress, ServerHello, AtMessage, wire
<1>4. CipherInv'
  BY NextMessage DEF IInv, TypeOK, PlaceInv, CipherInv, ServerHello, AtMessage, wire
<1>5. ReadInv'
  BY DEF IInv, TypeOK, ReadInv, ServerHello, AtMessage
<1> QED
  BY <1>1, <1>2, <1>3, <1>4, <1>5 DEF IInv

LEMMA ServerHelloDoneKeeps ==
  ASSUME IInv, ServerHelloDone
  PROVE  IInv'
<1>1. TypeOK' /\ flight' \in Flights
  BY StateSet DEF IInv, TypeOK, ServerHelloDone, AtMessage, wire, crypto, CipherInv
<1>2. PlaceInv'
  BY DEF IInv, TypeOK, PlaceInv, ServerHelloDone, AtMessage, wire, crypto
<1>3. SentInv'
  BY SentStays DEF IInv, TypeOK, PlaceInv, Progress, ServerHelloDone, AtMessage, wire,
     crypto
<1>4. CipherInv'
  BY DEF IInv, TypeOK, PlaceInv, CipherInv, ServerHelloDone, AtMessage, wire, crypto
<1>5. ReadInv'
  BY DEF IInv, TypeOK, ReadInv, ServerHelloDone, AtMessage
<1> QED
  BY <1>1, <1>2, <1>3, <1>4, <1>5 DEF IInv

LEMMA KeepMessageKeeps ==
  ASSUME IInv, KeepMessage
  PROVE  IInv'
<1>1. TypeOK' /\ flight' \in Flights
  BY NextMessage, AppendProperties DEF IInv, TypeOK, KeepMessage, AtMessage, wire
<1>2. PlaceInv'
  BY DEF IInv, TypeOK, PlaceInv, KeepMessage, AtMessage, wire
<1>3. SentInv'
  BY SentStays DEF IInv, TypeOK, PlaceInv, Progress, KeepMessage, AtMessage, wire
<1>4. CipherInv'
  BY DEF IInv, TypeOK, PlaceInv, CipherInv, KeepMessage, AtMessage, wire
<1>5. ReadInv'
  BY DEF IInv, TypeOK, ReadInv, KeepMessage, AtMessage
<1> QED
  BY <1>1, <1>2, <1>3, <1>4, <1>5 DEF IInv

LEMMA VerifyKeeps ==
  ASSUME IInv, VerifyPeerCertificates
  PROVE  IInv'
<1>1. TypeOK' /\ flight' \in Flights
  BY DEF IInv, TypeOK, VerifyPeerCertificates, wire
<1>2. PlaceInv'
  BY DEF IInv, TypeOK, PlaceInv, VerifyPeerCertificates, wire
<1>3. SentInv'
  BY SentStays DEF IInv, TypeOK, PlaceInv, Progress, VerifyPeerCertificates, wire
<1>4. CipherInv'
  BY DEF IInv, TypeOK, PlaceInv, CipherInv, VerifyPeerCertificates, wire
<1>5. ReadInv'
  BY DEF IInv, TypeOK, ReadInv, VerifyPeerCertificates
<1> QED
  BY <1>1, <1>2, <1>3, <1>4, <1>5 DEF IInv

LEMMA SendKeyKeeps ==
  ASSUME IInv, SendKey
  PROVE  IInv'
<1>1. TypeOK' /\ flight' \in Flights
  BY Sending, StateSet DEF IInv, TypeOK, SendKey, wire, crypto, Sendable
<1>2. PlaceInv'
  BY DEF IInv, PlaceInv, SendKey, wire
<1>3. SentInv'
  <2>1. CASE closed' /\ sent' = sent
    BY <2>1, SentStays DEF IInv
  <2>2. CASE ~closed /\ ~closed'
    <3>1. InOrder(1) /\ Progress' = 2
      BY <2>2 DEF IInv, PlaceInv, SentInv, Progress, SendKey, wire
    <3>2. Send(Handshake[1 + 1])
      BY DEF SendKey, Handshake
    <3>3. InOrder(1 + 1)'
      BY <2>2, <3>1, <3>2, SentNext DEF IInv
    <3> QED
      BY <3>1, <3>3 DEF SentInv
  <2>3. "key" \in Sendable
    BY DEF Sendable
  <2> QED
    BY <2>1, <2>2, <2>3, Sending DEF IInv, SendKey
<1>4. CipherInv'
  BY DEF IInv, TypeOK, CipherInv, SendKey, crypto
<1>5. ReadInv'
  BY DEF IInv, TypeOK, ReadInv, SendKey
<1> QED
  BY <1>1, <1>2, <1>3, <1>4, <1>5 DEF IInv

LEMMA SendChangeCipherKeeps ==
  ASSUME IInv, SendChangeCipher
  PROVE  IInv'
<1>1. TypeOK' /\ flight' \in Flights
  BY Sending, StateSet DEF IInv, TypeOK, SendChangeCipher, wire, Sendable
<1>2. PlaceInv'
  BY DEF IInv, PlaceInv, SendChangeCipher, wire
<1>3. SentInv'
  <2>1. CASE closed' /\ sent' = sent
    BY <2>1, SentStays DEF IInv
  <2>2. CASE ~closed /\ ~closed'
    <3>1. InOrder(2) /\ Progress' = 3
      BY <2>2 DEF IInv, PlaceInv, SentInv, Progress, SendChangeCipher, wire
    <3>2. Send(Handshake[2 + 1])
      BY DEF SendChangeCipher, Handshake
    <3>3. InOrder(2 + 1)'
      BY <2>2, <3>1, <3>2, SentNext DEF IInv
    <3> QED
      BY <3>1, <3>3 DEF SentInv
  <2>3. "changeCipher" \in Sendable
    BY DEF Sendable
  <2> QED
    BY <2>1, <2>2, <2>3, Sending DEF IInv, SendChangeCipher
<1>4. CipherInv'
  BY DEF IInv, TypeOK, CipherInv, SendChangeCipher
<1>5. ReadInv'
  BY DEF IInv, TypeOK, ReadInv, SendChangeCipher
<1> QED
  BY <1>1, <1>2, <1>3, <1>4, <1>5 DEF IInv

LEMMA Stuttering ==
  ASSUME IInv, UNCHANGED vars
  PROVE  IInv'
BY SentStays DEF IInv, TypeOK, PlaceInv, Progress, CipherInv, ReadInv, vars, wire, crypto

LEMMA NextKeeps == IInv /\ [Next]_vars => IInv'
<1> SUFFICES ASSUME IInv, [Next]_vars PROVE IInv'
  OBVIOUS
<1>1. CASE UNCHANGED vars
  BY <1>1, Stuttering
<1>2. CASE Arrive \/ PeerLeaves \/ Close \/ Constructor
  BY <1>2, OutsideKeeps, CloseKeeps, SendHelloKeeps, HelloSentKeeps DEF Constructor
<1>3. CASE Receive
  BY <1>3, CloseKeeps, MoveKeeps, TakeRecordKeeps, ReadRecordKeeps, ReportErrorKeeps,
     ServerHelloKeeps, ServerHelloDoneKeeps, KeepMessageKeeps, VerifyKeeps, SendKeyKeeps,
     SendChangeCipherKeeps DEF Receive
<1> QED
  BY <1>1, <1>2, <1>3 DEF Next

LEMMA Invariance == Spec => []IInv
BY Initially, NextKeeps, PTL DEF Spec

----------------------------------------------------------------------------
(* What is proved of every behaviour.                                       *)

\* Every value keeps its type, and the code never uses the version or the
\* cipher of a ServerHello that has not come.
THEOREM TypeCorrect == Spec => []TypeOK
<1>1. IInv => TypeOK
  BY DEF IInv
<1> QED
  BY <1>1, Invariance, PTL

\* Whatever records the server sends, be it before the hello, and whoever closes
\* the connection when: sendData() writes the handshake in order, then at most
\* one alert, then nothing; or, when a record came before the hello, the alert
\* about it, then possibly the hello, then nothing.
THEOREM WireIsOrdered == Spec => []WireOrder
<1>1. ASSUME IInv PROVE WireOrder
  <2>0. CASE sent = <<"alert", "hello">>
    BY <2>0 DEF WireOrder
  <2> SUFFICES ASSUME sent # <<"alert", "hello">> PROVE WireOrder
    BY <2>0
  <2>1. PICK n \in 0 .. 3 : InOrder(n) \/ Alerted(n)
    BY <1>1 DEF IInv, SentInv
  <2> DEFINE h == SubSeq(Handshake, 1, n)
  <2>2. sent \in Seq(Sendable)
    BY <1>1 DEF IInv, TypeOK, Sendable
  <2>3. h \in Seq(Sendable) /\ Len(h) = n /\ \A i \in 1 .. n : h[i] = Handshake[i]
    <3>1. \A i \in 1 .. n : Handshake[i] \in Sendable
      BY DEF Handshake, Sendable
    <3> QED
      BY <3>1, SubSeqProperties
  <2> HIDE DEF h
  <2>4. CASE InOrder(n)
    <3>1. sent = h
      BY <2>2, <2>3, <2>4, SeqEqual DEF InOrder, Begins
    <3> QED
      BY <3>1 DEF h, WireOrder, Handshake
  <2>5. CASE Alerted(n)
    <3>1. /\ Append(h, "alert") \in Seq(Sendable) /\ Len(Append(h, "alert")) = n + 1
          /\ Append(h, "alert")[n + 1] = "alert"
          /\ \A i \in 1 .. n : Append(h, "alert")[i] = h[i]
      BY <2>3, AppendProperties DEF Sendable
    <3>2. \A i \in 1 .. n + 1 : sent[i] = Append(h, "alert")[i]
      BY <2>3, <2>5, <3>1 DEF Alerted, Begins
    <3>3. sent = Append(h, "alert")
      BY <2>2, <2>5, <3>1, <3>2, SeqEqual DEF Alerted
    <3> QED
      BY <3>3 DEF h, WireOrder, Handshake
  <2> QED
    BY <2>1, <2>4, <2>5
<1> QED
  BY <1>1, Invariance, PTL

\* The receiver never replaces the version and cipher of the first ServerHello.
THEOREM ChosenOnce == Spec => CipherIsChosenOnce
<1>1. IInv /\ [Next]_vars => [pendingCipher # None => UNCHANGED pendingCipher]_vars
  <2> SUFFICES ASSUME IInv, Next, pendingCipher # None PROVE pendingCipher' = pendingCipher
    OBVIOUS
  <2>1. CASE ServerHello
    BY <2>1 DEF IInv, CipherInv, ServerHello
  <2>2. CASE Arrive \/ PeerLeaves \/ Constructor \/ Close
    BY <2>2 DEF Arrive, PeerLeaves, Constructor, SendHello, HelloSent, Close, crypto
  <2>3. CASE Receive /\ ~ServerHello
    BY <2>3 DEF Receive, TakeRecord, ReceiverEnds, ReadRaises, ReadRecord, CloseAfterRead,
       FatalAlert, Dispatch, ReportError, CloseAfterError, RecordHandled, ServerHelloDone,
       UnexpectedMessage, KeepMessage, NoCertificate, VerifyPeerCertificates, SendKey,
       KeyNotImplemented, SendChangeCipher, GoTo, crypto
  <2> QED
    BY <2>1, <2>2, <2>3 DEF Next
<1> QED
  BY <1>1, Invariance, PTL DEF Spec, CipherIsChosenOnce

LEMMA Indices ==
  /\ Index("INIT") = 1 /\ Index("CLIENT_HELLO_SENT") = 2 /\ Index("SERVER_HELLO_RECEIVED") = 3
  /\ Index("SERVER_HELLO_DONE") = 4 /\ Index("KEY_SENT") = 5 /\ Index("CHANGE_CIPHER_SENT") = 6
<1>1. DOMAIN States = 1 .. 6
  BY DEF States
<1>2. \A i \in 1 .. 6 : Index(States[i]) = i
  <2>1. \A i, j \in 1 .. 6 : States[i] = States[j] => i = j
    BY DEF States
  <2> QED
    BY <1>1, <2>1 DEF Index
<1> QED
  BY <1>2 DEF States

\* The receiver can only set a state that follows the one it found, and the
\* constructor, which does not look, sets its state before any record is
\* handled successfully.
THEOREM StateOnlyAdvances == Spec => StateGoesForward
<1>1. IInv /\ [Next]_vars => [Index(state') >= Index(state)]_vars
  <2> SUFFICES ASSUME IInv, Next PROVE Index(state') >= Index(state)
    OBVIOUS
  <2>1. CASE HelloSent
    BY <2>1, Indices DEF IInv, PlaceInv, HelloSent
  <2>2. CASE ServerHello \/ ServerHelloDone
    BY <2>2, Indices DEF ServerHello, ServerHelloDone
  <2>3. CASE SendKey \/ SendChangeCipher
    BY <2>3, Indices DEF IInv, PlaceInv, SendKey, SendChangeCipher
  <2>4. CASE state' = state
    BY <2>4, StateSet, Indices DEF IInv, TypeOK
  <2>5. \/ HelloSent \/ ServerHello \/ ServerHelloDone \/ SendKey \/ SendChangeCipher
        \/ state' = state
    BY DEF Next, Receive, Constructor, Arrive, PeerLeaves, SendHello, Close, TakeRecord,
       ReceiverEnds, ReadRaises, ReadRecord, CloseAfterRead, FatalAlert, Dispatch, ReportError,
       CloseAfterError, RecordHandled, UnexpectedMessage, KeepMessage, NoCertificate,
       VerifyPeerCertificates, KeyNotImplemented, GoTo
  <2> QED
    BY <2>1, <2>2, <2>3, <2>4, <2>5
<1> QED
  BY <1>1, Invariance, PTL DEF Spec, StateGoesForward

----------------------------------------------------------------------------
(* The key follows the certificates.  What the receiver has still to do of *)
(* a record is the end of it; what it did before is passed.                *)

Left == Len(Record.messages) - Len(todo)

TodoInv ==
  rpc \in {"close", "inner", "messages", "verify", "key"} =>
    /\ consumed # 0 /\ Len(todo) <= Len(Record.messages)
    /\ \A i \in 1 .. Len(todo) : todo[i] = Record.messages[Left + i]

Passed(p) ==
  /\ p \in Places
  /\ p[1] < consumed \/ (rpc # "read" /\ p[2] <= Left)

\* The cipher that is pending came in a ServerHello that was handled; so did a
\* certificate that is kept, and after that hello.
HelloPassed == pendingCipher # None => \E p \in Places : Passed(p) /\ MessageAt(p) = pendingCipher
CertificatePassed ==
  HasCertificate =>
    \E p, q \in Places :
      /\ Passed(p) /\ Passed(q) /\ Before(p, q)
      /\ MessageAt(p) = pendingCipher /\ MessageAt(q).type = "Certificate"

\* Nothing is kept before the ServerHello.
KeptInv == state \in {"INIT", "CLIENT_HELLO_SENT"} => serverHelloMessages = <<>>

\* The ServerHelloDone is at the head of the record while it is handled.
DoneInv ==
  /\ rpc \in {"verify", "key"} => todo # <<>> /\ Head(todo).type = "ServerHelloDone"
  /\ rpc = "key" => verified /\ HasCertificate

KeyInv == "key" \in Range(sent) => state \in {"KEY_SENT", "CHANGE_CIPHER_SENT"}

CertificatesInv ==
  /\ TodoInv /\ HelloPassed /\ CertificatePassed /\ KeptInv /\ DoneInv /\ KeyInv
  /\ KeyAfterCertificates

LEMMA PlacePair ==
  ASSUME IInv, NEW p
  PROVE  p \in Places <=>
           \E r \in 1 .. consumed : \E i \in 1 .. Len(flight[r].messages) : p = <<r, i>>
<1>1. ASSUME NEW r \in 1 .. consumed
      PROVE  DOMAIN flight[r].messages = 1 .. Len(flight[r].messages)
  <2>1. flight \in Seq([kind : Kinds, messages : Seq(Messages), fault : Faults])
    BY TLSAssumption DEF IInv
  <2>2. r \in 1 .. Len(flight)
    BY <2>1, LenProperties DEF IInv, TypeOK
  <2>3. flight[r] \in [kind : Kinds, messages : Seq(Messages), fault : Faults]
    BY <2>1, <2>2, ElementOfSeq
  <2> QED
    BY <2>3, LenProperties
<1> QED
  BY <1>1 DEF Places

\* What a step does to the places.
LEMMA StepOfPlaces ==
  ASSUME IInv, [Next]_vars
  PROVE  /\ flight' = flight
         /\ \/ consumed' = consumed + 1
            \/ /\ consumed' = consumed
               /\ \/ rpc = "read"
                  \/ rpc' # "read" /\ (todo' = todo \/ (todo # <<>> /\ todo' = Tail(todo)))
<1>1. CASE UNCHANGED vars \/ Arrive \/ PeerLeaves \/ Close \/ Constructor
  BY <1>1 DEF vars, Arrive, PeerLeaves, Close, Constructor, SendHello, HelloSent, wire
<1>2. CASE TakeRecord \/ ReceiverEnds \/ ReadRaises \/ ReadRecord \/ CloseAfterRead \/ FatalAlert
           \/ Dispatch \/ ReportError \/ CloseAfterError \/ RecordHandled
  BY <1>2 DEF TakeRecord, ReceiverEnds, ReadRaises, ReadRecord, CloseAfterRead, FatalAlert, Dispatch,
     ReportError, CloseAfterError, RecordHandled, GoTo, wire
<1>3. CASE ServerHello \/ ServerHelloDone \/ UnexpectedMessage \/ KeepMessage \/ NoCertificate
           \/ VerifyPeerCertificates \/ SendKey \/ KeyNotImplemented \/ SendChangeCipher
  BY <1>3 DEF ServerHello, ServerHelloDone, UnexpectedMessage, KeepMessage, NoCertificate,
     VerifyPeerCertificates, SendKey, KeyNotImplemented, SendChangeCipher, AtMessage, GoTo, wire
<1> QED
  BY <1>1, <1>2, <1>3 DEF Next, Receive

\* What has a place keeps it, and what is passed stays so.
LEMMA PlacesStay ==
  ASSUME IInv, [Next]_vars
  PROVE  /\ \A p : MessageAt(p)' = MessageAt(p)
         /\ \A p \in Places : p \in Places'
         /\ \A p : Passed(p) => Passed(p)'
<1>1. IInv'
  BY NextKeeps
<1>2. consumed \in Nat /\ consumed' \in Nat /\ consumed <= consumed'
  BY <1>1, StepOfPlaces, LenProperties, TLSAssumption DEF IInv, TypeOK
<1>3. ASSUME NEW p \in Places PROVE p \in Places'
  <2>1. PICK r \in 1 .. consumed : \E i \in 1 .. Len(flight[r].messages) : p = <<r, i>>
    BY <1>3, PlacePair
  <2>2. r \in 1 .. consumed'
    BY <1>2
  <2>3. DOMAIN flight[r].messages = DOMAIN flight'[r].messages
    BY StepOfPlaces
  <2>4. p \in {r} \X DOMAIN flight[r].messages
    BY <2>1, PlacePair, <1>3 DEF Places
  <2> QED
    BY <2>2, <2>3, <2>4 DEF Places
<1>4. ASSUME NEW p, Passed(p) PROVE Passed(p)'
  <2>1. p \in Places /\ p \in Places'
    BY <1>3, <1>4 DEF Passed
  <2>2. PICK r \in 1 .. consumed, i \in Nat : p = <<r, i>>
    BY <2>1, PlacePair
  <2>3. p[1] = r /\ p[2] = i
    BY <2>2
  <2>4. CASE r < consumed \/ consumed' = consumed + 1
    <3>1. r < consumed'
      BY <1>2, <2>2, <2>4
    <3> QED
      BY <2>1, <2>3, <3>1 DEF Passed
  <2>5. CASE ~(r < consumed) /\ consumed' = consumed
    <3>1. rpc # "read" /\ i <= Left /\ r = consumed
      BY <1>2, <1>4, <2>2, <2>3, <2>5 DEF Passed
    <3>2. rpc' # "read" /\ (todo' = todo \/ (todo # <<>> /\ todo' = Tail(todo)))
      BY <1>2, <2>5, <3>1, StepOfPlaces
    <3>3. Len(todo) \in Nat /\ Len(todo') \in Nat /\ Len(todo') <= Len(todo)
      BY <3>2, HeadTailProperties, LenProperties DEF IInv, TypeOK
    <3>4. Record' = Record
      BY <2>5, StepOfPlaces DEF Record
    <3>5. Len(Record.messages) \in Nat
      BY <1>2, <2>2, <3>1, RecordTyped, LenProperties DEF IInv
    <3>6. i <= Left'
      BY <3>1, <3>3, <3>4, <3>5, <2>2 DEF Left
    <3> QED
      BY <2>1, <2>3, <3>2, <3>6 DEF Passed
  <2> QED
    BY <1>2, <2>4, <2>5, StepOfPlaces
<1> QED
  BY <1>3, <1>4, StepOfPlaces DEF MessageAt

\* The message that is handled next: what is passed comes before it, and it is
\* passed once it is taken from the record.
LEMMA NextPlace ==
  ASSUME IInv, TodoInv, rpc \in {"messages", "verify", "key"}, todo # <<>>
  PROVE  \E p \in Places :
           /\ MessageAt(p) = Head(todo)
           /\ \A q : Passed(q) => Before(q, p)
           /\ flight' = flight /\ consumed' = consumed /\ todo' = Tail(todo) /\ rpc' # "read" =>
                Passed(p)'
<1> DEFINE p == <<consumed, Left + 1>>
<1>1. consumed \in Nat \ {0} /\ Record.messages \in Seq(Messages) /\ todo \in Seq(Messages)
  BY RecordTyped, LenProperties, TLSAssumption DEF IInv, TypeOK, TodoInv
<1>2. /\ Len(todo) \in Nat \ {0} /\ Len(Record.messages) \in Nat
      /\ Left \in Nat /\ Left + 1 \in 1 .. Len(Record.messages)
  BY <1>1, LenProperties, EmptySeq DEF TodoInv, Left
<1>3. p \in Places
  BY <1>1, <1>2, PlacePair DEF Record
<1>4. MessageAt(p) = Head(todo)
  <2>1. todo[1] = Record.messages[Left + 1]
    BY <1>2 DEF TodoInv
  <2> QED
    BY <1>1, <1>2, <2>1, HeadTailProperties DEF MessageAt, Record
<1>5. ASSUME NEW q, Passed(q) PROVE Before(q, p)
  <2>1. PICK r \in 1 .. consumed, i \in Nat : q = <<r, i>>
    BY <1>5, PlacePair DEF Passed
  <2>2. r < consumed \/ i <= Left
    BY <1>5, <2>1 DEF Passed
  <2> QED
    BY <1>1, <1>2, <2>1, <2>2 DEF Before
<1>6. ASSUME flight' = flight, consumed' = consumed, todo' = Tail(todo), rpc' # "read"
      PROVE  \A q : q = p => Passed(q)'
  <2>1. p \in Places'
    BY <1>3, <1>6 DEF Places
  <2>2. Left' = Left + 1
    <3>1. Len(todo') = Len(todo) - 1
      BY <1>1, <1>6, HeadTailProperties
    <3> QED
      BY <1>2, <1>6, <3>1 DEF Left, Record
  <2>3. p[2] <= Left'
    BY <1>2, <2>2
  <2> QED
    BY <1>6, <2>1, <2>3 DEF Passed
<1> HIDE DEF p
<1> QED
  BY <1>3, <1>4, <1>5, <1>6

\* Only SendKey sends the key.
LEMMA KeyIsSent ==
  ASSUME IInv, [Next]_vars, "key" \in Range(sent')
  PROVE  "key" \in Range(sent) \/ SendKey
<1>1. ASSUME NEW what \in {"hello", "changeCipher", "alert"}, Send(what)
      PROVE  "key" \in Range(sent)
  <2>1. sent \in Seq(Sendable) /\ what \in Sendable
    BY DEF IInv, TypeOK, Sendable
  <2>2. CASE sent' = sent
    BY <2>2
  <2>3. CASE sent' = Append(sent, what)
    <3>1. PICK i \in DOMAIN sent' : sent'[i] = "key"
      BY DEF Range
    <3>2. /\ sent' \in Seq(Sendable) /\ Len(sent') = Len(sent) + 1
          /\ \A j \in 1 .. Len(sent) : sent'[j] = sent[j]
          /\ sent'[Len(sent) + 1] = what
      BY <2>1, <2>3, AppendProperties
    <3>3. DOMAIN sent' = 1 .. Len(sent) + 1 /\ DOMAIN sent = 1 .. Len(sent) /\ Len(sent) \in Nat
      BY <2>1, <3>2, LenProperties
    <3>4. i \in 1 .. Len(sent) /\ sent[i] = "key"
      BY <3>1, <3>2, <3>3
    <3> QED
      BY <3>3, <3>4 DEF Range
  <2> QED
    BY <1>1, <2>2, <2>3 DEF Send
<1>2. CASE sent' = sent \/ SendKey
  BY <1>2
<1>3. \/ sent' = sent \/ SendKey
      \/ \E what \in {"hello", "changeCipher", "alert"} : Send(what)
  <2>1. CASE UNCHANGED vars \/ Arrive \/ PeerLeaves \/ Close \/ Constructor
    BY <2>1 DEF vars, Arrive, PeerLeaves, Close, Constructor, SendHello, HelloSent
  <2>2. CASE TakeRecord \/ ReceiverEnds \/ ReadRaises \/ ReadRecord \/ CloseAfterRead \/ FatalAlert
             \/ Dispatch \/ ReportError \/ CloseAfterError \/ RecordHandled
    BY <2>2 DEF TakeRecord, ReceiverEnds, ReadRaises, ReadRecord, CloseAfterRead, FatalAlert,
       Dispatch, ReportError, CloseAfterError, RecordHandled, GoTo, SendAlert
  <2>3. CASE ServerHello \/ ServerHelloDone \/ UnexpectedMessage \/ KeepMessage \/ NoCertificate
             \/ VerifyPeerCertificates \/ SendKey \/ KeyNotImplemented \/ SendChangeCipher
    BY <2>3 DEF ServerHello, ServerHelloDone, UnexpectedMessage, KeepMessage, NoCertificate,
       VerifyPeerCertificates, KeyNotImplemented, SendChangeCipher, GoTo
  <2> QED
    BY <2>1, <2>2, <2>3 DEF Next, Receive
<1> QED
  BY <1>1, <1>2, <1>3

LEMMA TodoKept ==
  ASSUME IInv, TodoInv, [Next]_vars
  PROVE  TodoInv'
<1>1. CASE UNCHANGED vars \/ Arrive \/ PeerLeaves \/ Close \/ Constructor
  BY <1>1 DEF TodoInv, Left, Record, vars, Arrive, PeerLeaves, Close, Constructor, SendHello,
     HelloSent, wire
<1>2. CASE TakeRecord \/ ReceiverEnds \/ ReadRaises \/ CloseAfterRead \/ FatalAlert
           \/ Dispatch \/ ReportError \/ CloseAfterError \/ RecordHandled
  BY <1>2 DEF TodoInv, Left, Record, TakeRecord, ReceiverEnds, ReadRaises, CloseAfterRead,
     FatalAlert, Dispatch, ReportError, CloseAfterError, RecordHandled, GoTo, wire
<1>3. CASE ReadRecord
  <2>1. consumed # 0 /\ Record.messages \in Seq(Messages)
    BY <1>3, RecordTyped DEF IInv, ReadInv, ReadRecord
  <2>2. todo' = Record.messages /\ Record' = Record /\ consumed' = consumed
    BY <1>3 DEF ReadRecord, Record, wire
  <2>3. Left' = 0 /\ Len(todo') \in Nat
    BY <2>1, <2>2, LenProperties DEF Left
  <2> QED
    BY <2>1, <2>2, <2>3 DEF TodoInv
<1>4. CASE ServerHello \/ KeepMessage
  <2>1. /\ rpc = "messages" /\ todo # <<>> /\ todo' = Tail(todo) /\ consumed' = consumed
        /\ Record' = Record
    BY <1>4 DEF ServerHello, KeepMessage, AtMessage, Record, wire
  <2>2. todo \in Seq(Messages) /\ Record.messages \in Seq(Messages) /\ consumed # 0
    BY <2>1, RecordTyped DEF IInv, TypeOK, TodoInv
  <2>3. /\ Len(todo) \in Nat \ {0} /\ Len(Record.messages) \in Nat /\ Len(todo') = Len(todo) - 1
        /\ \A i \in 1 .. Len(todo') : todo'[i] = todo[i + 1]
    BY <2>1, <2>2, LenProperties, EmptySeq, HeadTailProperties
  <2>4. Left \in Nat /\ Left' = Left + 1 /\ Len(todo) <= Len(Record.messages)
    BY <2>1, <2>3 DEF Left, TodoInv
  <2>5. ASSUME NEW i \in 1 .. Len(todo') PROVE todo'[i] = Record.messages[Left' + i]
    <3>1. i + 1 \in 1 .. Len(todo) /\ Left + (i + 1) = Left' + i
      BY <2>3, <2>4
    <3> QED
      BY <2>1, <2>3, <3>1 DEF TodoInv
  <2> QED
    BY <2>1, <2>2, <2>3, <2>4, <2>5 DEF TodoInv
<1>5. CASE ServerHelloDone \/ UnexpectedMessage \/ NoCertificate
           \/ VerifyPeerCertificates \/ SendKey \/ KeyNotImplemented \/ SendChangeCipher
  BY <1>5 DEF TodoInv, Left, Record, ServerHelloDone, UnexpectedMessage, NoCertificate,
     VerifyPeerCertificates, SendKey, KeyNotImplemented, SendChangeCipher, AtMessage, GoTo, wire
<1> QED
  BY <1>1, <1>2, <1>3, <1>4, <1>5 DEF Next, Receive

\* Who chooses the cipher, and who keeps a message.
LEMMA KeptSteps ==
  ASSUME [Next]_vars
  PROVE  /\ pendingCipher' = pendingCipher \/ ServerHello
         /\ serverHelloMessages' = serverHelloMessages \/ KeepMessage
         /\ verified' = verified \/ VerifyPeerCertificates
<1>1. CASE UNCHANGED vars \/ Arrive \/ PeerLeaves \/ Close \/ Constructor
  BY <1>1 DEF vars, Arrive, PeerLeaves, Close, Constructor, SendHello, HelloSent, crypto
<1>2. CASE TakeRecord \/ ReceiverEnds \/ ReadRaises \/ ReadRecord \/ CloseAfterRead \/ FatalAlert
           \/ Dispatch \/ ReportError \/ CloseAfterError \/ RecordHandled
  BY <1>2 DEF TakeRecord, ReceiverEnds, ReadRaises, ReadRecord, CloseAfterRead, FatalAlert, Dispatch,
     ReportError, CloseAfterError, RecordHandled, GoTo, crypto
<1>3. CASE ServerHello \/ ServerHelloDone \/ UnexpectedMessage \/ KeepMessage \/ NoCertificate
           \/ VerifyPeerCertificates \/ SendKey \/ KeyNotImplemented \/ SendChangeCipher
  BY <1>3 DEF ServerHello, ServerHelloDone, UnexpectedMessage, KeepMessage, NoCertificate,
     VerifyPeerCertificates, SendKey, KeyNotImplemented, SendChangeCipher, GoTo, crypto
<1> QED
  BY <1>1, <1>2, <1>3 DEF Next, Receive

LEMMA HelloKept ==
  ASSUME IInv, TodoInv, HelloPassed, [Next]_vars
  PROVE  HelloPassed'
<1>1. CASE pendingCipher' = pendingCipher
  BY <1>1, PlacesStay DEF HelloPassed
<1>2. CASE ServerHello /\ pendingCipher' # pendingCipher
  <2>1. /\ rpc = "messages" /\ todo # <<>> /\ pendingCipher' = Head(todo) /\ rpc' = "messages"
        /\ todo' = Tail(todo) /\ consumed' = consumed /\ flight' = flight
    BY <1>2 DEF ServerHello, AtMessage, wire
  <2>2. PICK p \in Places : MessageAt(p) = Head(todo) /\ Passed(p)'
    BY <2>1, NextPlace
  <2> QED
    BY <2>1, <2>2, PlacesStay DEF HelloPassed
<1> QED
  BY <1>1, <1>2, KeptSteps

LEMMA EarlyKept ==
  ASSUME IInv, KeptInv, [Next]_vars
  PROVE  KeptInv'
<1>1. CASE KeepMessage
  BY <1>1 DEF KeptInv, KeepMessage
<1>2. CASE serverHelloMessages' = serverHelloMessages
  <2>1. state' \in {"INIT", "CLIENT_HELLO_SENT"} => state \in {"INIT", "CLIENT_HELLO_SENT"}
    <3>1. CASE UNCHANGED vars \/ Arrive \/ PeerLeaves \/ Close \/ Constructor
      BY <3>1 DEF vars, Arrive, PeerLeaves, Close, Constructor, SendHello, HelloSent, IInv, PlaceInv
    <3>2. CASE TakeRecord \/ ReceiverEnds \/ ReadRaises \/ ReadRecord \/ CloseAfterRead
               \/ FatalAlert \/ Dispatch \/ ReportError \/ CloseAfterError \/ RecordHandled
      BY <3>2 DEF TakeRecord, ReceiverEnds, ReadRaises, ReadRecord, CloseAfterRead, FatalAlert,
         Dispatch, ReportError, CloseAfterError, RecordHandled, GoTo
    <3>3. CASE ServerHello \/ ServerHelloDone \/ UnexpectedMessage \/ KeepMessage \/ NoCertificate
               \/ VerifyPeerCertificates \/ SendKey \/ KeyNotImplemented \/ SendChangeCipher
      BY <3>3 DEF ServerHello, ServerHelloDone, UnexpectedMessage, KeepMessage, NoCertificate,
         VerifyPeerCertificates, SendKey, KeyNotImplemented, SendChangeCipher, GoTo
    <3> QED
      BY <3>1, <3>2, <3>3 DEF Next, Receive
  <2> QED
    BY <1>2, <2>1 DEF KeptInv
<1> QED
  BY <1>1, <1>2, KeptSteps

LEMMA CertificateKept ==
  ASSUME IInv, TodoInv, HelloPassed, KeptInv, CertificatePassed, [Next]_vars
  PROVE  CertificatePassed'
<1> SUFFICES ASSUME HasCertificate'
             PROVE  \E p, q \in Places' :
                      /\ Passed(p)' /\ Passed(q)' /\ Before(p, q)
                      /\ MessageAt(p)' = pendingCipher' /\ MessageAt(q)'.type = "Certificate"
  BY DEF CertificatePassed, Before
<1>1. CASE HasCertificate
  <2>1. serverHelloMessages # <<>>
    BY <1>1 DEF HasCertificate
  <2>2. pendingCipher' = pendingCipher
    BY <2>1, KeptSteps DEF KeptInv, ServerHello
  <2>3. PICK p, q \in Places :
          /\ Passed(p) /\ Passed(q) /\ Before(p, q)
          /\ MessageAt(p) = pendingCipher /\ MessageAt(q).type = "Certificate"
    BY <1>1 DEF CertificatePassed
  <2> QED
    BY <2>2, <2>3, PlacesStay
<1>2. CASE ~HasCertificate
  <2>1. KeepMessage
    BY <1>2, KeptSteps DEF HasCertificate
  <2>2. /\ rpc = "messages" /\ rpc' = "messages" /\ todo # <<>> /\ todo' = Tail(todo)
        /\ consumed' = consumed /\ flight' = flight /\ pendingCipher' = pendingCipher
    BY <2>1 DEF KeepMessage, AtMessage, wire
  <2>3. state = "SERVER_HELLO_RECEIVED" /\ Head(todo).type = "Certificate"
    <3>1. serverHelloMessages \in Seq(Messages) /\ Head(todo) \in Messages
      BY <2>2, NextMessage DEF IInv, TypeOK
    <3>2. PICK i \in DOMAIN serverHelloMessages' : serverHelloMessages'[i].type = "Certificate"
      BY DEF HasCertificate
    <3>3. serverHelloMessages' # serverHelloMessages
      BY <1>2, <3>2 DEF HasCertificate
    <3>4. state = "SERVER_HELLO_RECEIVED" /\ serverHelloMessages' = Append(serverHelloMessages, Head(todo))
      BY <2>1, <3>3 DEF KeepMessage
    <3>5. i \in 1 .. Len(serverHelloMessages) + 1
      BY <3>1, <3>2, <3>4, AppendProperties, LenProperties
    <3>6. CASE i \in 1 .. Len(serverHelloMessages)
      BY <1>2, <3>1, <3>2, <3>4, <3>6, AppendProperties, LenProperties DEF HasCertificate
    <3>7. CASE i = Len(serverHelloMessages) + 1
      BY <3>1, <3>2, <3>4, <3>7, AppendProperties
    <3>8. Len(serverHelloMessages) \in Nat
      BY <3>1, LenProperties
    <3> QED
      BY <3>4, <3>5, <3>6, <3>7, <3>8
  <2>4. PICK p \in Places : Passed(p) /\ MessageAt(p) = pendingCipher
    BY <2>2, <2>3 DEF HelloPassed, IInv, CipherInv
  <2>5. PICK q \in Places : MessageAt(q) = Head(todo) /\ Before(p, q) /\ Passed(q)'
    BY <2>2, <2>4, NextPlace
  <2> QED
    BY <2>2, <2>3, <2>4, <2>5, PlacesStay
<1> QED
  BY <1>1, <1>2

LEMMA DoneKept ==
  ASSUME IInv, DoneInv, [Next]_vars
  PROVE  DoneInv'
<1>1. CASE UNCHANGED vars \/ Arrive \/ PeerLeaves \/ Close \/ Constructor
  BY <1>1 DEF DoneInv, HasCertificate, vars, Arrive, PeerLeaves, Close, Constructor, SendHello,
     HelloSent, crypto
<1>2. CASE TakeRecord \/ ReceiverEnds \/ ReadRaises \/ ReadRecord \/ CloseAfterRead \/ FatalAlert
           \/ Dispatch \/ ReportError \/ CloseAfterError \/ RecordHandled
  BY <1>2 DEF DoneInv, TakeRecord, ReceiverEnds, ReadRaises, ReadRecord, CloseAfterRead,
     FatalAlert, Dispatch, ReportError, CloseAfterError, RecordHandled, GoTo
<1>3. CASE ServerHelloDone \/ VerifyPeerCertificates
  BY <1>3 DEF DoneInv, HasCertificate, ServerHelloDone, VerifyPeerCertificates, AtMessage
<1>4. CASE ServerHello \/ UnexpectedMessage \/ KeepMessage \/ NoCertificate
           \/ SendKey \/ KeyNotImplemented \/ SendChangeCipher
  BY <1>4 DEF DoneInv, ServerHello, UnexpectedMessage, KeepMessage, NoCertificate, SendKey,
     KeyNotImplemented, SendChangeCipher, AtMessage, GoTo
<1> QED
  BY <1>1, <1>2, <1>3, <1>4 DEF Next, Receive

\* Once the key is sent the state stays behind it.
LEMMA LateState ==
  ASSUME IInv, state \in {"KEY_SENT", "CHANGE_CIPHER_SENT"}, [Next]_vars
  PROVE  /\ state' \in {"KEY_SENT", "CHANGE_CIPHER_SENT"}
         /\ pendingCipher' = pendingCipher /\ verified' = verified
<1>1. pendingCipher' = pendingCipher /\ verified' = verified
  BY KeptSteps DEF ServerHello, VerifyPeerCertificates, IInv, PlaceInv
<1>2. CASE UNCHANGED vars \/ Arrive \/ PeerLeaves \/ Close \/ Constructor
  BY <1>1, <1>2 DEF vars, Arrive, PeerLeaves, Close, Constructor, SendHello, HelloSent, IInv, PlaceInv
<1>3. CASE TakeRecord \/ ReceiverEnds \/ ReadRaises \/ ReadRecord \/ CloseAfterRead \/ FatalAlert
           \/ Dispatch \/ ReportError \/ CloseAfterError \/ RecordHandled
  BY <1>1, <1>3 DEF TakeRecord, ReceiverEnds, ReadRaises, ReadRecord, CloseAfterRead, FatalAlert,
     Dispatch, ReportError, CloseAfterError, RecordHandled, GoTo
<1>4. CASE ServerHello \/ ServerHelloDone \/ UnexpectedMessage \/ KeepMessage \/ NoCertificate
           \/ VerifyPeerCertificates \/ SendKey \/ KeyNotImplemented \/ SendChangeCipher
  BY <1>1, <1>4 DEF ServerHello, ServerHelloDone, UnexpectedMessage, KeepMessage, NoCertificate,
     VerifyPeerCertificates, SendKey, KeyNotImplemented, SendChangeCipher, GoTo
<1> QED
  BY <1>1, <1>2, <1>3, <1>4 DEF Next, Receive

LEMMA KeyKept ==
  ASSUME IInv, CertificatesInv, [Next]_vars
  PROVE  KeyInv' /\ KeyAfterCertificates'
<1> SUFFICES ASSUME "key" \in Range(sent')
             PROVE  /\ state' \in {"KEY_SENT", "CHANGE_CIPHER_SENT"}
                    /\ KeyAfterCertificates'
  BY DEF KeyInv, KeyAfterCertificates
<1>1. CASE "key" \in Range(sent)
  <2>1. state \in {"KEY_SENT", "CHANGE_CIPHER_SENT"}
    BY <1>1 DEF CertificatesInv, KeyInv
  <2>2. PICK p, q, r \in Places :
          /\ Before(p, q) /\ Before(q, r)
          /\ MessageAt(p) = pendingCipher
          /\ MessageAt(q).type = "Certificate"
          /\ MessageAt(r).type = "ServerHelloDone"
    BY <1>1 DEF CertificatesInv, KeyAfterCertificates
  <2>3. verified
    BY <1>1 DEF CertificatesInv, KeyAfterCertificates
  <2> QED
    BY <2>1, <2>2, <2>3, LateState, PlacesStay DEF KeyAfterCertificates, Before
<1>2. CASE SendKey
  <2>1. /\ rpc = "key" /\ state' = "KEY_SENT"
        /\ pendingCipher' = pendingCipher /\ verified' = verified
    BY <1>2 DEF SendKey, crypto
  <2>2. verified /\ HasCertificate /\ todo # <<>> /\ Head(todo).type = "ServerHelloDone"
    BY <2>1 DEF CertificatesInv, DoneInv
  <2>3. PICK p, q \in Places :
          /\ Passed(p) /\ Passed(q) /\ Before(p, q)
          /\ MessageAt(p) = pendingCipher /\ MessageAt(q).type = "Certificate"
    BY <2>2 DEF CertificatesInv, CertificatePassed
  <2>4. PICK r \in Places : MessageAt(r) = Head(todo) /\ Before(q, r)
    BY <2>1, <2>2, <2>3, NextPlace DEF CertificatesInv
  <2> QED
    BY <2>1, <2>2, <2>3, <2>4, PlacesStay DEF KeyAfterCertificates, Before
<1> QED
  BY <1>1, <1>2, KeyIsSent

\* The client sends its key only after it has verified a chain of certificates
\* that came after the ServerHello whose cipher it uses, and before the
\* ServerHelloDone, in one record or in several, with whatever between them.
THEOREM KeyWaits == Spec => []KeyAfterCertificates
<1>1. Init => CertificatesInv
  BY DEF Init, CertificatesInv, TodoInv, HelloPassed, CertificatePassed, KeptInv, DoneInv, KeyInv,
     KeyAfterCertificates, HasCertificate, Range
<1>2. IInv /\ CertificatesInv /\ [Next]_vars => CertificatesInv'
  BY TodoKept, HelloKept, CertificateKept, EarlyKept, DoneKept, KeyKept DEF CertificatesInv
<1>3. CertificatesInv => KeyAfterCertificates
  BY DEF CertificatesInv
<1> QED
  BY <1>1, <1>2, <1>3, Invariance, PTL DEF Spec
=============================================================================
