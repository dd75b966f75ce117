--------------------------- MODULE MCTLSHandshake ---------------------------
(* Complete flights, in one record and in several, with every version that *)
(* may be accepted or refused, and flights that are out of order, broken,  *)
(* without a certificate, or followed by more.                             *)
EXTENDS TLSHandshake

Hello(v, m, e) == [type |-> "ServerHello", version |-> v, mark |-> m, ecdhe |-> e]
Certificate == [type |-> "Certificate"]
HelloDone == [type |-> "ServerHelloDone"]
Other == [type |-> "Other"]

R(kind, messages, fault) == [kind |-> kind, messages |-> messages, fault |-> fault]
H(messages) == R("handshake", messages, "none")

Good == Hello(12, "01", TRUE)

MCFlights ==
  {<<H(<<h, Certificate, HelloDone>>)>> :
     h \in {Hello(13, "", TRUE), Hello(12, "", TRUE), Hello(11, "00", TRUE), Hello(12, "01", FALSE)}}
  \cup
  {<<H(<<Good>>), H(<<Certificate, Other>>), H(<<HelloDone>>), R("other", <<>>, "none")>>,
   <<H(<<Other, Certificate, Good, HelloDone>>)>>,
   <<H(<<Certificate, Hello(13, "", TRUE), HelloDone>>)>>,
   <<H(<<Good, Certificate, Hello(11, "00", TRUE), HelloDone>>)>>,
   <<H(<<HelloDone, Good>>), H(<<Good>>)>>,
   <<R("warning", <<>>, "none"), H(<<Good, Certificate, HelloDone>>)>>,
   <<H(<<Good, Certificate>>), R("fatal", <<>>, "none"), H(<<HelloDone>>)>>,
   <<R("handshake", <<Good, Certificate, HelloDone>>, "alert"), H(<<Good>>)>>,
   <<R("fatal", <<>>, "alert")>>,
   <<H(<<Good>>), R("handshake", <<Certificate>>, "raise"), H(<<HelloDone>>)>>,
   <<H(<<Good>>), R("application", <<>>, "none")>>}
=============================================================================
