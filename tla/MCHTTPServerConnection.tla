----------------------- MODULE MCHTTPServerConnection -----------------------
(* Peers that speak HTTP only, upgrade to a WebSocket and send messages of *)
(* one and two frames before and after they end it, ask for a version that *)
(* is refused, or ask for server-sent events.                              *)
EXTENDS HTTPServerConnection

Plain == <<Request("get"), Request("wsBadVersion"), Request("get")>>
Chat == <<Request("get"), Request("wsReq"), Frame("text", FALSE), Frame("binary", TRUE),
          Frame("text", TRUE), Frame("connectionClose", TRUE)>>
Ping == <<Request("wsReq"), Frame("text", FALSE), Frame("ping", TRUE), Frame("text", TRUE)>>
Events == <<Request("sseReq"), Request("get")>>
AllScripts == {Plain, Chat, Ping, Events}
PlainScript == {Plain}
=============================================================================
