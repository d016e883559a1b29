--------------------------- MODULE MCProxyRequest ---------------------------
(* ProxyRequest for two concurrent requests, or one streamed answer.       *)
EXTENDS ProxyRequest
=============================================================================
