---------------------------- MODULE MCWebSocket ----------------------------
(* WebSocket for TLC, with the codec of the handshake's key.                *)
EXTENDS WebSocket, Base64

\* The key that the handshake sends decodes to the digest it was made of, with
\* the padding that base64 asks for (EncodeBase64 and DecodeBase64, for what
\* is left over by the 20 bytes of a digest).  The connection has no part in
\* this: it is looked at once, before the client sends anything.
Base64Exact == sent = <<>> => Base64Followed
=============================================================================
