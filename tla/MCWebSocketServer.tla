------------------------- MODULE MCWebSocketServer -------------------------
\* WebSocketServer for TLC.
EXTENDS WebSocketServer
=============================================================================
