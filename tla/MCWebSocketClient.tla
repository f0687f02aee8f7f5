------------------------- MODULE MCWebSocketClient -------------------------
(* A client with text heartbeats and two subscriptions.  A limit of three  *)
(* reconnects takes several iterations of the loop to reach, a limit of one *)
(* is reached between the ping and the heartbeat of one iteration.          *)
EXTENDS WebSocketClient

MCSubs == {"myOrder", "candle"}
============================================================================
