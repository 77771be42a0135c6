--------------------------- MODULE MCWebSocketFrames ---------------------------
(***************************************************************************)
(* An instance of WebSocketFrames for TLC: a peer that pings before it     *)
(* sends a text.                                                           *)
(***************************************************************************)
EXTENDS WebSocketFrames

PingThenText ==
  {<<[op |-> Ping, fin |-> TRUE, len |-> 2, at |-> 1],
     [op |-> Text, fin |-> TRUE, len |-> 1, at |-> 4]>>}
===============================================================================
