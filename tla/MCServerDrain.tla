---------------------------- MODULE MCServerDrain ----------------------------
(* TLC instances of ServerDrain: three HTTP requests and a WebSocket. *)
EXTENDS ServerDrain

CONSTANTS h1, h2, h3, ws

FourHandlers == {h1, h2, h3, ws}

OneSocket == {ws}
=============================================================================
