---------------------------- MODULE MCAuthRefresh ----------------------------
(* AuthRefresh for TLC: callers c1 and c2 share a broker, c3 runs in another. *)
EXTENDS AuthRefresh, TLC

CONSTANTS c1, c2, c3, b1, b2

TwoBrokers == (c1 :> b1) @@ (c2 :> b1) @@ (c3 :> b2)
=============================================================================
