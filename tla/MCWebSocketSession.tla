------------------------- MODULE MCWebSocketSession -------------------------
(* TLC instance of WebSocketSession. *)
EXTENDS WebSocketSession

CONSTANTS ws, c1

Both == {ws, c1}

Bench == [week |-> 9, other |-> 3]

Number(n) == [kind |-> "number", halves |-> n]

Date(t) == [kind |-> "date", halves |-> 2 * t]

Text == [kind |-> "text", halves |-> 0]

\* With timestamps from 90 on and a start at 100: delays, dates and timestamps side
\* by side, a timestamp in the past beside later ones, headers that disagree with each
\* other and with the body, half a second, a date beyond the longest bench, and
\* nothing that says when.
Limits ==
    {[headers |-> <<Text, Number(0)>>, body |-> {Number(12), Number(211), Date(107)}, wording |-> "other"],
     [headers |-> << >>, body |-> {Number(190), Number(12), Date(107)}, wording |-> "week"],
     [headers |-> <<Text, Number(1), Date(107)>>, body |-> {Number(12)}, wording |-> "other"],
     [headers |-> <<Date(150)>>, body |-> {Number(12)}, wording |-> "other"],
     [headers |-> << >>, body |-> {Text}, wording |-> "week"]}
=============================================================================
