----------------------------- MODULE MCLiveCalls -----------------------------
(* TLC instance of LiveCalls. *)
EXTENDS LiveCalls

SymmetricHandlers == Permutations(Handlers)

Key(n, k, r, d) == [name |-> n, key |-> k, role |-> r, disabled |-> d]

ApiKey == <<Key("default", "k0", "admin", FALSE)>>

\* A client whose key is replaced without a change of length, and a file in which
\* two entries share one.
ClientFiles ==
    {<<Key("a", "k1", "", FALSE)>>, <<Key("a", "k2", "admin", FALSE)>>,
     <<Key("a", "k2", "", FALSE), Key("b", "k2", "client", TRUE)>>}

Body(m, p, s) == [media |-> m, parts |-> p, sdp |-> TRUE, session |-> s]

\* A bare SDP, a session with a type, and bodies that are refused.
SomeOffers ==
    {Body("sdp", << >>, << >>),
     Body("multipart", <<"session", "sdp">>, [f \in {"type", "audio"} |-> TRUE]),
     Body("json", <<"sdp", "session">>, [f \in {"tools"} |-> TRUE])}
=============================================================================
