------------------------------ MODULE LiveCalls ------------------------------
(***************************************************************************)
(* Voice calls (realtime.go) behind client authentication: handleLiveCall  *)
(* reserves room in liveCallStore, opens a call upstream and publishes it; *)
(* handleLiveWebSocket looks a call up for the client that opened it.      *)
(* Requests run concurrently with each other, with edits of the keys file  *)
(* and with time. The limiter and postSubscription have modules of their   *)
(* own and are here the two ends of one upstream call.                     *)
(***************************************************************************)
EXTENDS KeyRegistry

CONSTANTS
    Handlers,  \* goroutines that serve voice requests, one after the other
    Tokens,    \* bearer tokens that clients present
    Offers,    \* bodies of POST /v1/realtime/calls
    CallIDs,   \* what the upstream's Location header names
    MaxCalls,  \* maxLiveCalls
    TTL        \* liveCallTTL

ASSUME LiveAssumption == IsFiniteSet(Handlers) /\ MaxCalls \in Nat \ {0} /\ TTL \in Nat \ {0}

VARIABLES
    calls,    \* liveCallStore.calls, a set of [id, owner, expires]
    pending,  \* liveCallStore.pending
    told,     \* the calls whose Location clients know
    req       \* each request: where it stands (pc), its bearer token, the identity in
              \* its context (auth) and in its log entry, the session it forwards and
              \* the call that it opened or looked up

liveVars == <<keyVars, calls, pending, told, req>>

Call == [id : CallIDs, owner : Tokens, expires : Nat]

NoCall == [id |-> "", owner |-> "", expires |-> 0]

NoRequest == [pc |-> "idle", token |-> "", auth |-> Nobody, entry |-> Nobody,
              session |-> {}, call |-> NoCall]

Fields == {"type", "model", "instructions", "audio", "delegation", "initial_items"}

Defaulted == {"model", "instructions", "audio", "delegation"}

Rejected == {"rejected"}

Duplicates(parts) == \E i, j \in 1..Len(parts) : i # j /\ parts[i] = parts[j]

\* decodeLiveCall and validateLiveSessionOptions: the fields that are forwarded, or
\* Rejected. An offer has a media type, the parts or members of its body in order,
\* an SDP that is an offer or not, and for each field of the session whether its
\* value is one that GPT-Live takes.
DecodeLiveCall(o) ==
    LET given  == IF o.media # "sdp" /\ "session" \in ToSet(o.parts) THEN o.session
                  ELSE [f \in {} |-> TRUE]
        hasSdp == o.sdp /\ (o.media = "sdp" \/ "sdp" \in ToSet(o.parts))
    IN  IF \/ o.media \notin {"multipart", "json", "sdp"}
           \/ o.media # "sdp" /\ ~(ToSet(o.parts) \subseteq {"sdp", "session"})
           \/ o.media = "multipart" /\ Duplicates(o.parts)
           \/ ~hasSdp
           \/ ~(DOMAIN given \subseteq Fields)
           \/ \E f \in DOMAIN given : ~given[f]
        THEN Rejected
        ELSE (DOMAIN given \ {"type"}) \cup Defaulted

-----------------------------------------------------------------------------
Goto(h, p) == req' = [req EXCEPT ![h].pc = p]

\* The handler has answered.
Done(h) == req' = [req EXCEPT ![h] = NoRequest]

\* withClientAuthentication resolves the token once.
Authenticate(h, t) ==
    /\ req[h].pc = "idle"
    /\ reg' = Reloaded
    /\ req' = [req EXCEPT ![h] = [NoRequest EXCEPT
                  !.pc = "log", !.token = t, !.auth = Resolve(Reloaded.entries, t)]]
    /\ UNCHANGED <<clock, file, calls, pending, told>>

BeginRequestLog(h) ==
    /\ req[h].pc = "log"
    /\ req' = [req EXCEPT ![h].pc = "authorize", ![h].entry = req[h].auth]
    /\ UNCHANGED <<keyVars, calls, pending, told>>

\* Mutant of AuthorizedClient: the token is resolved again.
AuthorizedAgain(h) ==
    /\ req[h].pc = "authorize"
    /\ reg' = Reloaded
    /\ LET id == Resolve(Reloaded.entries, req[h].token)
       IN  IF id = Nobody THEN Done(h)
           ELSE req' = [req EXCEPT ![h].pc = "admitted", ![h].auth = id]
    /\ UNCHANGED <<clock, file, calls, pending, told>>

\* authorizedClient, or 401
AuthorizedClient(h) ==
    /\ req[h].pc = "authorize"
    /\ IF req[h].auth = Nobody THEN Done(h) ELSE Goto(h, "admitted")
    /\ UNCHANGED <<keyVars, calls, pending, told>>

\* POST /v1/realtime/calls: 400, or on to the registry.
Offer(h, o) ==
    /\ req[h].pc = "admitted"
    /\ IF DecodeLiveCall(o) = Rejected THEN Done(h)
       ELSE req' = [req EXCEPT ![h].pc = "decoded", ![h].session = DecodeLiveCall(o)]
    /\ UNCHANGED <<keyVars, calls, pending, told>>

Live(c) == clock <= c.expires

\* Mutant of Reserve: pending calls are not counted.
ReserveByPublished(h) ==
    /\ req[h].pc = "decoded"
    /\ calls' = {c \in calls : Live(c)}
    /\ IF Cardinality(calls') >= MaxCalls
       THEN Done(h) /\ UNCHANGED pending
       ELSE Goto(h, "reserved") /\ pending' = pending + 1
    /\ UNCHANGED <<keyVars, told>>

\* reserve: drop what has expired; 503 if the registry is still full.
Reserve(h) ==
    /\ req[h].pc = "decoded"
    /\ calls' = {c \in calls : Live(c)}
    /\ IF Cardinality(calls') + pending >= MaxCalls
       THEN Done(h) /\ UNCHANGED pending
       ELSE Goto(h, "reserved") /\ pending' = pending + 1
    /\ UNCHANGED <<keyVars, told>>

\* No slot, no account, or no usable answer: the deferred finish("").
Unpublished(h) ==
    /\ req[h].pc = "reserved"
    /\ pending' = pending - 1
    /\ Done(h)
    /\ UNCHANGED <<keyVars, calls, told>>

\* The upstream names the call as it names no other (liveCallID); finish publishes it.
Publish(h, id) ==
    /\ req[h].pc = "reserved"
    /\ \A c \in calls \cup told : c.id # id
    /\ pending' = pending - 1
    /\ LET call == [id |-> id, owner |-> req[h].token, expires |-> clock + TTL]
       IN  /\ calls' = calls \cup {call}
           /\ req' = [req EXCEPT ![h].pc = "published", ![h].call = call]
    /\ UNCHANGED <<keyVars, told>>

\* The client gets the answer and its Location.
Answer(h) ==
    /\ req[h].pc = "published"
    /\ told' = told \cup {req[h].call}
    /\ Done(h)
    /\ UNCHANGED <<keyVars, calls, pending>>

\* Mutant of Stale: whoever asks for the call of somebody else removes it.
StaleForCaller(h, c) == ~Live(c) \/ c.owner # req[h].token

\* What lookup deletes.
Stale(h, c) == ~Live(c)

\* GET /v1/live/{call_id}: 404 for an expired call and for that of somebody else.
LookUp(h, id) ==
    /\ req[h].pc = "admitted"
    /\ LET found == {c \in calls : c.id = id}
           mine  == {c \in found : Live(c) /\ c.owner = req[h].token}
       IN  /\ calls' = calls \ {c \in found : Stale(h, c)}
           /\ \/ mine = {} /\ Done(h)
              \/ \E c \in mine : req' = [req EXCEPT ![h].pc = "dial", ![h].call = c]
    /\ UNCHANGED <<keyVars, pending, told>>

\* Slot, token and both handshakes are there, or one of them fails.
Dial(h) ==
    /\ req[h].pc = "dial"
    /\ Goto(h, "sideband") \/ Done(h)
    /\ UNCHANGED <<keyVars, calls, pending, told>>

\* A pump ends, because a side closes or the call's deadline passes.
Hangup(h) ==
    /\ req[h].pc = "sideband"
    /\ Done(h)
    /\ UNCHANGED <<keyVars, calls, pending, told>>

LiveInit ==
    /\ KeyInit
    /\ calls = {} /\ pending = 0 /\ told = {}
    /\ req = [h \in Handlers |-> NoRequest]

Handle(h) ==
    \/ \E t \in Tokens : Authenticate(h, t)
    \/ BeginRequestLog(h) \/ AuthorizedClient(h)
    \/ \E o \in Offers : Offer(h, o)
    \/ Reserve(h) \/ Unpublished(h) \/ Answer(h)
    \/ \E id \in CallIDs : Publish(h, id) \/ LookUp(h, id)
    \/ Dial(h) \/ Hangup(h)

Environment == (Edit \/ Tick) /\ UNCHANGED <<calls, pending, told, req>>

LiveNext == Environment \/ \E h \in Handlers : Handle(h)

LiveSpec == LiveInit /\ [][LiveNext]_liveVars

-----------------------------------------------------------------------------
(* What is expected of keys and calls. *)

Places == {"idle", "log", "authorize", "admitted", "decoded", "reserved", "published", "dial",
           "sideband"}

\* Who a caller can turn out to be, by the contents that the keys file may get.
Identities == {Nobody} \cup {Resolve(Parsed(c), t) : c \in KeyFiles, t \in Tokens}

Registry == [entries : {Parsed(c) : c \in KeyFiles}, mtime : Nat,
             size : {Size(c) : c \in KeyFiles}, checked : Nat]

Request == [pc : Places, token : Tokens \cup {""}, auth : Identities, entry : Identities,
            session : SUBSET Fields, call : Call \cup {NoCall}]

LiveTypeOK ==
    /\ clock \in Nat
    /\ file \in [content : KeyFiles, mtime : Nat, readable : BOOLEAN, since : Nat]
    /\ reg \in Registry
    /\ calls \subseteq Call /\ told \subseteq Call /\ pending \in Nat
    /\ req \in [Handlers -> Request]
    /\ \A h \in Handlers :
          /\ req[h].pc \in {"published", "dial", "sideband"} => req[h].call \in Call
          /\ req[h].pc # "idle" => req[h].token \in Tokens

\* Reservations and published calls share the cap, and a reservation belongs to a
\* request that is still at work: none survives an error path.
CapKept ==
    /\ pending = Cardinality({h \in Handlers : req[h].pc = "reserved"})
    /\ Cardinality(calls) + pending <= MaxCalls

\* What is forwarded is a complete GPT-Live session: the fields it requires, and
\* none that it does not know.
ForwardsWholeSession ==
    \A h \in Handlers : req[h].pc \in {"decoded", "reserved"} =>
        Defaulted \subseteq req[h].session /\ req[h].session \subseteq Fields \ {"type"}

\* A check that came after the last edit has seen the file as it is: what is valid
\* by now is in the registry.
CheckedIsSeen ==
    /\ reg.checked <= clock /\ file.since <= clock
    /\ reg.checked > file.since /\ file.readable /\ Valid(file.content) => ~Changed

\* A call that is published and not answered yet is there to be told.
PublishedIsThere ==
    \A h \in Handlers : req[h].pc = "published" /\ Live(req[h].call) => req[h].call \in calls

\* The types, the registry's cap, the sessions that are forwarded, and what the
\* registry of keys and that of calls know.
LiveInv == LiveTypeOK /\ CapKept /\ ForwardsWholeSession /\ CheckedIsSeen /\ PublishedIsThere

\* An edit of the keys file is in force once the interval has passed: no token of
\* the old file is accepted, and none of the new one refused, whatever was edited,
\* unreadable or rejected in between.
RotationTakesEffect ==
    [][ \A h \in Handlers :
          req[h].pc = "idle" /\ req'[h].pc = "log" /\ Loadable /\ clock >= file.since + StatInterval
          => req'[h].auth = Resolve(Parsed(file.content), req'[h].token) ]_liveVars

\* A request is logged under the client that it was admitted as, also when the keys
\* file changes while it runs.
AttributedAsAdmitted ==
    \A h \in Handlers : req[h].pc \notin {"idle", "log"} => req[h].entry = req[h].auth

\* A client that has been given a Location finds its call there until it expires,
\* whoever else asks for it and however full the registry is.
LocationUsable == \A c \in told : Live(c) => c \in calls
=============================================================================
