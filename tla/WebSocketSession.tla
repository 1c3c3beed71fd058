-------------------------- MODULE WebSocketSession --------------------------
(***************************************************************************)
(* One session of handleResponsesWebSocket (websocket.go): a pump in each  *)
(* direction, the tracker that turns response.create events and terminal   *)
(* events into log entries, and the end of the session. The client's pump  *)
(* asks the tier catalog, in competition with other requests; a rate limit *)
(* in the session benches its account. The client, which may wait for an   *)
(* answer or not, and the upstream, which answers in order, are the        *)
(* environment. A turn is the number of its response.create.               *)
(***************************************************************************)
EXTENDS TierCatalog, Cooldown

CONSTANTS
    Session,    \* the session's client pump, as a caller of the catalog
    Boot,       \* Unix time at the start of the clock
    Evidence,   \* headers and bodies of rate limits
    MaxTurns,   \* bound on the client's turns
    MaxAsks     \* bound on what the other callers ask the catalog

\* What a header or a field of a body may hold: a number, a date or something else.
ResetValue == [kind : {"number", "date", "text"}, halves : Int]

ASSUME SessionAssumption ==
    /\ Session \in TierCallers /\ Boot \in Nat /\ MaxTurns \in Nat /\ MaxAsks \in Nat
    /\ \A limit \in Evidence :
          /\ limit.headers \in Seq(ResetValue)
          /\ limit.body \subseteq ResetValue /\ IsFiniteSet(limit.body)
          /\ limit.wording \in DOMAIN Defaults

VARIABLES
    sent,       \* turns that the client has sent
    inbox,      \* turns that the client's pump has not read
    upstream,   \* turns that the upstream has not answered
    events,     \* terminal events that the other pump has not read
    seen,       \* the last turn whose terminal event the client has seen
    impatient,  \* the client has sent a turn before it saw the last one end
    pump,       \* the client's pump: where it stands and the turn it carries
    back,       \* the other pump: where it stands and the event it carries
    open,       \* tracker.pending: the turn whose log entry is open, 0 if none is
    entries,    \* log entries: the turn, and the one whose answer ended it (0 for none)
    ended,      \* the handler has returned
    bench,      \* the account's bench: until when, given when and on what evidence
    asks        \* what the other callers have asked

wsVars == <<sent, inbox, upstream, events, seen, impatient, pump, back, open, entries, ended, bench, asks>>

sessionVars == <<tierVars, wsVars>>

\* A terminal event ends a turn; an error with status 429 ends the session too.
Kinds == {"terminal", "limited"}

NoEvent == [turn |-> 0, kind |-> "none"]

NoBench == [until |-> 0, given |-> 0, on |-> {}]

SessionInit ==
    /\ TierInit
    /\ sent = 0 /\ seen = 0 /\ impatient = FALSE
    /\ inbox = << >> /\ upstream = << >> /\ events = << >>
    /\ pump = [at |-> "read", turn |-> 0]
    /\ back = [at |-> "read", event |-> NoEvent]
    /\ open = 0 /\ entries = << >> /\ ended = FALSE
    /\ bench = NoBench /\ asks = 0

-----------------------------------------------------------------------------
(* The client and the upstream. *)

Create ==
    /\ sent < MaxTurns /\ pump.at # "done"
    /\ sent' = sent + 1
    /\ inbox' = Append(inbox, sent + 1)
    /\ impatient' = (impatient \/ seen < sent)
    /\ UNCHANGED <<tierVars, upstream, events, seen, pump, back, open, entries, ended, bench, asks>>

Respond(kind) ==
    /\ upstream # << >> /\ back.at # "done"
    /\ upstream' = Tail(upstream)
    /\ events' = Append(events, [turn |-> Head(upstream), kind |-> kind])
    /\ UNCHANGED <<tierVars, sent, inbox, seen, impatient, pump, back, open, entries, ended, bench, asks>>

-----------------------------------------------------------------------------
(* copyWebSocketClientToUpstream *)

\* A response.create for the priority tier asks the catalog first; others do not.
ReadClient(priority) ==
    /\ pump.at = "read" /\ inbox # << >>
    /\ inbox' = Tail(inbox)
    /\ pump' = [at |-> IF priority THEN "tier" ELSE "begin", turn |-> Head(inbox)]
    /\ IF priority THEN Ask(Session) ELSE UNCHANGED tierVars
    /\ UNCHANGED <<sent, upstream, events, seen, impatient, back, open, entries, ended, bench, asks>>

TierKnown ==
    /\ pump.at = "tier" /\ at[Session] = "return"
    /\ at' = [at EXCEPT ![Session] = "out"]
    /\ got' = [got EXCEPT ![Session] = "none"]
    /\ pump' = [pump EXCEPT !.at = "begin"]
    /\ UNCHANGED <<clock, cache, inFlight, canceled, sent, inbox, upstream, events, seen,
                   impatient, back, open, entries, ended, bench, asks>>

Finish(turn, by) == Append(entries, [turn |-> turn, by |-> by])

\* Mutant of Begin: the entry of an open turn is overwritten.
BeginOver ==
    /\ pump.at = "begin"
    /\ open' = pump.turn
    /\ pump' = [pump EXCEPT !.at = "write"]
    /\ UNCHANGED <<tierVars, sent, inbox, upstream, events, seen, impatient, back, entries, ended, bench, asks>>

\* tracker.begin: an open turn ends here, unanswered.
Begin ==
    /\ pump.at = "begin"
    /\ entries' = IF open = 0 THEN entries ELSE Finish(open, 0)
    /\ open' = pump.turn
    /\ pump' = [pump EXCEPT !.at = "write"]
    /\ UNCHANGED <<tierVars, sent, inbox, upstream, events, seen, impatient, back, ended, bench, asks>>

WriteUpstream ==
    /\ pump.at = "write"
    /\ pump' = [at |-> "read", turn |-> 0]
    /\ upstream' = Append(upstream, pump.turn)
    /\ UNCHANGED <<tierVars, sent, inbox, events, seen, impatient, back, open, entries, ended, bench, asks>>

\* Mutant of PumpEnds: the pump that is left is not told.
PumpEndsAlone ==
    /\ pump.at \in {"read", "write"}
    /\ pump' = [at |-> "done", turn |-> 0]
    /\ UNCHANGED <<tierVars, sent, inbox, upstream, events, seen, impatient, back, open, entries,
                   ended, bench, asks>>

\* A read or a write fails, or an event is not JSON: the pump ends, and the handler
\* cancels the context of the session.
PumpEnds ==
    /\ pump.at \in {"read", "write"}
    /\ pump' = [at |-> "done", turn |-> 0]
    /\ canceled' = canceled \cup {Session}
    /\ UNCHANGED <<clock, cache, inFlight, at, got, sent, inbox, upstream, events, seen, impatient,
                   back, open, entries, ended, bench, asks>>

-----------------------------------------------------------------------------
(* copyWebSocketUpstreamToClient *)

\* Mutant of ReadUpstream: the event is forwarded before it is observed.
ForwardFirst ==
    /\ back.at = "read" /\ events # << >>
    /\ back' = [at |-> "observe", event |-> Head(events)]
    /\ events' = Tail(events)
    /\ seen' = Head(events).turn
    /\ UNCHANGED <<tierVars, sent, inbox, upstream, impatient, pump, open, entries, ended, bench, asks>>

ReadUpstream ==
    /\ back.at = "read" /\ events # << >>
    /\ back' = [at |-> "observe", event |-> Head(events)]
    /\ events' = Tail(events)
    /\ UNCHANGED <<tierVars, sent, inbox, upstream, seen, impatient, pump, open, entries, ended, bench, asks>>

eventNow == Boot + clock

\* observeServerEvent: a rate limit benches the account; whatever turn is open ends.
Observe ==
    /\ back.at = "observe"
    /\ \/ back.event.kind = "terminal" /\ UNCHANGED bench
       \/ /\ back.event.kind = "limited"
          /\ \E limit \in Evidence :
                bench' = [until |-> DeriveCooldown(limit, eventNow), given |-> eventNow, on |-> limit]
    /\ entries' = IF open = 0 THEN entries ELSE Finish(open, back.event.turn)
    /\ open' = 0
    /\ back' = [back EXCEPT !.at = "write"]
    /\ UNCHANGED <<tierVars, sent, inbox, upstream, events, seen, impatient, pump, ended, asks>>

\* The client sees the event; after a rate limit it has to reconnect.
WriteClient ==
    /\ back.at = "write"
    /\ seen' = back.event.turn
    /\ \/ /\ back.event.kind # "limited"
          /\ back' = [at |-> "read", event |-> NoEvent] /\ UNCHANGED canceled
       \/ /\ back.event.kind = "limited"
          /\ back' = [at |-> "done", event |-> NoEvent] /\ canceled' = canceled \cup {Session}
    /\ UNCHANGED <<clock, cache, inFlight, at, got, sent, inbox, upstream, events, impatient, pump,
                   open, entries, ended, bench, asks>>

BackEnds ==
    /\ back.at \in {"read", "write"}
    /\ back' = [at |-> "done", event |-> NoEvent]
    /\ canceled' = canceled \cup {Session}
    /\ UNCHANGED <<clock, cache, inFlight, at, got, sent, inbox, upstream, events, seen, impatient,
                   pump, open, entries, ended, bench, asks>>

-----------------------------------------------------------------------------
(* The session's end, and the rest of the world. *)

\* Both pumps must finish before the final log entry.
Over == pump.at = "done" /\ back.at = "done"

\* tracker.finishOpen, and the handler returns.
FinishOpen ==
    /\ Over /\ ~ended
    /\ entries' = IF open = 0 THEN entries ELSE Finish(open, 0)
    /\ open' = 0
    /\ ended' = TRUE
    /\ UNCHANGED <<tierVars, sent, inbox, upstream, events, seen, impatient, pump, back, bench, asks>>

\* The server cancels its work.
CancelSession ==
    /\ ~ended /\ Session \notin canceled
    /\ canceled' = canceled \cup {Session}
    /\ UNCHANGED <<clock, cache, inFlight, at, got, wsVars>>

Others == TierCallers \ {Session}

\* Another request asks, may be canceled, and goes on with what it got.
AskElsewhere(c) ==
    /\ asks < MaxAsks /\ asks' = asks + 1
    /\ Ask(c)
    /\ UNCHANGED <<sent, inbox, upstream, events, seen, impatient, pump, back, open, entries, ended, bench>>

CancelElsewhere(c) == Cancel(c) /\ UNCHANGED wsVars

GoOn(c) ==
    /\ at[c] = "return"
    /\ at' = [at EXCEPT ![c] = "out"]
    /\ got' = [got EXCEPT ![c] = "none"]
    /\ canceled' = canceled \ {c}
    /\ UNCHANGED <<clock, cache, inFlight, wsVars>>

Pumping ==
    \/ \E priority \in BOOLEAN : ReadClient(priority)
    \/ TierKnown \/ Begin \/ WriteUpstream
    \/ ReadUpstream \/ Observe \/ WriteClient

SessionNext ==
    \/ Create
    \/ \E kind \in Kinds : Respond(kind)
    \/ Pumping \/ PumpEnds \/ BackEnds
    \/ FinishOpen \/ CancelSession
    \/ \E c \in TierCallers : LookUpTier(c) /\ UNCHANGED wsVars
    \/ \E c \in Others : AskElsewhere(c) \/ CancelElsewhere(c) \/ GoOn(c)
    \/ Tick /\ UNCHANGED wsVars

\* Goroutines are scheduled; a canceled context ends the reads and writes that wait
\* for a peer, and a fetch ends at its timeout. The peers need not do anything.
SessionFairness ==
    /\ \A c \in TierCallers : WF_sessionVars(LookUpTier(c) /\ UNCHANGED wsVars)
    /\ WF_sessionVars(TierKnown \/ Begin)
    /\ WF_sessionVars(Observe)
    /\ WF_sessionVars(Session \in canceled /\ PumpEnds)
    /\ WF_sessionVars(Session \in canceled /\ BackEnds)
    /\ WF_sessionVars(FinishOpen)

SessionSpec == SessionInit /\ [][SessionNext]_sessionVars /\ SessionFairness

-----------------------------------------------------------------------------
(* What is expected of a session. *)

Turns == 0..MaxTurns

Event == [turn : Turns, kind : Kinds \cup {"none"}]

Entry == [turn : Turns, by : Turns]

SessionTypeOK ==
    /\ TierTypeOK
    /\ sent \in Turns /\ seen \in Turns /\ open \in Turns
    /\ inbox \in Seq(Turns) /\ upstream \in Seq(Turns)
    /\ events \in Seq(Event) /\ entries \in Seq(Entry)
    /\ impatient \in BOOLEAN /\ ended \in BOOLEAN
    /\ pump \in [at : {"read", "tier", "begin", "write", "done"}, turn : Turns]
    /\ back \in [at : {"read", "observe", "write", "done"}, event : Event]
    /\ bench.until \in Nat /\ asks \in 0..MaxAsks

\* The turns that have reached the tracker.
Begun == sent - Len(inbox) - IF pump.at \in {"tier", "begin"} THEN 1 ELSE 0

Logged(turn) == Cardinality({i \in 1..Len(entries) : entries[i].turn = turn})

\* Every turn has one log entry, written or open; none is open once the handler has
\* returned, however the session ended.
LoggedOnce ==
    /\ \A t \in 1..Begun : Logged(t) + (IF open = t THEN 1 ELSE 0) = 1
    /\ ended => open = 0

\* Types, the catalog's single flight and the account of turns.
SessionInv == SessionTypeOK /\ OneFetch /\ LoggedOnce

\* If the client waits for each turn to end, every answer is booked to its own turn:
\* the tracker closes a turn before the client can see that it is over.
AnsweredByOwn ==
    ~impatient => \A i \in 1..Len(entries) : entries[i].by \in {0, entries[i].turn}

\* The moments that the values of a rate limit name, as they are meant: a number from
\* EpochFloor on and a date are moments, a smaller number is a delay.
Says(v) == v.kind = "date" \/ (v.kind = "number" /\ v.halves > 0)

Moment(v, given) ==
    IF v.kind = "date" \/ v.halves >= 2 * EpochFloor THEN v.halves \div 2
    ELSE given + v.halves \div 2

\* A moment moved into the shortest and the longest bench.
Within(m, given) ==
    IF m < given + MinCooldown THEN given + MinCooldown
    ELSE IF m > given + MaxCooldown THEN given + MaxCooldown
    ELSE m

Told(v, given) == Within(Moment(v, given), given)

\* A bench lasts as long as the first header that says a moment tells; without one,
\* until the earliest moment that the body tells; without either, as long as the wording
\* suggests. Each value is clamped before they are compared: a moment that is past
\* stands for the shortest bench, also beside later ones (deriveCooldown,
\* resetFromBody, docs/multi-account.md:112-124).
BenchedAsTold ==
    bench # NoBench =>
      LET limit == bench.on
          headers == {i \in 1..Len(limit.headers) : Says(limit.headers[i])}
          fields == {v \in limit.body : Says(v)}
      IN  \/ \E i \in headers :
               /\ \A j \in headers : i <= j
               /\ bench.until = Told(limit.headers[i], bench.given)
          \/ /\ headers = {}
             /\ \E v \in fields : bench.until = Told(v, bench.given)
             /\ \A v \in fields : bench.until <= Told(v, bench.given)
          \/ /\ headers = {} /\ fields = {}
             /\ bench.until = bench.given + Defaults[limit.wording]

\* Once either pump has ended or the server cancels its work, the session ends, even
\* if its client pump waits for a catalog that somebody else fetches and the peers
\* say nothing more.
SessionEnds == (Session \in canceled \/ pump.at = "done" \/ back.at = "done") ~> ended
=============================================================================
