--------------------------- MODULE LiveCallsProofs ---------------------------
(* Proofs about LiveCalls, for any keys files, handlers, tokens and bounds. *)
EXTENDS LiveCalls, FiniteSetTheorems, TLAPS

\* What the invariant says of one request r.
RequestOK(r) ==
    /\ r \in Request
    /\ r.pc \in {"published", "dial", "sideband"} => r.call \in Call
    /\ r.pc # "idle" => r.token \in Tokens
    /\ r.pc \in {"decoded", "reserved"} =>
          Defaulted \subseteq r.session /\ r.session \subseteq Fields \ {"type"}
    /\ r.pc \notin {"idle", "log"} => r.entry = r.auth

Reserved == {h \in Handlers : req[h].pc = "reserved"}

\* The inductive invariant: LiveInv, what it needs to be kept, and the two promises
\* that rest on it.
LiveIInv == LiveInv /\ IsFiniteSet(calls) /\ AttributedAsAdmitted /\ LocationUsable

-----------------------------------------------------------------------------
\* The invariant, request by request.
LEMMA RequestsOK ==
    ASSUME LiveIInv, NEW h \in Handlers
    PROVE  RequestOK(req[h])
BY DEF LiveIInv, LiveInv, LiveTypeOK, ForwardsWholeSession, AttributedAsAdmitted, RequestOK

\* The request of a handler that is done.
LEMMA NoRequestOK == RequestOK(NoRequest) /\ NoRequest.pc = "idle"
BY DEF RequestOK, Request, NoRequest, Places, Identities

\* The initial state satisfies the invariant.
LEMMA LiveInitInv == LiveInit => LiveIInv
<1> SUFFICES ASSUME LiveInit PROVE LiveIInv
  OBVIOUS
<1>1. PICK content \in KeyFiles :
         /\ file = [content |-> content, mtime |-> 0, readable |-> TRUE, since |-> 0]
         /\ reg = [entries |-> Parsed(content), mtime |-> 0, size |-> Size(content), checked |-> 0]
  BY DEF LiveInit, KeyInit
<1>2. clock = 0 /\ calls = {} /\ pending = 0 /\ told = {} /\ req = [h \in Handlers |-> NoRequest]
  BY DEF LiveInit, KeyInit
<1>3. req \in [Handlers -> Request]
  BY <1>2, NoRequestOK DEF RequestOK
<1>4. LiveTypeOK
  BY <1>1, <1>2, <1>3 DEF LiveTypeOK, Registry, NoRequest
<1>5. CapKept
  <2>1. {h \in Handlers : req[h].pc = "reserved"} = {}
    BY <1>2 DEF NoRequest
  <2> QED
    BY <1>2, <2>1, FS_EmptySet, LiveAssumption DEF CapKept
<1>6. ForwardsWholeSession /\ PublishedIsThere /\ AttributedAsAdmitted /\ LocationUsable
  BY <1>2 DEF ForwardsWholeSession, PublishedIsThere, AttributedAsAdmitted, LocationUsable, NoRequest
<1>7. CheckedIsSeen
  BY <1>1, <1>2 DEF CheckedIsSeen
<1> QED
  BY <1>2, <1>3, <1>4, <1>5, <1>6, <1>7, FS_EmptySet DEF LiveIInv, LiveInv

\* The step of a handler that changes its own request to r, loses no call that is
\* live and tells of none that is not there.
LEMMA HandlerStep ==
    ASSUME LiveIInv, NEW h \in Handlers, NEW r, RequestOK(r), req' = [req EXCEPT ![h] = r],
           UNCHANGED <<clock, file>>,
           calls' \subseteq Call, IsFiniteSet(calls'), {c \in calls : Live(c)} \subseteq calls',
           told' \subseteq Call, \A c \in told' : c \in told \/ (Live(c) => c \in calls'),
           r.pc = "published" /\ Live(r.call) => r.call \in calls',
           pending' \in Nat, pending' = Cardinality(Reserved'),
           Cardinality(calls') + pending' <= MaxCalls,
           reg' \in Registry, CheckedIsSeen'
    PROVE  LiveIInv'
<1>0. LiveTypeOK /\ PublishedIsThere /\ LocationUsable
  BY DEF LiveIInv, LiveInv
<1>1. req'[h] = r /\ \A k \in Handlers \ {h} : req'[k] = req[k]
  BY <1>0 DEF LiveTypeOK
<1>2. \A k \in Handlers : RequestOK(req'[k])
  BY <1>1, RequestsOK
<1>3. req' \in [Handlers -> Request]
  BY <1>0, <1>2 DEF RequestOK, LiveTypeOK
<1>4. LiveTypeOK' /\ ForwardsWholeSession' /\ AttributedAsAdmitted'
  BY <1>0, <1>2, <1>3 DEF RequestOK, LiveTypeOK, ForwardsWholeSession, AttributedAsAdmitted
<1>5. CapKept'
  BY DEF CapKept, Reserved
<1>6. PublishedIsThere'
  BY <1>0, <1>1 DEF PublishedIsThere, Live, LiveTypeOK
<1>7. LocationUsable'
  BY <1>0 DEF LocationUsable, Live
<1> QED
  BY <1>3, <1>4, <1>5, <1>6, <1>7 DEF LiveIInv, LiveInv

\* Asking the registry keeps it in step with the file.
LEMMA ReloadedSees ==
    ASSUME LiveIInv, UNCHANGED <<clock, file>>, reg' = Reloaded
    PROVE  /\ CheckedIsSeen'
           /\ reg' \in Registry
<1>0. LiveTypeOK /\ CheckedIsSeen
  BY DEF LiveIInv, LiveInv
<1>1. CASE clock < reg.checked + StatInterval
  BY <1>0, <1>1 DEF Reloaded, CheckedIsSeen, LiveTypeOK, Registry, Changed
<1>2. CASE ~(clock < reg.checked + StatInterval) /\ (~file.readable \/ ~Changed \/ ~Valid(file.content))
  BY <1>0, <1>2 DEF Reloaded, CheckedIsSeen, LiveTypeOK, Registry, Changed
<1>3. CASE ~(clock < reg.checked + StatInterval) /\ file.readable /\ Changed /\ Valid(file.content)
  BY <1>0, <1>3 DEF Reloaded, CheckedIsSeen, LiveTypeOK, Registry, Changed
<1> QED
  BY <1>1, <1>2, <1>3

\* Who holds a reservation is counted, one by one.
LEMMA ReservedCount ==
    ASSUME LiveIInv, NEW h \in Handlers, NEW r, req' = [req EXCEPT ![h] = r]
    PROVE  /\ Cardinality(Reserved) \in Nat /\ Cardinality(Reserved') \in Nat
           /\ (req[h].pc = "reserved") = (r.pc = "reserved") =>
                 Cardinality(Reserved') = Cardinality(Reserved)
           /\ req[h].pc # "reserved" /\ r.pc = "reserved" =>
                 Cardinality(Reserved') = Cardinality(Reserved) + 1
           /\ req[h].pc = "reserved" /\ r.pc # "reserved" =>
                 Cardinality(Reserved') = Cardinality(Reserved) - 1
<1>0. req'[h] = r /\ \A k \in Handlers \ {h} : req'[k] = req[k]
  BY DEF LiveIInv, LiveInv, LiveTypeOK
<1>1. Reserved \subseteq Handlers /\ Reserved' \subseteq Handlers
  BY DEF Reserved
<1>2. /\ IsFiniteSet(Reserved) /\ IsFiniteSet(Reserved')
      /\ Cardinality(Reserved) \in Nat /\ Cardinality(Reserved') \in Nat
  BY <1>1, LiveAssumption, FS_Subset, FS_CardinalityType
<1>3. CASE (req[h].pc = "reserved") = (r.pc = "reserved")
  <2>1. Reserved' = Reserved
    BY <1>0, <1>3 DEF Reserved
  <2> QED
    BY <1>2, <1>3, <2>1
<1>4. CASE req[h].pc # "reserved" /\ r.pc = "reserved"
  <2>1. Reserved' = Reserved \cup {h} /\ h \notin Reserved
    BY <1>0, <1>4 DEF Reserved
  <2> QED
    BY <1>2, <1>4, <2>1, FS_AddElement
<1>5. CASE req[h].pc = "reserved" /\ r.pc # "reserved"
  <2>1. Reserved' = Reserved \ {h} /\ h \in Reserved
    BY <1>0, <1>5 DEF Reserved
  <2> QED
    BY <1>2, <1>5, <2>1, FS_RemoveElement
<1> QED
  BY <1>2, <1>3, <1>4, <1>5

\* A step that leaves the calls alone, and the reservations too.
LEMMA QuietStep ==
    ASSUME LiveIInv, NEW h \in Handlers, NEW r, RequestOK(r), req' = [req EXCEPT ![h] = r],
           req[h].pc # "reserved", r.pc \notin {"reserved", "published"},
           UNCHANGED <<keyVars, calls, pending, told>>
    PROVE  LiveIInv'
<1>1. /\ calls \subseteq Call /\ told \subseteq Call /\ pending \in Nat /\ IsFiniteSet(calls)
      /\ reg \in Registry /\ pending = Cardinality(Reserved)
      /\ Cardinality(calls) + pending <= MaxCalls
  BY DEF LiveIInv, LiveInv, LiveTypeOK, CapKept, Reserved
<1>2. Cardinality(Reserved') = Cardinality(Reserved)
  BY ReservedCount
<1>3. CheckedIsSeen'
  BY DEF LiveIInv, LiveInv, CheckedIsSeen, keyVars, Changed
<1> QED
  BY <1>1, <1>2, <1>3, HandlerStep DEF keyVars

\* What is forwarded of an accepted offer.
LEMMA DecodedSession ==
    ASSUME NEW o, DecodeLiveCall(o) # Rejected
    PROVE  /\ Defaulted \subseteq DecodeLiveCall(o)
           /\ DecodeLiveCall(o) \subseteq Fields \ {"type"}
BY DEF DecodeLiveCall, Rejected, Defaulted, Fields

-----------------------------------------------------------------------------
\* Every step of a request keeps the invariant.
LEMMA HandleInv ==
    ASSUME LiveIInv, NEW h \in Handlers, Handle(h)
    PROVE  LiveIInv'
<1>0. /\ LiveTypeOK /\ IsFiniteSet(calls) /\ RequestOK(req[h])
      /\ pending = Cardinality(Reserved) /\ Cardinality(calls) + pending <= MaxCalls
      /\ calls \subseteq Call /\ told \subseteq Call /\ pending \in Nat /\ reg \in Registry
      /\ clock \in Nat
  BY RequestsOK DEF LiveIInv, LiveInv, LiveTypeOK, CapKept, Reserved
<1>a. req[h] \in Request /\ req \in [Handlers -> Request]
  BY <1>0 DEF LiveTypeOK
<1>c. Cardinality(calls) \in Nat
  BY <1>0, FS_CardinalityType
<1>d. UNCHANGED <<clock, file, reg>> => /\ CheckedIsSeen'/\ reg' \in Registry
  BY <1>0 DEF LiveIInv, LiveInv, CheckedIsSeen, Changed
<1>1. ASSUME NEW t \in Tokens, Authenticate(h, t) PROVE LiveIInv'
  <2> DEFINE r == [NoRequest EXCEPT !.pc = "log", !.token = t, !.auth = Resolve(Reloaded.entries, t)]
  <2>1. req' = [req EXCEPT ![h] = r] /\ req[h].pc = "idle"
    BY <1>1 DEF Authenticate
  <2>2. RequestOK(r) /\ r.pc = "log"
    <3>1. Resolve(Reloaded.entries, t) \in Identities
      BY <1>0 DEF Reloaded, LiveTypeOK, Registry, Identities
    <3> QED
      BY <3>1, NoRequestOK DEF RequestOK, Request, NoRequest, Places
  <2>3. UNCHANGED <<clock, file, calls, pending, told>> /\ reg' = Reloaded
    BY <1>1 DEF Authenticate
  <2> HIDE DEF r
  <2>4. Cardinality(Reserved') = Cardinality(Reserved)
    BY <2>1, <2>2, ReservedCount
  <2>5. /\ CheckedIsSeen'/\ reg' \in Registry
    BY <2>3, ReloadedSees
  <2> QED
    BY <1>0, <2>1, <2>2, <2>3, <2>4, <2>5, HandlerStep
<1>2. ASSUME BeginRequestLog(h) PROVE LiveIInv'
  <2> DEFINE r == [req[h] EXCEPT !.pc = "authorize", !.entry = req[h].auth]
  <2>1. req' = [req EXCEPT ![h] = r] /\ req[h].pc = "log"
    BY <1>2, <1>a DEF BeginRequestLog
  <2>2. RequestOK(r) /\ r.pc = "authorize"
    BY <1>0, <1>a, <2>1 DEF RequestOK, Request, Places
  <2> QED
    BY <1>2, <2>1, <2>2, QuietStep DEF BeginRequestLog
<1>done. ASSUME Done(h), req[h].pc # "reserved", UNCHANGED <<keyVars, calls, pending, told>>
         PROVE  LiveIInv'
  BY <1>done, NoRequestOK, QuietStep DEF Done
<1>goto. ASSUME NEW p \in {"admitted", "sideband"}, Goto(h, p), req[h].pc \in {"authorize", "dial"},
                p = "sideband" => req[h].pc = "dial",
                UNCHANGED <<keyVars, calls, pending, told>>
         PROVE  LiveIInv'
  <2> DEFINE r == [req[h] EXCEPT !.pc = p]
  <2>1. req' = [req EXCEPT ![h] = r]
    BY <1>goto, <1>a DEF Goto
  <2>2. RequestOK(r) /\ r.pc = p
    BY <1>0, <1>a, <1>goto DEF RequestOK, Request, Places
  <2> QED
    BY <1>goto, <2>1, <2>2, QuietStep
<1>3. ASSUME AuthorizedClient(h) PROVE LiveIInv'
  BY <1>3, <1>done, <1>goto DEF AuthorizedClient
<1>4. ASSUME NEW o \in Offers, Offer(h, o) PROVE LiveIInv'
  <2>1. CASE DecodeLiveCall(o) = Rejected
    BY <1>4, <2>1, <1>done DEF Offer
  <2>2. CASE DecodeLiveCall(o) # Rejected
    <3> DEFINE r == [req[h] EXCEPT !.pc = "decoded", !.session = DecodeLiveCall(o)]
    <3>1. req' = [req EXCEPT ![h] = r] /\ req[h].pc = "admitted"
      BY <1>4, <2>2, <1>a DEF Offer
    <3>2. RequestOK(r) /\ r.pc = "decoded"
      BY <1>0, <1>a, <3>1, <2>2, DecodedSession DEF RequestOK, Request, Places
    <3> QED
      BY <1>4, <3>1, <3>2, QuietStep DEF Offer
  <2> QED
    BY <2>1, <2>2
<1>5. ASSUME Reserve(h) PROVE LiveIInv'
  <2>1. /\ req[h].pc = "decoded" /\ calls' = {c \in calls : Live(c)}
        /\ UNCHANGED <<clock, file, reg, told>>
    BY <1>5 DEF Reserve, keyVars
  <2>2. /\ IsFiniteSet(calls') /\ Cardinality(calls') \in Nat
        /\ Cardinality(calls') <= Cardinality(calls) /\ calls' \subseteq Call
    BY <1>0, <2>1, FS_Subset, FS_CardinalityType
  <2>3. CASE Cardinality(calls') + pending >= MaxCalls
    <3>1. req' = [req EXCEPT ![h] = NoRequest] /\ pending' = pending
      BY <1>5, <2>3 DEF Reserve, Done
    <3>2. Cardinality(Reserved') = Cardinality(Reserved)
      BY <2>1, <3>1, NoRequestOK, ReservedCount
    <3>3. Cardinality(calls') + pending' <= MaxCalls /\ NoRequest.pc # "published"
      BY <1>0, <1>c, <2>2, <3>1, NoRequestOK, LiveAssumption
    <3> QED
      BY <1>0, <1>d, <2>1, <2>2, <3>1, <3>2, <3>3, NoRequestOK, HandlerStep
  <2>4. CASE ~(Cardinality(calls') + pending >= MaxCalls)
    <3> DEFINE r == [req[h] EXCEPT !.pc = "reserved"]
    <3>1. req' = [req EXCEPT ![h] = r] /\ pending' = pending + 1
      BY <1>5, <2>4, <1>a DEF Reserve, Goto
    <3>2. RequestOK(r) /\ r.pc = "reserved"
      BY <1>0, <1>a, <2>1 DEF RequestOK, Request, Places
    <3> HIDE DEF r
    <3>3. Cardinality(Reserved') = Cardinality(Reserved) + 1
      BY <2>1, <3>1, <3>2, ReservedCount
    <3>4. Cardinality(calls') + pending' <= MaxCalls /\ pending' \in Nat
      BY <1>0, <2>2, <2>4, <3>1, LiveAssumption
    <3> QED
      BY <1>0, <1>d, <2>1, <2>2, <3>1, <3>2, <3>3, <3>4, HandlerStep
  <2> QED
    BY <2>3, <2>4
<1>6. ASSUME req[h].pc = "reserved", pending' = pending - 1, NEW r, req' = [req EXCEPT ![h] = r],
             r.pc # "reserved"
      PROVE  pending' \in Nat /\ pending' = Cardinality(Reserved')
  <2>1. Cardinality(Reserved') = Cardinality(Reserved) - 1 /\ Cardinality(Reserved') \in Nat
    BY <1>6, ReservedCount
  <2> QED
    BY <1>0, <1>6, <2>1
<1>7. ASSUME Unpublished(h) PROVE LiveIInv'
  <2>1. /\ req[h].pc = "reserved" /\ pending' = pending - 1 /\ req' = [req EXCEPT ![h] = NoRequest]
        /\ UNCHANGED <<clock, file, reg, calls, told>>
    BY <1>7 DEF Unpublished, Done, keyVars
  <2>2. pending' \in Nat /\ pending' = Cardinality(Reserved')
    BY <1>6, <2>1, NoRequestOK
  <2>3. Cardinality(calls') + pending' <= MaxCalls
    BY <1>0, <1>c, <2>1, <2>2, LiveAssumption
  <2> QED
    BY <1>0, <1>d, <2>1, <2>2, <2>3, NoRequestOK, HandlerStep
<1>8. ASSUME NEW id \in CallIDs, Publish(h, id) PROVE LiveIInv'
  <2> DEFINE call == [id |-> id, owner |-> req[h].token, expires |-> clock + TTL]
  <2> DEFINE r == [req[h] EXCEPT !.pc = "published", !.call = call]
  <2>1. /\ req[h].pc = "reserved" /\ pending' = pending - 1 /\ calls' = calls \cup {call}
        /\ UNCHANGED <<clock, file, reg, told>>
    BY <1>8 DEF Publish, keyVars
  <2>2. req' = [req EXCEPT ![h] = r]
    BY <1>8, <1>a DEF Publish
  <2>3. call \in Call /\ call \notin calls
    BY <1>0, <1>8, <2>1, LiveAssumption DEF Call, RequestOK, Publish
  <2>4. RequestOK(r) /\ r.pc = "published" /\ r.call = call
    BY <1>0, <1>a, <2>1, <2>3 DEF RequestOK, Request, Places
  <2> HIDE DEF r, call
  <2>5. pending' \in Nat /\ pending' = Cardinality(Reserved')
    BY <1>6, <2>1, <2>2, <2>4
  <2>6. IsFiniteSet(calls') /\ Cardinality(calls') = Cardinality(calls) + 1
    BY <1>0, <2>1, <2>3, FS_AddElement
  <2>7. Cardinality(calls') + pending' <= MaxCalls
    BY <1>0, <1>c, <2>1, <2>5, <2>6, LiveAssumption
  <2> QED
    BY <1>0, <1>d, <2>1, <2>2, <2>3, <2>4, <2>5, <2>6, <2>7, HandlerStep
<1>9. ASSUME Answer(h) PROVE LiveIInv'
  <2>1. /\ req[h].pc = "published" /\ told' = told \cup {req[h].call}
        /\ req' = [req EXCEPT ![h] = NoRequest]
        /\ UNCHANGED <<clock, file, reg, calls, pending>>
    BY <1>9 DEF Answer, Done, keyVars
  <2>2. req[h].call \in Call /\ (Live(req[h].call) => req[h].call \in calls)
    BY <1>0, <2>1 DEF RequestOK, LiveIInv, LiveInv, PublishedIsThere
  <2>3. Cardinality(Reserved') = Cardinality(Reserved)
    BY <2>1, NoRequestOK, ReservedCount
  <2> QED
    BY <1>0, <1>d, <2>1, <2>2, <2>3, NoRequestOK, HandlerStep
<1>10. ASSUME NEW id \in CallIDs, LookUp(h, id) PROVE LiveIInv'
  <2> DEFINE found == {c \in calls : c.id = id}
  <2> DEFINE mine == {c \in found : Live(c) /\ c.owner = req[h].token}
  <2>1. /\ req[h].pc = "admitted" /\ calls' = calls \ {c \in found : ~Live(c)}
        /\ UNCHANGED <<clock, file, reg, pending, told>>
        /\ \/ req' = [req EXCEPT ![h] = NoRequest]
           \/ \E c \in mine : req' = [req EXCEPT ![h].pc = "dial", ![h].call = c]
    BY <1>10 DEF LookUp, Stale, Done, keyVars
  <2>2. /\ IsFiniteSet(calls') /\ Cardinality(calls') \in Nat
        /\ Cardinality(calls') <= Cardinality(calls) /\ calls' \subseteq Call
        /\ {c \in calls : Live(c)} \subseteq calls'
    BY <1>0, <2>1, FS_Subset, FS_CardinalityType
  <2>3. PICK r : RequestOK(r) /\ r.pc \in {"idle", "dial"} /\ req' = [req EXCEPT ![h] = r]
    <3>1. CASE req' = [req EXCEPT ![h] = NoRequest]
      BY <3>1, NoRequestOK
    <3>2. ASSUME NEW c \in mine, req' = [req EXCEPT ![h].pc = "dial", ![h].call = c]
          PROVE  \E r : RequestOK(r) /\ r.pc \in {"idle", "dial"} /\ req' = [req EXCEPT ![h] = r]
      <4> DEFINE r == [req[h] EXCEPT !.pc = "dial", !.call = c]
      <4>1. req' = [req EXCEPT ![h] = r]
        BY <3>2, <1>a
      <4>2. RequestOK(r) /\ r.pc = "dial"
        BY <1>0, <1>a, <2>1 DEF RequestOK, Request, Places
      <4> QED
        BY <4>1, <4>2
    <3> QED
      BY <2>1, <3>1, <3>2
  <2>4. Cardinality(Reserved') = Cardinality(Reserved)
    BY <2>1, <2>3, ReservedCount
  <2>5. Cardinality(calls') + pending' <= MaxCalls
    BY <1>0, <1>c, <2>1, <2>2, LiveAssumption
  <2> QED
    BY <1>0, <1>d, <2>1, <2>2, <2>3, <2>4, <2>5, HandlerStep
<1>11. ASSUME Dial(h) PROVE LiveIInv'
  BY <1>11, <1>done, <1>goto DEF Dial
<1>12. ASSUME Hangup(h) PROVE LiveIInv'
  BY <1>12, <1>done DEF Hangup
<1> QED
  BY <1>1, <1>2, <1>3, <1>4, <1>5, <1>7, <1>8, <1>9, <1>10, <1>11, <1>12 DEF Handle

\* An edit of the file and the passing of time keep it too.
LEMMA EnvironmentInv ==
    ASSUME LiveIInv, Environment
    PROVE  LiveIInv'
<1>0. /\ LiveTypeOK /\ CapKept /\ ForwardsWholeSession /\ CheckedIsSeen
      /\ PublishedIsThere /\ AttributedAsAdmitted /\ LocationUsable /\ IsFiniteSet(calls)
  BY DEF LiveIInv, LiveInv
<1>1. UNCHANGED <<reg, calls, pending, told, req>> /\ clock' \in Nat /\ clock <= clock'
  BY <1>0 DEF Environment, Edit, Tick, LiveTypeOK
<1>2. CapKept' /\ ForwardsWholeSession' /\ AttributedAsAdmitted'
  BY <1>0, <1>1 DEF CapKept, ForwardsWholeSession, AttributedAsAdmitted
<1>3. ASSUME NEW c \in Call, Live(c)' PROVE Live(c)
  BY <1>0, <1>1, <1>3 DEF Live, Call, LiveTypeOK
<1>4. PublishedIsThere' /\ LocationUsable'
  BY <1>0, <1>1, <1>3 DEF PublishedIsThere, LocationUsable, LiveTypeOK
<1>5. CASE Edit
  <2>1. PICK content \in KeyFiles, ok \in BOOLEAN :
           file' = [content |-> content, readable |-> ok, since |-> clock,
                    mtime |-> IF content = file.content THEN file.mtime ELSE clock]
    BY <1>5 DEF Edit
  <2>2. clock' = clock
    BY <1>5 DEF Edit
  <2>4. LiveTypeOK'
    BY <1>0, <1>1, <2>1, <2>2 DEF LiveTypeOK
  <2>5. CheckedIsSeen'
    BY <1>0, <1>1, <2>1, <2>2 DEF CheckedIsSeen, LiveTypeOK, Registry
  <2> QED
    BY <1>0, <1>1, <1>2, <1>4, <2>4, <2>5 DEF LiveIInv, LiveInv
<1>6. CASE Tick
  <2>1. file' = file
    BY <1>6 DEF Tick
  <2>2. LiveTypeOK'
    BY <1>0, <1>1, <2>1 DEF LiveTypeOK
  <2>3. CheckedIsSeen'
    BY <1>0, <1>1, <2>1 DEF CheckedIsSeen, LiveTypeOK, Registry, Changed
  <2> QED
    BY <1>0, <1>1, <1>2, <1>4, <2>2, <2>3 DEF LiveIInv, LiveInv
<1> QED
  BY <1>5, <1>6 DEF Environment

\* Nothing happens, and nothing is lost.
LEMMA LiveStutter ==
    ASSUME LiveIInv, UNCHANGED liveVars
    PROVE  LiveIInv'
BY DEF LiveIInv, LiveInv, LiveTypeOK, CapKept, ForwardsWholeSession, CheckedIsSeen,
       PublishedIsThere, AttributedAsAdmitted, LocationUsable, Live, Changed, liveVars, keyVars

\* The inductive invariant holds of every behaviour.
THEOREM LiveIInvHolds == LiveSpec => []LiveIInv
<1>1. LiveIInv /\ [LiveNext]_liveVars => LiveIInv'
  BY HandleInv, EnvironmentInv, LiveStutter DEF LiveNext
<1> QED
  BY LiveInitInv, <1>1, PTL DEF LiveSpec

\* The registry of calls never exceeds its cap, published calls and reservations
\* together; no error path leaves a reservation behind; what is forwarded upstream is
\* a whole session; and a check after the last edit has seen the keys file as it is.
THEOREM LiveInvHolds == LiveSpec => []LiveInv
<1>1. LiveIInv => LiveInv
  BY DEF LiveIInv
<1> QED
  BY LiveIInvHolds, <1>1, PTL

\* A request is logged under the identity that admitted it.
THEOREM AttributedHolds == LiveSpec => []AttributedAsAdmitted
<1>1. LiveIInv => AttributedAsAdmitted
  BY DEF LiveIInv
<1> QED
  BY LiveIInvHolds, <1>1, PTL

\* A Location that a client knows leads to its call until the call expires.
THEOREM LocationUsableHolds == LiveSpec => []LocationUsable
<1>1. LiveIInv => LocationUsable
  BY DEF LiveIInv
<1> QED
  BY LiveIInvHolds, <1>1, PTL

\* After the interval, an edit of the keys file decides who is let in.
THEOREM RotationHolds == LiveSpec => RotationTakesEffect
<1> DEFINE Effective(h) ==
       req[h].pc = "idle" /\ req'[h].pc = "log" /\ Loadable /\ clock >= file.since + StatInterval
       => req'[h].auth = Resolve(Parsed(file.content), req'[h].token)
<1>1. ASSUME LiveIInv, LiveNext, NEW h \in Handlers PROVE Effective(h)
  <2> SUFFICES ASSUME req[h].pc = "idle", req'[h].pc = "log", Loadable, clock >= file.since + StatInterval
               PROVE  req'[h].auth = Resolve(Parsed(file.content), req'[h].token)
    OBVIOUS
  <2>0. LiveTypeOK /\ CheckedIsSeen
    BY <1>1 DEF LiveIInv, LiveInv
  <2>1. PICK t \in Tokens : Authenticate(h, t)
    <3>1. PICK k \in Handlers : Handle(k)
      BY <1>1 DEF LiveNext, Environment
    <3>2. \A j \in Handlers \ {k} : req'[j] = req[j]
      BY <2>0, <3>1 DEF LiveTypeOK, Handle, Authenticate, BeginRequestLog, AuthorizedClient, Offer, Reserve,
         Unpublished, Answer, Publish, LookUp, Dial, Hangup, Done, Goto
    <3>3. k = h
      BY <3>2
    <3> QED
      BY <2>0, <3>1, <3>3 DEF LiveTypeOK, Handle, BeginRequestLog, AuthorizedClient, Offer, Reserve,
         Unpublished, Answer, Publish, LookUp, Dial, Hangup
  <2>2. req'[h].token = t /\ req'[h].auth = Resolve(Reloaded.entries, t)
    BY <2>0, <2>1 DEF LiveTypeOK, Authenticate, NoRequest
  <2>3. Reloaded.entries = Parsed(file.content)
    <3>1. CASE clock < reg.checked + StatInterval
      <4>1. reg.checked > file.since
        BY <2>0, <3>1, KeyAssumption DEF LiveTypeOK, Registry
      <4>2. Parsed(file.content) = reg.entries
        BY <2>0, <4>1 DEF CheckedIsSeen, Loadable, Changed
      <4> QED
        BY <3>1, <4>2 DEF Reloaded
    <3>2. CASE ~(clock < reg.checked + StatInterval)
      BY <2>0, <3>2 DEF Reloaded, Loadable, Changed
    <3> QED
      BY <3>1, <3>2
  <2> QED
    BY <2>2, <2>3
<1>2. LiveIInv /\ [LiveNext]_liveVars => [\A h \in Handlers : Effective(h)]_liveVars
  BY <1>1
<1> QED
  BY LiveIInvHolds, <1>2, PTL DEF LiveSpec, RotationTakesEffect
=============================================================================
