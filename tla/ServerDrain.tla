----------------------------- MODULE ServerDrain -----------------------------
(***************************************************************************)
(* The life of the broker's server (server.go, and runServe's last line    *)
(* and deferred close in main.go) around the handlers that it runs: a      *)
(* handler is admitted, goes through the upstream limiter, records its     *)
(* request and leaves; serveHTTP stops admitting, waits, cancels and       *)
(* returns, and only then is the request log closed.                       *)
(***************************************************************************)
EXTENDS Limiter

CONSTANT WebSockets   \* the callers that hijack their connection

ASSUME HandlerAssumption == WebSockets \subseteq Callers

VARIABLES
    stage,        \* where each handler stands
    hijacked,     \* handlers whose connection net/http no longer tracks
    draining,     \* serverRequests.draining
    active,       \* serverRequests.active
    closes,       \* how often serverRequests.done was closed
    phase,        \* where serveHTTP stands
    expired,      \* the drain context is done
    listenerErr,  \* Shutdown could not close the listener
    canceled,     \* the work context is canceled
    result,       \* what serveHTTP returns
    logOpen,      \* requestLogFile.file is not nil
    logged        \* requests whose metadata reached the file

serverVars == <<draining, active, closes>>
mainVars   == <<phase, expired, listenerErr, canceled, result, logOpen>>
drainVars  == <<limiterVars, stage, hijacked, serverVars, mainVars, logged>>

Stages == {"idle", "handle", "slot", "recorded", "finish", "leave", "done", "refused"}

\* Admitted, and not yet counted out.
Inside == {c \in Callers : stage[c] \in {"handle", "slot", "recorded", "finish", "leave"}}

Phases == {"serving", "drain", "shutdown", "await", "force", "cleanup", "served", "returned", "closed"}

DrainTypeOK ==
    /\ LimiterTypeOK
    /\ stage \in [Callers -> Stages]
    /\ hijacked \subseteq WebSockets
    /\ draining \in BOOLEAN /\ active \in Nat /\ closes \in Nat
    /\ phase \in Phases
    /\ expired \in BOOLEAN /\ listenerErr \in BOOLEAN /\ canceled \in BOOLEAN
    /\ result \in {"none", "nil", "serveErr", "listenerErr", "unfinished"}
    /\ logOpen \in BOOLEAN
    /\ logged \subseteq Callers

DrainInit ==
    /\ LimiterInit
    /\ stage = [c \in Callers |-> "idle"]
    /\ hijacked = {}
    /\ draining = FALSE /\ active = 0 /\ closes = 0
    /\ phase = "serving"
    /\ expired = FALSE /\ listenerErr = FALSE /\ canceled = FALSE
    /\ result = "none"
    /\ logOpen = TRUE
    /\ logged = {}

-----------------------------------------------------------------------------
(* The handlers. *)

Move(c, to) == stage' = [stage EXCEPT ![c] = to]

\* Mutant of Admit: the admission is checked before the lock is taken.
AdmitLate(c) ==
    /\ stage[c] = "idle"
    /\ active' = active + 1
    /\ Move(c, "handle")
    /\ UNCHANGED <<limiterVars, hijacked, draining, closes, mainVars, logged>>

Admit(c) ==
    /\ stage[c] = "idle" /\ ~draining
    /\ active' = active + 1
    /\ Move(c, "handle")
    /\ UNCHANGED <<limiterVars, hijacked, draining, closes, mainVars, logged>>

\* 503, over a connection that was open when the drain began.
Refuse(c) ==
    /\ stage[c] = "idle" /\ draining
    /\ Move(c, "refused")
    /\ UNCHANGED <<limiterVars, hijacked, serverVars, mainVars, logged>>

\* An HTTP handler records its request when it returns; a WebSocket records the
\* turns of an accepted session only.
AfterSlot(c) == IF c \in WebSockets THEN "leave" ELSE "finish"

\* The handler fails before it needs a slot (no valid key, a bad body).
Reject(c) ==
    /\ stage[c] = "handle"
    /\ Move(c, AfterSlot(c))
    /\ UNCHANGED <<limiterVars, hijacked, serverVars, mainVars, logged>>

Enter(c) ==
    /\ stage[c] = "handle"
    /\ TakeNow(c) \/ Queue(c)
    /\ Move(c, "slot")
    /\ UNCHANGED <<hijacked, serverVars, mainVars, logged>>

Wait(c) ==
    /\ stage[c] = "slot"
    /\ SelectSlot(c) \/ Park(c) \/ GiveUpAtOnce(c) \/ GiveUpParked(c)
    /\ UNCHANGED <<stage, hijacked, serverVars, mainVars, logged>>

\* acquireUpstreamSlot returns; on a failure the handler is at its end.
Acquired(c) ==
    /\ stage[c] = "slot"
    /\ Dequeue(c)
    /\ Move(c, IF place[c] = "failed" THEN AfterSlot(c) ELSE "slot")
    /\ UNCHANGED <<hijacked, serverVars, mainVars, logged>>

\* websocket.Accept, once the upstream dial succeeded.
Hijack(c) ==
    /\ c \in WebSockets \ hijacked /\ stage[c] = "slot" /\ place[c] = "holding"
    /\ hijacked' = hijacked \cup {c}
    /\ UNCHANGED <<limiterVars, stage, serverVars, mainVars, logged>>

\* requestLogStore.add: an append to a closed file is dropped.
Record(c) == logged' = IF logOpen THEN logged \cup {c} ELSE logged

\* Both pumps have stopped: finishOpen records the open turn.
EndSession(c) ==
    /\ c \in hijacked /\ stage[c] = "slot"
    /\ Record(c)
    /\ Move(c, "recorded")
    /\ UNCHANGED <<limiterVars, hijacked, serverVars, mainVars>>

\* The upstream work has ended, by itself or canceled: the deferred release.
EndWork(c) ==
    /\ stage[c] = (IF c \in hijacked THEN "recorded" ELSE "slot")
    /\ Release(c)
    /\ Move(c, AfterSlot(c))
    /\ UNCHANGED <<hijacked, serverVars, mainVars, logged>>

\* The deferred pendingRequestLog.finish.
Finish(c) ==
    /\ stage[c] = "finish"
    /\ Record(c)
    /\ Move(c, "leave")
    /\ UNCHANGED <<limiterVars, hijacked, serverVars, mainVars>>

\* Mutant of Leave: the last one out does not look at draining.
LeaveClosesWhenEmpty(c) ==
    /\ stage[c] = "leave"
    /\ active' = active - 1
    /\ closes' = IF active' = 0 THEN closes + 1 ELSE closes
    /\ Move(c, "done")
    /\ UNCHANGED <<limiterVars, hijacked, draining, mainVars, logged>>

\* The deferred function of wrap.
Leave(c) ==
    /\ stage[c] = "leave"
    /\ active' = active - 1
    /\ closes' = IF draining /\ active' = 0 THEN closes + 1 ELSE closes
    /\ Move(c, "done")
    /\ UNCHANGED <<limiterVars, hijacked, draining, mainVars, logged>>

HandlerStep(c) ==
    \/ Admit(c) \/ Refuse(c) \/ Reject(c) \/ Enter(c) \/ Wait(c) \/ Acquired(c)
    \/ Hijack(c) \/ EndSession(c) \/ EndWork(c) \/ Finish(c) \/ Leave(c)

-----------------------------------------------------------------------------
(* serveHTTP. *)

handlerVars == <<limiterVars, stage, hijacked, logged>>

Goto(to) == phase' = to

\* A signal, or Serve returns with an error of its own.
Stop ==
    /\ phase = "serving" /\ Goto("drain")
    /\ \E err \in {"nil", "serveErr"} : result' = err
    /\ UNCHANGED <<handlerVars, serverVars, expired, listenerErr, canceled, logOpen>>

Drain ==
    /\ phase = "drain" /\ Goto("shutdown")
    /\ draining' = TRUE
    /\ closes' = IF ~draining /\ active = 0 THEN closes + 1 ELSE closes
    /\ UNCHANGED <<handlerVars, active, expired, listenerErr, canceled, result, logOpen>>

\* The timeout of the drain context, which may be zero.
DrainExpires ==
    /\ phase \in {"shutdown", "await"} /\ ~expired
    /\ expired' = TRUE
    /\ UNCHANGED <<handlerVars, serverVars, phase, listenerErr, canceled, result, logOpen>>

\* server.Shutdown waits for the connections that it tracks.
Tracked == Inside \ hijacked

ShutdownReturns ==
    /\ phase = "shutdown" /\ Tracked = {}
    /\ \/ Goto("await") /\ UNCHANGED listenerErr
       \/ Goto("force") /\ listenerErr' = TRUE
    /\ UNCHANGED <<handlerVars, serverVars, expired, canceled, result, logOpen>>

ShutdownTimesOut ==
    /\ phase \in {"shutdown", "await"} /\ expired
    /\ Goto("force")
    /\ UNCHANGED <<handlerVars, serverVars, expired, listenerErr, canceled, result, logOpen>>

\* Mutant of Done: Shutdown is trusted to have waited for everybody.
DoneNotAwaited ==
    /\ phase \in {"await", "cleanup"}
    /\ Goto("served")
    /\ UNCHANGED <<handlerVars, serverVars, expired, listenerErr, canceled, result, logOpen>>

\* <-done, in the first select and in the one after the cancellation.
Done ==
    /\ phase \in {"await", "cleanup"} /\ closes > 0
    /\ Goto("served")
    /\ UNCHANGED <<handlerVars, serverVars, expired, listenerErr, canceled, result, logOpen>>

CancelWork ==
    /\ phase = "force" /\ Goto("cleanup")
    /\ canceled' = TRUE
    /\ UNCHANGED <<handlerVars, serverVars, expired, listenerErr, result, logOpen>>

\* Mutant of CleanupTimesOut: the canceled handlers are waited for without a limit.
CleanupWaits ==
    /\ phase = "cleanup" /\ closes > 0 /\ Goto("returned")
    /\ result' = "unfinished"
    /\ UNCHANGED <<handlerVars, serverVars, expired, listenerErr, canceled, logOpen>>

CleanupTimesOut ==
    /\ phase = "cleanup" /\ Goto("returned")
    /\ result' = "unfinished"
    /\ UNCHANGED <<handlerVars, serverVars, expired, listenerErr, canceled, logOpen>>

\* Serve has returned, too; the deferred cancelWork.
Return ==
    /\ phase = "served" /\ Goto("returned")
    /\ canceled' = TRUE
    /\ result' = IF result = "nil" /\ listenerErr THEN "listenerErr" ELSE result
    /\ UNCHANGED <<handlerVars, serverVars, expired, listenerErr, logOpen>>

\* runServe's deferred persist.close.
CloseLog ==
    /\ phase = "returned" /\ Goto("closed")
    /\ logOpen' = FALSE
    /\ UNCHANGED <<handlerVars, serverVars, expired, listenerErr, canceled, result>>

ServeStep ==
    \/ Drain \/ DrainExpires \/ ShutdownReturns \/ ShutdownTimesOut \/ Done
    \/ CancelWork \/ CleanupTimesOut \/ Return \/ CloseLog

DrainNext ==
    \/ \E c \in Callers : HandlerStep(c)
    \/ Stop
    \/ ServeStep

DrainSpec == DrainInit /\ [][DrainNext]_drainVars

\* serveHTTP's own steps and timers. Of the handlers only this is assumed: one that
\* waits for a slot moves, because its queue timer fires. None need ever end its work.
DrainFairSpec ==
    /\ DrainSpec
    /\ WF_drainVars(ServeStep)
    /\ \A c \in Callers : WF_drainVars(Wait(c) \/ Acquired(c))

-----------------------------------------------------------------------------
(* What is expected of a shutdown. *)

\* wrap and drain close done exactly when they should: never twice, which would
\* panic, and as soon as the drain has begun and the last handler is out.
DoneMeansEmpty ==
    /\ active = Cardinality(Inside)
    /\ closes = IF draining /\ Inside = {} THEN 1 ELSE 0

\* Unless it reports unfinished handlers, serveHTTP returns after every request and
\* session it admitted is recorded and gone, so that the log is closed behind them.
LogClosedBehindHandlers ==
    phase \in {"returned", "closed"} /\ result # "unfinished" =>
        /\ Inside = {}
        /\ \A c \in Callers :
             stage[c] = "done" /\ (c \in WebSockets => c \in hijacked) => c \in logged

\* Nobody holds or waits for an upstream slot once done is closed.
SlotsReturned == closes > 0 => slots = 0 /\ queued = 0 /\ sendq = << >>

\* The work of an admitted request is canceled only when its time is up, or the
\* listener would not close, or nobody is left.
NotCutShort == canceled => expired \/ listenerErr \/ Inside = {}

\* The inductive strengthening: where a caller of the limiter is, what serveHTTP
\* knows in each phase, and what has been recorded so far.
StageInv ==
    \A c \in Callers :
        /\ place[c] # "out" => stage[c] \in {"slot", "recorded"}
        /\ c \in hijacked => stage[c] \in {"slot", "recorded", "leave", "done"}
        /\ c \in hijacked /\ stage[c] = "slot" => place[c] = "holding"
        /\ stage[c] = "recorded" => c \in hijacked
        /\ stage[c] = "finish" => c \notin WebSockets

PhaseInv ==
    /\ draining <=> phase \notin {"serving", "drain"}
    /\ logOpen <=> phase # "closed"
    /\ result = "unfinished" => phase \in {"returned", "closed"}
    /\ phase \in {"served", "returned", "closed"} => closes > 0 \/ result = "unfinished"
    /\ phase \in {"force", "cleanup"} \/ result = "unfinished" => expired \/ listenerErr
    /\ canceled => phase \in {"cleanup", "served", "returned", "closed"}

Recorded(c) ==
    \/ stage[c] = "recorded"
    \/ stage[c] \in {"leave", "done"} /\ (c \in WebSockets => c \in hijacked)

RecordInv ==
    \A c \in Callers : Recorded(c) => c \in logged \/ (~logOpen /\ result = "unfinished")

DrainInv == DrainTypeOK /\ LimiterInv /\ DoneMeansEmpty /\ StageInv /\ PhaseInv /\ RecordInv

\* A stop comes to an end whatever the handlers do.
StopEnds == phase = "drain" ~> phase = "closed"
=============================================================================
