--------------------------- MODULE RequestHistory ---------------------------
(***************************************************************************)
(* What the request log promises to those who read it, without its file,   *)
(* its limit or its ring: a history that only grows at its new end, only   *)
(* loses its oldest requests, and never loses one without a warning.       *)
(***************************************************************************)
EXTENDS Naturals, SequencesExt

VARIABLES
    history,  \* the IDs of the requests that are kept, oldest first
    pending,  \* the request being recorded, 0 if there is none
    warned    \* readers are told that the history may be incomplete

historyVars == <<history, pending, warned>>

Newest == IF history = << >> THEN 0 ELSE Last(history)

\* What is left of a sequence when its oldest members, but not all, are dropped.
LosesOldest(before, after) == after # << >> /\ IsSuffix(after, before)

HistoryInit ==
    /\ \A i, j \in 1..Len(history) : i < j => history[i] < history[j]
    /\ pending = 0
    /\ warned = FALSE

\* A finished request gets an ID that is newer than all that are kept.
Accept ==
    /\ pending = 0 /\ pending' > Newest
    /\ UNCHANGED <<history, warned>>

\* It joins the history, which may lose its oldest members to make room.
Store ==
    /\ pending > Newest
    /\ LosesOldest(Append(history, pending), history')
    /\ pending' \in {pending, 0}
    /\ warned => warned'

\* It is done with: either it is kept or the readers are warned.
Settle ==
    /\ pending # 0 /\ pending' = 0
    /\ pending = Newest \/ warned'
    /\ warned => warned'
    /\ UNCHANGED history

\* The history is cut down to its limit.
Trim ==
    /\ history # << >>
    /\ LosesOldest(history, history')
    /\ warned => warned'
    /\ UNCHANGED pending

Warn == warned' = TRUE /\ UNCHANGED <<history, pending>>

\* Only clearing the history takes the warning back; a clear that fails half-way
\* does not.
Clear ==
    /\ pending = 0 /\ pending' = 0
    /\ history' = << >>
    /\ warned' \in {warned, FALSE}

\* The broker ends, at any time: the request being recorded may get lost, or not.
Stop ==
    /\ history' \in {history, Append(history, pending)}
    /\ pending = 0 \/ pending <= Newest => history' = history
    /\ pending' = 0
    /\ warned' = FALSE

HistoryNext == Accept \/ Store \/ Settle \/ Trim \/ Warn \/ Clear \/ Stop

HistorySpec == HistoryInit /\ [][HistoryNext]_historyVars
=============================================================================
