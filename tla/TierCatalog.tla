----------------------------- MODULE TierCatalog -----------------------------
(***************************************************************************)
(* accountTierModels (service_tiers.go): the catalog of one account, which *)
(* a burst of callers fetches once. Callers may be canceled while they     *)
(* fetch or wait. Of a catalog the model keeps whether it advertises the   *)
(* priority tier for the model that is asked for.                          *)
(***************************************************************************)
EXTENDS Naturals, FiniteSets, Sequences

CONSTANTS
    TierCallers,           \* requests and sessions that ask for the priority tier
    CatalogTTL, ErrorTTL,  \* five minutes and thirty seconds
    MaxClock               \* bound on time

ASSUME TierAssumption == CatalogTTL \in Nat /\ ErrorTTL \in Nat /\ MaxClock \in Nat

VARIABLES
    clock,     \* time.Now
    cache,     \* models or err, and expires
    inFlight,  \* cache.ready is not nil
    at,        \* where each caller stands in accountTierModels
    canceled,  \* callers whose context is done
    got        \* what each caller was given

tierVars == <<clock, cache, inFlight, at, canceled, got>>

Catalogs == {"advertised", "unlisted"}

Failures == {"failed", "canceled"}

TierTypeOK ==
    /\ clock \in Nat
    /\ cache \in [value : Catalogs \cup Failures \cup {"none"}, expires : Nat]
    /\ inFlight \in BOOLEAN
    /\ at \in [TierCallers -> {"out", "look", "wait", "fetch", "store", "return"}]
    /\ canceled \subseteq TierCallers
    /\ got \in [TierCallers -> Catalogs \cup Failures \cup {"none"}]

TierInit ==
    /\ clock = 0
    /\ cache = [value |-> "none", expires |-> 0]
    /\ inFlight = FALSE
    /\ at = [c \in TierCallers |-> "out"]
    /\ canceled = {}
    /\ got = [c \in TierCallers |-> "none"]

Return(c, value) ==
    /\ at' = [at EXCEPT ![c] = "return"]
    /\ got' = [got EXCEPT ![c] = value]

Ask(c) ==
    /\ at[c] = "out"
    /\ at' = [at EXCEPT ![c] = "look"]
    /\ UNCHANGED <<clock, cache, inFlight, canceled, got>>

\* The head of the loop, under the cache's mutex: a fresh catalog is used, the fetch
\* of another is waited for, or this caller fetches.
Look(c) ==
    /\ at[c] = "look"
    /\ \/ clock < cache.expires /\ Return(c, cache.value) /\ UNCHANGED inFlight
       \/ /\ clock >= cache.expires /\ inFlight
          /\ at' = [at EXCEPT ![c] = "wait"] /\ UNCHANGED <<got, inFlight>>
       \/ /\ clock >= cache.expires /\ ~inFlight
          /\ inFlight' = TRUE
          /\ at' = [at EXCEPT ![c] = "fetch"] /\ UNCHANGED got
    /\ UNCHANGED <<clock, cache, canceled>>

\* ctx.Done wins the select of a waiter.
GiveUp(c) ==
    /\ at[c] = "wait" /\ c \in canceled
    /\ Return(c, "canceled")
    /\ UNCHANGED <<clock, cache, inFlight, canceled>>

\* fetchUpstreamModels returns, with its timeout of ten seconds at the latest.
Fetch(c, value) ==
    /\ at[c] = "fetch"
    /\ value = "canceled" => c \in canceled
    /\ at' = [at EXCEPT ![c] = "store"]
    /\ got' = [got EXCEPT ![c] = value]
    /\ UNCHANGED <<clock, cache, inFlight, canceled>>

\* Mutant of Lifetime: a failure is a failure.
LifetimeOfAnyError(c) == IF got[c] \in Failures THEN ErrorTTL ELSE CatalogTTL

\* One canceled caller must not poison another caller's lookup.
Lifetime(c) ==
    IF c \in canceled THEN 0 ELSE IF got[c] \in Failures THEN ErrorTTL ELSE CatalogTTL

\* Mutant of Woken: ready is replaced but not closed.
WokenNever(d) == at[d]

\* close(ready): a waiter looks again.
Woken(d) == IF at[d] = "wait" THEN "look" ELSE at[d]

Store(c) ==
    /\ at[c] = "store"
    /\ cache' = [value |-> got[c], expires |-> clock + Lifetime(c)]
    /\ inFlight' = FALSE
    /\ at' = [d \in TierCallers |-> IF d = c THEN "return" ELSE Woken(d)]
    /\ UNCHANGED <<clock, canceled, got>>

Cancel(c) ==
    /\ at[c] \notin {"out", "return"} /\ c \notin canceled
    /\ canceled' = canceled \cup {c}
    /\ UNCHANGED <<clock, cache, inFlight, at, got>>

Tick ==
    /\ clock < MaxClock
    /\ clock' = clock + 1
    /\ UNCHANGED <<cache, inFlight, at, canceled, got>>

\* The steps that a caller takes by itself.
LookUpTier(c) ==
    \/ Look(c) \/ GiveUp(c) \/ Store(c)
    \/ \E value \in Catalogs \cup Failures : Fetch(c, value)

\* At most one caller fetches, and only while others are told to wait for it.
OneFetch ==
    LET fetching == {c \in TierCallers : at[c] \in {"fetch", "store"}}
    IN  Cardinality(fetching) = IF inFlight THEN 1 ELSE 0

\* A caller that is not canceled never gets the error of one that is: neither a
\* waiter nor a later request is told that the catalog cannot be had because the
\* request that fetched it went away.
CancelStaysPrivate ==
    \A c \in TierCallers : at[c] = "return" /\ got[c] = "canceled" => c \in canceled

\* Nobody waits for a catalog for ever, whoever fetches it and is canceled.
EveryLookupReturns == \A c \in TierCallers : at[c] = "look" ~> at[c] = "return"
=============================================================================
