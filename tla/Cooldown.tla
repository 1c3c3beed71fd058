------------------------------ MODULE Cooldown ------------------------------
(***************************************************************************)
(* deriveCooldown (accounts.go): how long an account is benched after a    *)
(* 429, from the headers and the body that came with it. Times are seconds *)
(* on one scale with Unix time; numbers are counted in halves, so that     *)
(* fractions of a second exist.                                            *)
(***************************************************************************)
EXTENDS Integers, FiniteSetsExt, Sequences

CONSTANTS
    MinCooldown, MaxCooldown,   \* the clamps
    EpochFloor,                 \* numbers from here on are Unix timestamps
    Defaults                    \* bench for each wording of a body that names no reset

ASSUME CooldownAssumption ==
    /\ MinCooldown \in Nat /\ MaxCooldown \in Nat /\ MinCooldown <= MaxCooldown
    /\ EpochFloor \in Nat
    /\ \A w \in DOMAIN Defaults : Defaults[w] \in MinCooldown..MaxCooldown

NoReset == -1

ClampCooldown(d) == Max({MinCooldown, Min({MaxCooldown, d})})

ClampUntil(now, t) == now + ClampCooldown(t - now)

\* Mutant of NumericReset: every number is a delay.
NumericDelay(halves, now) ==
    IF halves <= 0 THEN NoReset ELSE now + ClampCooldown(halves \div 2)

\* numericReset: a delay in whole seconds, or a timestamp if it is large.
NumericReset(halves, now) ==
    IF halves <= 0 THEN NoReset
    ELSE IF halves >= 2 * EpochFloor THEN ClampUntil(now, halves \div 2)
    ELSE now + ClampCooldown(halves \div 2)

\* parseResetValue and coerceReset: a number, a date, or something else.
ParseReset(v, now) ==
    CASE v.kind = "number" -> NumericReset(v.halves, now)
      [] v.kind = "date"   -> ClampUntil(now, v.halves \div 2)
      [] OTHER             -> NoReset

\* resetFromBody: the earliest of the fields whose names speak of a reset.
ResetFromBody(fields, now) ==
    LET resets == {ParseReset(v, now) : v \in fields} \ {NoReset}
    IN  IF resets = {} THEN NoReset ELSE Min(resets)

\* Mutant of DeriveCooldown: the body's field is preferred to the headers.
DeriveBodyFirst(e, now) ==
    LET named == {i \in 1..Len(e.headers) : ParseReset(e.headers[i], now) # NoReset}
    IN  IF ResetFromBody(e.body, now) # NoReset THEN ResetFromBody(e.body, now)
        ELSE IF named # {} THEN ParseReset(e.headers[Min(named)], now)
        ELSE now + Defaults[e.wording]

\* Retry-After, then the other headers in their order, then the body, then the
\* default for the body's wording.
DeriveCooldown(e, now) ==
    LET named == {i \in 1..Len(e.headers) : ParseReset(e.headers[i], now) # NoReset}
    IN  IF named # {} THEN ParseReset(e.headers[Min(named)], now)
        ELSE IF ResetFromBody(e.body, now) # NoReset THEN ResetFromBody(e.body, now)
        ELSE now + Defaults[e.wording]
=============================================================================
