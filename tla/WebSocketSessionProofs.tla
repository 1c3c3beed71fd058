----------------------- MODULE WebSocketSessionProofs -----------------------
(***************************************************************************)
(* Proofs about WebSocketSession, TierCatalog and Cooldown, for any number *)
(* of callers and turns, any lifetimes and clamps, and any evidence of a   *)
(* rate limit.                                                             *)
(***************************************************************************)
EXTENDS WebSocketSession, SequenceTheorems, FiniteSetTheorems, WellFoundedInduction, TLAPS

-----------------------------------------------------------------------------
(* Largest and smallest members. *)

\* Some member of a set of numbers is the smallest.
LEMMA LeastExists ==
    ASSUME NEW T \in SUBSET Nat, T # {}
    PROVE  \E x \in T : \A y \in T : x <= y
<1> DEFINE Less == {ss \in Nat \X Nat : ss[1] < ss[2]}
<1>1. IsWellFoundedOn(Less, Nat)
  BY NatLessThanWellFounded, Zenon DEF OpToRel
<1>2. PICK x \in T : \A y \in T : ~(<<y, x>> \in Less)
  <2> HIDE DEF Less
  <2> QED
    BY <1>1, WFMin
<1>3. ASSUME NEW y \in T PROVE x <= y
  <2>1. x \in Nat /\ y \in Nat /\ ~(<<y, x>> \in Less)
    BY <1>2
  <2>2. <<y, x>> \in Less <=> y < x
    <3>1. <<y, x>> \in Nat \X Nat /\ <<y, x>>[1] = y /\ <<y, x>>[2] = x
      BY <2>1
    <3> QED
      BY <3>1, Zenon DEF Less
  <2> HIDE DEF Less
  <2> QED
    BY <2>1, <2>2
<1> QED
  BY <1>3

\* i and j are where the first k values of f are smallest and largest.
ExtremesAt(f, k, i, j) == \A m \in 1..k : f[i] <= f[m] /\ f[m] <= f[j]

\* The values of a finite list of integers have extremes: otherwise, take the shortest
\* beginning that has none.
LEMMA ListExtremes ==
    ASSUME NEW n \in Nat, n > 0, NEW f \in [1..n -> Int]
    PROVE  \E i, j \in 1..n : ExtremesAt(f, n, i, j)
<1> DEFINE Good(k) == \E i, j \in 1..k : ExtremesAt(f, k, i, j)
<1> DEFINE Bad == {k \in Nat : k > 0 /\ k <= n /\ ~Good(k)}
<1> SUFFICES ASSUME ~Good(n) PROVE FALSE
  OBVIOUS
<1>1. n \in Bad /\ Bad \in SUBSET Nat
  OBVIOUS
<1>2. PICK k \in Bad : \A y \in Bad : k <= y
  <2> HIDE DEF Bad
  <2> QED
    BY <1>1, LeastExists
<1>3. k \in Nat /\ k > 0 /\ k <= n /\ ~Good(k) /\ f[k] \in Int
  BY <1>2
<1>4. CASE k = 1
  <2>1. ExtremesAt(f, 1, 1, 1)
    BY <1>3, <1>4 DEF ExtremesAt
  <2> QED
    BY <1>3, <1>4, <2>1
<1>5. CASE k > 1
  <2>1. k - 1 \in Nat /\ k - 1 > 0 /\ k - 1 <= n /\ ~(k <= k - 1)
    BY <1>3, <1>5
  <2>2. Good(k - 1)
    BY <1>2, <2>1
  <2>3. PICK i, j \in 1..(k - 1) : ExtremesAt(f, k - 1, i, j)
    BY <2>2
  <2>4. i \in 1..k /\ j \in 1..k /\ k \in 1..k /\ f[i] \in Int /\ f[j] \in Int
    BY <1>3, <1>5, <2>3
  <2>5. \A m \in 1..k : m = k \/ (m \in 1..(k - 1) /\ f[m] \in Int /\ f[i] <= f[m] /\ f[m] <= f[j])
    BY <1>3, <1>5, <2>3 DEF ExtremesAt
  <2>6. ExtremesAt(f, k, IF f[k] <= f[i] THEN k ELSE i, IF f[j] <= f[k] THEN k ELSE j)
    BY <1>3, <2>4, <2>5 DEF ExtremesAt
  <2>7. Good(k)
    BY <2>4, <2>6
  <2> QED
    BY <1>3, <2>7
<1> QED
  BY <1>3, <1>4, <1>5

\* Max and Min of a finite set of integers.
LEMMA FiniteExtremes ==
    ASSUME NEW T \in SUBSET Int, IsFiniteSet(T), T # {}
    PROVE  /\ Max(T) \in T /\ \A y \in T : y <= Max(T)
           /\ Min(T) \in T /\ \A y \in T : Min(T) <= y
<1>1. PICK n \in Nat : ExistsSurjection(1..n, T)
  BY FS_NatSurjection
<1>2. PICK f \in [1..n -> T] : \A t \in T : \E m \in 1..n : f[m] = t
  BY <1>1 DEF ExistsSurjection, Surjection
<1>3. n > 0 /\ f \in [1..n -> Int]
  <2>1. PICK t \in T : TRUE
    OBVIOUS
  <2>2. PICK m \in 1..n : f[m] = t
    BY <1>2, <2>1
  <2>3. n > 0
    BY <2>2
  <2>4. T \subseteq Int
    OBVIOUS
  <2> QED
    BY <1>2, <2>3, <2>4
<1>4. PICK i, j \in 1..n : ExtremesAt(f, n, i, j)
  BY <1>3, ListExtremes
<1>5. f[i] \in T /\ \A y \in T : f[i] <= y
  BY <1>2, <1>4 DEF ExtremesAt
<1>6. f[j] \in T /\ \A y \in T : f[j] >= y
  BY <1>2, <1>3, <1>4 DEF ExtremesAt
<1>7. Min(T) \in T /\ \A y \in T : Min(T) <= y
  BY <1>5 DEF Min
<1>8. Max(T) \in T /\ \A y \in T : Max(T) >= y
  BY <1>6 DEF Max
<1>9. \A x \in T, y \in T : x >= y => y <= x
  OBVIOUS
<1> QED
  BY <1>7, <1>8, <1>9

\* The larger and the smaller of two numbers.
LEMMA OfTwo ==
    ASSUME NEW a \in Int, NEW b \in Int
    PROVE  /\ Max({a, b}) = IF a >= b THEN a ELSE b
           /\ Min({a, b}) = IF a <= b THEN a ELSE b
<1>1. {a, b} \in SUBSET Int /\ IsFiniteSet({a, b}) /\ {a, b} # {}
  <2>1. IsFiniteSet({a} \cup {b})
    BY FS_Singleton, FS_AddElement
  <2>2. {a, b} = {a} \cup {b}
    OBVIOUS
  <2> QED
    BY <2>1, <2>2
<1>2. Max({a, b}) \in {a, b} /\ a <= Max({a, b}) /\ b <= Max({a, b})
  BY <1>1, FiniteExtremes
<1>3. Min({a, b}) \in {a, b} /\ Min({a, b}) <= a /\ Min({a, b}) <= b
  BY <1>1, FiniteExtremes
<1> QED
  BY <1>2, <1>3
-----------------------------------------------------------------------------
(* How long a bench lasts. *)

\* The clamps.
LEMMA ClampIs ==
    ASSUME NEW d \in Int
    PROVE  /\ ClampCooldown(d) \in MinCooldown..MaxCooldown
           /\ ClampCooldown(d) <= MinCooldown \/ ClampCooldown(d) <= d
           /\ ClampCooldown(d) >= MaxCooldown \/ ClampCooldown(d) >= d
<1>1. MinCooldown \in Int /\ MaxCooldown \in Int /\ MinCooldown <= MaxCooldown
  BY CooldownAssumption
<1>2. Min({MaxCooldown, d}) = IF MaxCooldown <= d THEN MaxCooldown ELSE d
  BY <1>1, OfTwo
<1>3. PICK m \in Int : m = Min({MaxCooldown, d}) /\ m = IF MaxCooldown <= d THEN MaxCooldown ELSE d
  BY <1>1, <1>2
<1>4. ClampCooldown(d) = Max({MinCooldown, m})
  BY <1>3 DEF ClampCooldown
<1>5. Max({MinCooldown, m}) = IF MinCooldown >= m THEN MinCooldown ELSE m
  BY <1>1, <1>3, OfTwo
<1> QED
  BY <1>1, <1>3, <1>4, <1>5

\* A value is used if and only if it names a moment, and then the bench lasts until
\* that moment, but for the clamps.
LEMMA ParseResetIs ==
    ASSUME NEW v \in ResetValue, NEW now \in Nat
    PROVE  /\ Moment(v, now) \in Int
           /\ Says(v) => ParseReset(v, now) = now + ClampCooldown(Moment(v, now) - now)
           /\ ~Says(v) => ParseReset(v, now) = NoReset
<1>1. v.kind \in {"number", "date", "text"} /\ v.halves \in Int
  BY DEF ResetValue
<1>2. PICK h \in Int : h = v.halves \div 2
  BY <1>1
<1>3. EpochFloor \in Nat /\ 2 * EpochFloor \in Nat
  BY CooldownAssumption
<1>4. Moment(v, now) \in Int
  BY <1>1, <1>2 DEF Moment
<1>5. CASE v.kind = "date"
  <2>1. Says(v) /\ Moment(v, now) = h
    BY <1>2, <1>5 DEF Says, Moment
  <2>2. ParseReset(v, now) = now + ClampCooldown(h - now)
    BY <1>2, <1>5 DEF ParseReset, ClampUntil
  <2> QED
    BY <1>4, <2>1, <2>2
<1>6. CASE v.kind = "text"
  BY <1>4, <1>6 DEF Says, ParseReset
<1>7. CASE v.kind = "number"
  <2>1. ParseReset(v, now) = NumericReset(v.halves, now)
    BY <1>7 DEF ParseReset
  <2>2. CASE v.halves <= 0
    BY <1>1, <1>4, <1>7, <2>1, <2>2 DEF Says, NumericReset
  <2>3. CASE v.halves > 0 /\ v.halves >= 2 * EpochFloor
    <3>1. Moment(v, now) = h
      BY <1>2, <2>3 DEF Moment
    <3>2. NumericReset(v.halves, now) = now + ClampCooldown(h - now)
      BY <1>1, <1>2, <2>3 DEF NumericReset, ClampUntil
    <3> QED
      BY <1>4, <1>7, <2>1, <2>3, <3>1, <3>2 DEF Says
  <2>4. CASE v.halves > 0 /\ ~(v.halves >= 2 * EpochFloor)
    <3>1. Moment(v, now) = now + h /\ (now + h) - now = h
      BY <1>2, <1>7, <2>4 DEF Moment
    <3>2. NumericReset(v.halves, now) = now + ClampCooldown(h)
      BY <1>1, <1>2, <2>4 DEF NumericReset
    <3> QED
      BY <1>4, <1>7, <2>1, <2>4, <3>1, <3>2 DEF Says
  <2> QED
    BY <1>1, <2>2, <2>3, <2>4
<1> QED
  BY <1>1, <1>5, <1>6, <1>7

\* A value that names a moment gives one that is not in the past.
LEMMA ResetIsTime ==
    ASSUME NEW v \in ResetValue, NEW now \in Nat, Says(v)
    PROVE  ParseReset(v, now) \in Nat /\ ParseReset(v, now) # NoReset
<1>1. PICK d \in Int : d = Moment(v, now) - now
  BY ParseResetIs
<1>2. ParseReset(v, now) = now + ClampCooldown(d)
  BY <1>1, ParseResetIs
<1>3. ClampCooldown(d) \in MinCooldown..MaxCooldown /\ MinCooldown \in Nat /\ MaxCooldown \in Nat
  BY ClampIs, CooldownAssumption
<1> QED
  BY <1>2, <1>3 DEF NoReset

\* What a value comes to is what it tells.
LEMMA ParseResetTells ==
    ASSUME NEW v \in ResetValue, NEW now \in Nat
    PROVE  /\ Told(v, now) \in Nat
           /\ Says(v) => ParseReset(v, now) = Told(v, now)
           /\ ParseReset(v, now) # NoReset <=> Says(v)
<1>1. MinCooldown \in Nat /\ MaxCooldown \in Nat /\ MinCooldown <= MaxCooldown
  BY CooldownAssumption
<1>2. PICK m \in Int : m = Moment(v, now)
  BY ParseResetIs
<1>3. Told(v, now) = IF m < now + MinCooldown THEN now + MinCooldown
                     ELSE IF m > now + MaxCooldown THEN now + MaxCooldown ELSE m
  BY <1>2 DEF Told, Within
<1>4. PICK d \in Int : d = m - now
  BY <1>2
<1>5. PICK c \in Int : /\ c = ClampCooldown(d) /\ c \in MinCooldown..MaxCooldown
                       /\ c = IF d < MinCooldown THEN MinCooldown
                              ELSE IF d > MaxCooldown THEN MaxCooldown ELSE d
  BY <1>1, ClampIs
<1>6. Told(v, now) = now + c /\ Told(v, now) \in Nat
  BY <1>1, <1>2, <1>3, <1>4, <1>5
<1>7. Says(v) => ParseReset(v, now) = now + c
  BY <1>2, <1>4, <1>5, ParseResetIs
<1>8. Says(v) => ParseReset(v, now) # NoReset
  BY ResetIsTime
<1> QED
  BY <1>6, <1>7, <1>8, ParseResetIs

\* What the first of the headers that says a moment tells.
FirstHeader(limit, now, until) ==
    \E i \in 1..Len(limit.headers) :
        /\ Says(limit.headers[i]) /\ until = Told(limit.headers[i], now)
        /\ \A j \in 1..Len(limit.headers) : Says(limit.headers[j]) => i <= j

NoHeader(limit) == \A i \in 1..Len(limit.headers) : ~Says(limit.headers[i])

\* The earliest that the body tells.
EarliestInBody(limit, now, until) ==
    /\ \E v \in limit.body : Says(v) /\ until = Told(v, now)
    /\ \A v \in limit.body : Says(v) => until <= Told(v, now)

\* A bench given on some evidence lasts as that evidence tells.
LEMMA CooldownAsTold ==
    ASSUME NEW limit \in Evidence, NEW now \in Nat, NEW until, until = DeriveCooldown(limit, now)
    PROVE  /\ until \in Nat
           /\ \/ FirstHeader(limit, now, until)
              \/ NoHeader(limit) /\ EarliestInBody(limit, now, until)
              \/ /\ NoHeader(limit) /\ \A v \in limit.body : ~Says(v)
                 /\ until = now + Defaults[limit.wording]
<1> DEFINE named == {i \in 1..Len(limit.headers) : ParseReset(limit.headers[i], now) # NoReset}
<1> DEFINE resets == {ParseReset(v, now) : v \in limit.body} \ {NoReset}
<1>1. /\ limit.headers \in Seq(ResetValue) /\ limit.body \subseteq ResetValue
      /\ limit.wording \in DOMAIN Defaults
  BY SessionAssumption
<1>2. Len(limit.headers) \in Nat /\ \A i \in 1..Len(limit.headers) : limit.headers[i] \in ResetValue
  BY <1>1
<1>3. \A i \in 1..Len(limit.headers) : i \in named <=> Says(limit.headers[i])
  BY <1>2, ParseResetTells
<1>4. \A v \in limit.body : Says(v) => Told(v, now) \in resets
  BY <1>1, ParseResetTells
<1>5. \A r \in resets : \E v \in limit.body : r = Told(v, now) /\ Says(v) /\ r \in Nat
  BY <1>1, ParseResetTells
<1>6. CASE named # {}
  <2>1. named \in SUBSET Nat
    BY <1>2
  <2>2. Min(named) \in named /\ \A y \in named : Min(named) <= y
    <3>1. \E x \in named : \A y \in named : x <= y
      <4> HIDE DEF named
      <4> QED
        BY <1>6, <2>1, LeastExists
    <3> HIDE DEF named
    <3> QED
      BY <3>1 DEF Min
  <2>3. DeriveCooldown(limit, now) = ParseReset(limit.headers[Min(named)], now)
    BY <1>6 DEF DeriveCooldown
  <2>4. PICK k \in 1..Len(limit.headers) : k = Min(named) /\ Says(limit.headers[k])
    BY <1>3, <2>2
  <2>5. until = Told(limit.headers[k], now) /\ until \in Nat
    <3>1. until = ParseReset(limit.headers[k], now)
      <4> HIDE DEF named
      <4> QED
        BY <2>3, <2>4
    <3> QED
      BY <1>2, <2>4, <3>1, ParseResetTells
  <2>6. \A j \in 1..Len(limit.headers) : Says(limit.headers[j]) => k <= j
    <3> SUFFICES ASSUME NEW j \in 1..Len(limit.headers), Says(limit.headers[j]) PROVE k <= j
      OBVIOUS
    <3>1. j \in named
      BY <1>3
    <3> HIDE DEF named
    <3> QED
      BY <2>2, <2>4, <3>1
  <2> QED
    BY <2>4, <2>5, <2>6 DEF FirstHeader
<1>7. CASE named = {} /\ resets # {}
  <2>1. resets \in SUBSET Nat
    BY <1>5
  <2>2. ResetFromBody(limit.body, now) = Min(resets)
    BY <1>7 DEF ResetFromBody
  <2>3. Min(resets) \in resets /\ \A y \in resets : Min(resets) <= y
    <3> HIDE DEF resets
    <3>1. \E x \in resets : \A y \in resets : x <= y
      BY <1>7, <2>1, LeastExists
    <3> QED
      BY <3>1 DEF Min
  <2>4. PICK r \in resets : r = Min(resets) /\ \A y \in resets : r <= y
    <3> HIDE DEF resets
    <3> QED
      BY <2>3
  <2>5. r # NoReset
    OBVIOUS
  <2>6. until = r
    <3>1. ResetFromBody(limit.body, now) = r
      <4> HIDE DEF resets
      <4> QED
        BY <2>2, <2>4
    <3> QED
      BY <1>7, <2>5, <3>1 DEF DeriveCooldown
  <2>7. PICK v \in limit.body : r = Told(v, now) /\ Says(v) /\ r \in Nat
    BY <1>5
  <2>8. EarliestInBody(limit, now, until)
    <3>1. \A w \in limit.body : Says(w) => r <= Told(w, now)
      <4> HIDE DEF resets
      <4> QED
        BY <1>4, <2>4
    <3> QED
      BY <2>6, <2>7, <3>1 DEF EarliestInBody
  <2>9. NoHeader(limit)
    BY <1>3, <1>7 DEF NoHeader
  <2> QED
    BY <2>6, <2>7, <2>8, <2>9
<1>8. CASE named = {} /\ resets = {}
  <2>1. ResetFromBody(limit.body, now) = NoReset
    BY <1>8 DEF ResetFromBody
  <2>2. until = now + Defaults[limit.wording]
    BY <1>8, <2>1 DEF DeriveCooldown
  <2>3. Defaults[limit.wording] \in MinCooldown..MaxCooldown /\ MinCooldown \in Nat /\ MaxCooldown \in Nat
    BY <1>1, CooldownAssumption
  <2>4. until \in Nat
    BY <2>2, <2>3
  <2>5. NoHeader(limit)
    BY <1>3, <1>8 DEF NoHeader
  <2>6. \A v \in limit.body : ~Says(v)
    BY <1>4, <1>8
  <2> QED
    BY <2>2, <2>4, <2>5, <2>6
<1> QED
  BY <1>6, <1>7, <1>8
-----------------------------------------------------------------------------
(* The catalog. *)

Fetches(c) == at[c] \in {"fetch", "store"}

\* The flag says whether somebody fetches, and then it is one caller.
FlightKnown ==
    /\ ~inFlight => \A c \in TierCallers : ~Fetches(c)
    /\ inFlight => \E c \in TierCallers : \A d \in TierCallers : Fetches(d) <=> d = c

\* The error of a canceled caller is its own, and nobody finds it in the cache.
CancelKnown ==
    /\ \A c \in TierCallers : got[c] = "canceled" => c \in canceled
    /\ cache.value = "canceled" => cache.expires <= clock

TierIInv == TierTypeOK /\ FlightKnown /\ CancelKnown

\* What a lookup may be given.
Given == Catalogs \cup Failures \cup {"none"}

Stands == {"out", "look", "wait", "fetch", "store", "return"}

\* A caller that moves on without a part in the fetch leaves the flight as it is.
LEMMA FlightUntouched ==
    ASSUME TierIInv, NEW c \in TierCallers, NEW to \in Stands \ {"fetch", "store"}, ~Fetches(c),
           at' = [at EXCEPT ![c] = to], inFlight' = inFlight
    PROVE  at' \in [TierCallers -> Stands] /\ FlightKnown'
<1>1. at \in [TierCallers -> Stands]
  BY DEF TierIInv, TierTypeOK, Stands
<1>2. at' \in [TierCallers -> Stands]
  BY <1>1
<1>3. \A d \in TierCallers : Fetches(d)' <=> Fetches(d)
  BY <1>1 DEF Fetches
<1> QED
  BY <1>2, <1>3 DEF TierIInv, FlightKnown

\* The head of the loop.
LEMMA LookInv ==
    ASSUME TierIInv, NEW c \in TierCallers, Look(c)
    PROVE  TierIInv'
<1>0. /\ at \in [TierCallers -> Stands] /\ got \in [TierCallers -> Given] /\ inFlight \in BOOLEAN
      /\ clock \in Nat /\ cache.value \in Given /\ cache.expires \in Nat /\ canceled \subseteq TierCallers
  BY DEF TierIInv, TierTypeOK, Stands, Given
<1>1. at[c] = "look" /\ clock' = clock /\ cache' = cache /\ canceled' = canceled /\ ~Fetches(c)
  BY DEF Look, Fetches
<1>2. CASE clock < cache.expires /\ Return(c, cache.value) /\ inFlight' = inFlight
  <2>1. at' \in [TierCallers -> Stands] /\ FlightKnown'
    BY <1>1, <1>2, FlightUntouched DEF Return, Stands
  <2>2. got' \in [TierCallers -> Given] /\ cache.value # "canceled"
    BY <1>0, <1>2 DEF Return, TierIInv, CancelKnown
  <2>3. CancelKnown'
    BY <1>0, <1>1, <1>2, <2>2 DEF Return, TierIInv, CancelKnown
  <2> QED
    BY <1>0, <1>1, <1>2, <2>1, <2>2, <2>3 DEF TierIInv, TierTypeOK, Stands, Given
<1>3. CASE at' = [at EXCEPT ![c] = "wait"] /\ got' = got /\ inFlight' = inFlight
  <2>1. at' \in [TierCallers -> Stands] /\ FlightKnown'
    BY <1>1, <1>3, FlightUntouched DEF Stands
  <2> QED
    BY <1>0, <1>1, <1>3, <2>1 DEF TierIInv, TierTypeOK, CancelKnown, Stands, Given
<1>4. CASE ~inFlight /\ inFlight' = TRUE /\ at' = [at EXCEPT ![c] = "fetch"] /\ got' = got
  <2>1. at' \in [TierCallers -> Stands]
    BY <1>0, <1>4 DEF Stands
  <2>2. \A d \in TierCallers : Fetches(d)' <=> d = c
    BY <1>0, <1>4 DEF TierIInv, FlightKnown, Fetches
  <2>3. FlightKnown'
    BY <1>4, <2>2 DEF FlightKnown
  <2> QED
    BY <1>0, <1>1, <1>4, <2>1, <2>3 DEF TierIInv, TierTypeOK, CancelKnown, Stands, Given
<1> QED
  BY <1>2, <1>3, <1>4 DEF Look

\* A waiter that is canceled gives up.
LEMMA GiveUpInv ==
    ASSUME TierIInv, NEW c \in TierCallers, GiveUp(c)
    PROVE  TierIInv'
<1>0. at \in [TierCallers -> Stands] /\ got \in [TierCallers -> Given] /\ ~Fetches(c)
  BY DEF TierIInv, TierTypeOK, Stands, Given, GiveUp, Fetches
<1>1. at' \in [TierCallers -> Stands] /\ FlightKnown'
  BY <1>0, FlightUntouched DEF GiveUp, Return, Stands
<1>2. got' \in [TierCallers -> Given]
  BY <1>0 DEF GiveUp, Return, Given, Failures
<1>3. CancelKnown'
  BY <1>0 DEF GiveUp, Return, TierIInv, CancelKnown
<1> QED
  BY <1>1, <1>2, <1>3 DEF TierIInv, TierTypeOK, GiveUp, Stands, Given

\* The fetch returns.
LEMMA FetchInv ==
    ASSUME TierIInv, NEW c \in TierCallers, NEW value \in Catalogs \cup Failures, Fetch(c, value)
    PROVE  TierIInv'
<1>0. at \in [TierCallers -> Stands] /\ got \in [TierCallers -> Given] /\ inFlight' = inFlight
  BY DEF TierIInv, TierTypeOK, Stands, Given, Fetch
<1>1. at' \in [TierCallers -> Stands] /\ \A d \in TierCallers : Fetches(d)' <=> Fetches(d)
  BY <1>0 DEF Fetch, Stands, Fetches
<1>2. FlightKnown'
  BY <1>0, <1>1 DEF TierIInv, FlightKnown
<1>3. got' \in [TierCallers -> Given]
  BY <1>0 DEF Fetch, Given
<1>4. CancelKnown'
  BY <1>0 DEF Fetch, TierIInv, CancelKnown
<1> QED
  BY <1>1, <1>2, <1>3, <1>4 DEF TierIInv, TierTypeOK, Fetch, Stands, Given

\* Its result is stored, and the waiters are woken.
LEMMA StoreInv ==
    ASSUME TierIInv, NEW c \in TierCallers, Store(c)
    PROVE  TierIInv'
<1>0. /\ at \in [TierCallers -> Stands] /\ got \in [TierCallers -> Given] /\ inFlight \in BOOLEAN
      /\ clock \in Nat /\ Fetches(c)
  BY DEF TierIInv, TierTypeOK, Stands, Given, Store, Fetches
<1>1. /\ cache' = [value |-> got[c], expires |-> clock + Lifetime(c)] /\ inFlight' = FALSE
      /\ at' = [d \in TierCallers |-> IF d = c THEN "return" ELSE Woken(d)]
      /\ clock' = clock /\ canceled' = canceled /\ got' = got
  BY DEF Store
<1>2. Lifetime(c) \in Nat /\ (got[c] = "canceled" => Lifetime(c) = 0)
  BY TierAssumption DEF Lifetime, TierIInv, CancelKnown
<1>3. cache' \in [value : Given, expires : Nat]
  BY <1>0, <1>1, <1>2
<1>4. CancelKnown'
  BY <1>0, <1>1, <1>2 DEF TierIInv, CancelKnown
<1>5. \A d \in TierCallers : d # c => ~Fetches(d)
  BY <1>0 DEF TierIInv, FlightKnown
<1>6. at' \in [TierCallers -> Stands] /\ \A d \in TierCallers : ~Fetches(d)'
  BY <1>0, <1>1, <1>5 DEF Woken, Stands, Fetches
<1>7. FlightKnown'
  BY <1>1, <1>6 DEF FlightKnown
<1> QED
  BY <1>0, <1>1, <1>3, <1>4, <1>6, <1>7 DEF TierIInv, TierTypeOK, Stands, Given

\* A caller comes, or goes on with what it got.
LEMMA ComeAndGoInv ==
    ASSUME TierIInv, NEW c \in TierCallers, at[c] \in {"out", "return"},
           NEW to \in {"look", "out"}, at' = [at EXCEPT ![c] = to], UNCHANGED <<clock, cache, inFlight>>,
           \/ UNCHANGED <<got, canceled>>
           \/ got' = [got EXCEPT ![c] = "none"] /\ canceled' \in {canceled, canceled \ {c}}
    PROVE  TierIInv'
<1>0. at \in [TierCallers -> Stands] /\ got \in [TierCallers -> Given] /\ ~Fetches(c)
  BY DEF TierIInv, TierTypeOK, Stands, Given, Fetches
<1>1. at' \in [TierCallers -> Stands] /\ FlightKnown'
  BY <1>0, FlightUntouched DEF Stands
<1>2. got' \in [TierCallers -> Given] /\ canceled' \subseteq TierCallers
  BY <1>0 DEF Given, TierIInv, TierTypeOK
<1>3. CancelKnown'
  BY <1>0 DEF TierIInv, CancelKnown
<1> QED
  BY <1>1, <1>2, <1>3 DEF TierIInv, TierTypeOK, Stands, Given

\* Contexts are canceled, and time passes.
LEMMA TierQuietInv ==
    ASSUME TierIInv, UNCHANGED <<cache, inFlight, at, got>>,
           \/ clock' = clock /\ canceled \subseteq canceled' /\ canceled' \subseteq TierCallers
           \/ clock' = clock + 1 /\ canceled' = canceled
    PROVE  TierIInv'
<1>1. TierTypeOK'
  BY DEF TierIInv, TierTypeOK
<1>2. FlightKnown'
  BY DEF TierIInv, FlightKnown, Fetches
<1>3. clock \in Nat /\ cache.expires \in Nat
  BY DEF TierIInv, TierTypeOK
<1>4. CancelKnown'
  BY <1>3 DEF TierIInv, CancelKnown
<1> QED
  BY <1>1, <1>2, <1>4 DEF TierIInv

\* Every step keeps what holds of the catalog.
LEMMA TierStep ==
    ASSUME TierIInv, [SessionNext]_sessionVars
    PROVE  TierIInv'
<1>0. Session \in TierCallers /\ canceled \subseteq TierCallers
  BY SessionAssumption DEF TierIInv, TierTypeOK
<1>1. CASE UNCHANGED tierVars
  BY <1>0, <1>1, TierQuietInv DEF tierVars
<1>2. CASE UNCHANGED <<clock, cache, inFlight, at, got>> /\ canceled' = canceled \cup {Session}
  BY <1>0, <1>2, TierQuietInv
<1>3. ASSUME NEW c \in TierCallers, LookUpTier(c) PROVE TierIInv'
  BY <1>3, LookInv, GiveUpInv, StoreInv, FetchInv DEF LookUpTier
<1>4. ASSUME NEW c \in TierCallers, Ask(c) PROVE TierIInv'
  BY <1>4, ComeAndGoInv DEF Ask
<1>5. CASE TierKnown
  BY <1>0, <1>5, ComeAndGoInv DEF TierKnown
<1>6. ASSUME NEW c \in TierCallers, GoOn(c) PROVE TierIInv'
  BY <1>6, ComeAndGoInv DEF GoOn
<1>7. ASSUME NEW c \in TierCallers, Cancel(c) PROVE TierIInv'
  BY <1>0, <1>7, TierQuietInv DEF Cancel
<1>8. CASE Tick
  BY <1>8, TierQuietInv DEF Tick
<1>9. ASSUME NEW priority \in BOOLEAN, ReadClient(priority) PROVE TierIInv'
  BY <1>0, <1>1, <1>4, <1>9 DEF ReadClient
<1>10. ASSUME Pumping PROVE TierIInv'
  BY <1>1, <1>2, <1>5, <1>9, <1>10 DEF Pumping, Begin, WriteUpstream, ReadUpstream, Observe, WriteClient, tierVars
<1>11. ASSUME NEW c \in Others, AskElsewhere(c) \/ CancelElsewhere(c) \/ GoOn(c) PROVE TierIInv'
  BY <1>4, <1>6, <1>7, <1>11 DEF Others, AskElsewhere, CancelElsewhere
<1>12. ASSUME Create \/ (\E kind \in Kinds : Respond(kind)) \/ FinishOpen \/ UNCHANGED sessionVars PROVE TierIInv'
  BY <1>1, <1>12 DEF Create, Respond, FinishOpen, sessionVars
<1>13. ASSUME PumpEnds \/ BackEnds \/ CancelSession PROVE TierIInv'
  BY <1>2, <1>13 DEF PumpEnds, BackEnds, CancelSession
<1> QED
  BY <1>3, <1>8, <1>10, <1>11, <1>12, <1>13 DEF SessionNext

\* At first nobody fetches and nobody is canceled.
LEMMA TierInitInv ==
    ASSUME TierInit
    PROVE  TierIInv
<1>1. TierTypeOK
  BY DEF TierInit, TierTypeOK
<1>2. FlightKnown /\ CancelKnown
  BY DEF TierInit, FlightKnown, CancelKnown, Fetches
<1> QED
  BY <1>1, <1>2 DEF TierIInv

\* The flag counts the callers that fetch.
LEMMA FlightIsOne ==
    ASSUME TierIInv
    PROVE  OneFetch
<1> DEFINE fetching == {c \in TierCallers : at[c] \in {"fetch", "store"}}
<1>1. OneFetch <=> Cardinality(fetching) = IF inFlight THEN 1 ELSE 0
  BY DEF OneFetch
<1>2. CASE ~inFlight
  <2>1. fetching = {}
    BY <1>2 DEF TierIInv, FlightKnown, Fetches
  <2> QED
    BY <1>1, <1>2, <2>1, FS_EmptySet
<1>3. CASE inFlight
  <2>1. PICK c \in TierCallers : \A d \in TierCallers : Fetches(d) <=> d = c
    BY <1>3 DEF TierIInv, FlightKnown
  <2>2. fetching = {c}
    BY <2>1 DEF Fetches
  <2> QED
    BY <1>1, <1>3, <2>2, FS_Singleton
<1> QED
  BY <1>2, <1>3 DEF TierIInv, TierTypeOK
-----------------------------------------------------------------------------
(* Turns and their log entries. *)

\* Taking from a queue.
LEMMA TailOf ==
    ASSUME NEW S, NEW s \in Seq(S), s # << >>
    PROVE  /\ Head(s) \in S /\ Head(s) = s[1] /\ Tail(s) \in Seq(S)
           /\ Len(s) \in Nat /\ Len(s) > 0 /\ Len(Tail(s)) \in Nat /\ Len(Tail(s)) = Len(s) - 1
           /\ \A i \in 1..Len(Tail(s)) : Tail(s)[i] = s[i + 1]
<1>1. Len(s) \in Nat /\ Len(s) > 0 /\ Head(s) = s[1]
  OBVIOUS
<1> QED
  BY <1>1, HeadTailProperties

AllAre(s, x) == \A i \in 1..Len(s) : s[i] = x

AllOf(s, x) == \A i \in 1..Len(s) : s[i].turn = x

\* Queues that hold one turn only.
LEMMA QueueOf ==
    ASSUME NEW S, NEW s \in Seq(S), NEW x
    PROVE  /\ Len(s) = 0 => AllAre(s, x) /\ AllOf(s, x)
           /\ AllAre(s, x) /\ s # << >> => AllAre(Tail(s), x) /\ Head(s) = x
           /\ AllOf(s, x) /\ s # << >> => AllOf(Tail(s), x) /\ Head(s).turn = x
           /\ \A y \in S : AllAre(s, x) /\ y = x => AllAre(Append(s, y), x)
           /\ \A y \in S : AllOf(s, x) /\ y.turn = x => AllOf(Append(s, y), x)
<1>1. Len(s) = 0 => AllAre(s, x) /\ AllOf(s, x)
  BY DEF AllAre, AllOf
<1>2. ASSUME s # << >>
      PROVE  /\ AllAre(s, x) => AllAre(Tail(s), x) /\ Head(s) = x
             /\ AllOf(s, x) => AllOf(Tail(s), x) /\ Head(s).turn = x
  <2>1. /\ Head(s) = s[1] /\ Len(s) \in Nat /\ Len(s) > 0 /\ Len(Tail(s)) \in Nat /\ Len(Tail(s)) = Len(s) - 1
        /\ \A i \in 1..Len(Tail(s)) : Tail(s)[i] = s[i + 1]
    BY <1>2, TailOf
  <2>2. 1 \in 1..Len(s) /\ \A i \in 1..Len(Tail(s)) : i + 1 \in 1..Len(s)
    BY <2>1
  <2> QED
    BY <2>1, <2>2 DEF AllAre, AllOf
<1>3. ASSUME NEW y \in S
      PROVE  /\ AllAre(s, x) /\ y = x => AllAre(Append(s, y), x)
             /\ AllOf(s, x) /\ y.turn = x => AllOf(Append(s, y), x)
  <2>1. /\ Len(Append(s, y)) = Len(s) + 1 /\ Append(s, y)[Len(s) + 1] = y /\ Len(s) \in Nat
        /\ \A i \in 1..Len(s) : Append(s, y)[i] = s[i]
    BY AppendProperties
  <2>2. \A i \in 1..(Len(s) + 1) : i \in 1..Len(s) \/ i = Len(s) + 1
    BY <2>1
  <2> QED
    BY <2>1, <2>2 DEF AllAre, AllOf
<1> QED
  BY <1>1, <1>2, <1>3

Count(s, t) == Cardinality({i \in 1..Len(s) : s[i].turn = t})

\* One more entry.
LEMMA CountAppend ==
    ASSUME NEW s \in Seq(Entry), NEW e \in Entry, NEW t
    PROVE  Count(s, t) \in Nat /\ Count(Append(s, e), t) = Count(s, t) + IF e.turn = t THEN 1 ELSE 0
<1> DEFINE n == Len(s)
<1> DEFINE before == {i \in 1..n : s[i].turn = t}
<1> DEFINE after == {i \in 1..Len(Append(s, e)) : Append(s, e)[i].turn = t}
<1>1. /\ n \in Nat /\ Len(Append(s, e)) = n + 1 /\ Append(s, e)[n + 1] = e
      /\ \A i \in 1..n : Append(s, e)[i] = s[i]
  BY AppendProperties
<1>2. IsFiniteSet(before) /\ n + 1 \notin before
  <2>1. before \subseteq 1..n /\ n + 1 \notin before
    BY <1>1
  <2>2. IsFiniteSet(1..n)
    BY <1>1, FS_Interval
  <2> HIDE DEF before
  <2> QED
    BY <2>1, <2>2, FS_Subset
<1>3. Cardinality(before) \in Nat
  <2> HIDE DEF before
  <2> QED
    BY <1>2, FS_CardinalityType
<1>4. after = IF e.turn = t THEN before \cup {n + 1} ELSE before
  <2>1. \A i : i \in 1..(n + 1) <=> i \in 1..n \/ i = n + 1
    BY <1>1
  <2> QED
    BY <1>1, <2>1
<1>5. Count(s, t) = Cardinality(before) /\ Count(Append(s, e), t) = Cardinality(after)
  BY DEF Count
<1> HIDE DEF before, after, n
<1>6. Cardinality(before \cup {n + 1}) = Cardinality(before) + 1
  BY <1>2, FS_AddElement
<1> QED
  BY <1>3, <1>4, <1>5, <1>6

\* Of n turns, each has one entry in s or is the open one.
Tally(s, o, n) ==
    /\ o \in 0..n
    /\ \A i \in 1..Len(s) : s[i].turn \in 1..n
    /\ \A t \in 1..n : Count(s, t) + (IF o = t THEN 1 ELSE 0) = 1

\* The entries once the open one is finished.
Closed(s, o, b) == IF o = 0 THEN s ELSE Append(s, [turn |-> o, by |-> b])

\* Finishing the open turn keeps the tally.
LEMMA TallyClosed ==
    ASSUME NEW s \in Seq(Entry), NEW n \in Nat, NEW o \in Turns, NEW b \in Turns, Tally(s, o, n)
    PROVE  Closed(s, o, b) \in Seq(Entry) /\ Tally(Closed(s, o, b), 0, n)
<1> DEFINE e == [turn |-> o, by |-> b]
<1>1. e \in Entry /\ e.turn = o
  BY DEF Entry
<1>2. CASE o = 0
  <2>1. Closed(s, o, b) = s
    BY <1>2 DEF Closed
  <2> QED
    BY <1>2, <2>1 DEF Tally
<1>3. CASE o # 0
  <2>1. Closed(s, o, b) = Append(s, e) /\ o \in 1..n
    BY <1>3 DEF Closed, Tally
  <2> HIDE DEF e
  <2>2. /\ Append(s, e) \in Seq(Entry) /\ Len(Append(s, e)) = Len(s) + 1 /\ Append(s, e)[Len(s) + 1] = e
        /\ \A i \in 1..Len(s) : Append(s, e)[i] = s[i]
        /\ Len(s) \in Nat
    BY <1>1, AppendProperties
  <2>3. \A i \in 1..Len(Append(s, e)) : Append(s, e)[i].turn \in 1..n
    <3>1. \A i \in 1..(Len(s) + 1) : i \in 1..Len(s) \/ i = Len(s) + 1
      BY <2>2
    <3> QED
      BY <1>1, <2>1, <2>2, <3>1 DEF Tally
  <2>4. ASSUME NEW t \in 1..n PROVE Count(Append(s, e), t) + (IF 0 = t THEN 1 ELSE 0) = 1
    <3>1. /\ Count(s, t) \in Nat /\ Count(Append(s, e), t) = Count(s, t) + (IF o = t THEN 1 ELSE 0)
          /\ Count(s, t) + (IF o = t THEN 1 ELSE 0) = 1
      BY <1>1, CountAppend DEF Tally
    <3> QED
      BY <3>1
  <2> QED
    BY <2>1, <2>2, <2>3, <2>4 DEF Tally
<1> QED
  BY <1>2, <1>3

\* The next turn opens.
LEMMA TallyOpened ==
    ASSUME NEW s \in Seq(Entry), NEW n \in Nat, Tally(s, 0, n)
    PROVE  Tally(s, n + 1, n + 1)
<1>0. Len(s) \in Nat
  OBVIOUS
<1>1. \A i \in 1..Len(s) : s[i].turn \in 1..(n + 1) /\ s[i].turn # n + 1
  BY DEF Tally
<1>2. Count(s, n + 1) = 0
  <2>1. {i \in 1..Len(s) : s[i].turn = n + 1} = {}
    BY <1>1
  <2> QED
    BY <2>1, FS_EmptySet DEF Count
<1>3. ASSUME NEW t \in 1..(n + 1) PROVE Count(s, t) + (IF n + 1 = t THEN 1 ELSE 0) = 1
  <2>1. CASE t = n + 1
    BY <1>2, <2>1
  <2>2. CASE t # n + 1
    <3>1. t \in 1..n /\ t # 0
      BY <2>2
    <3>2. Count(s, t) + (IF 0 = t THEN 1 ELSE 0) = 1
      BY <3>1 DEF Tally
    <3> QED
      BY <2>2, <3>1, <3>2
  <2> QED
    BY <2>1, <2>2
<1> QED
  BY <1>1, <1>3 DEF Tally
-----------------------------------------------------------------------------
(* The inductive invariant of the session. *)

TurnsOK ==
    /\ sent \in Turns /\ seen \in Turns /\ open \in Turns
    /\ inbox \in Seq(Turns) /\ upstream \in Seq(Turns)
    /\ events \in Seq(Event) /\ entries \in Seq(Entry)
    /\ impatient \in BOOLEAN /\ ended \in BOOLEAN
    /\ pump \in [at : {"read", "tier", "begin", "write", "done"}, turn : Turns]
    /\ back \in [at : {"read", "observe", "write", "done"}, event : Event]
    /\ asks \in 0..MaxAsks

\* Turns reach the tracker in the order of their numbers, and none is left out.
Numbered ==
    /\ Begun \in Nat
    /\ \A i \in 1..Len(inbox) : inbox[i] = sent - Len(inbox) + i
    /\ pump.at \in {"tier", "begin"} => pump.turn = Begun + 1

\* Every turn that has begun has one entry.
Booked == Tally(entries, open, Begun) /\ (ended => open = 0 /\ Over)

Holding == IF pump.at \in {"tier", "begin", "write"} THEN 1 ELSE 0

Returning == IF back.at \in {"observe", "write"} THEN 1 ELSE 0

\* A client that waits for each answer has one turn under way at most: the last it
\* sent, in one place, and no longer open when its answer is on the way to the client.
OneAtATime ==
    ~impatient =>
      /\ seen <= sent /\ sent <= seen + 1
      /\ Len(inbox) + Holding + Len(upstream) + Len(events) + Returning <= sent - seen
      /\ AllAre(inbox, sent) /\ AllAre(upstream, sent) /\ AllOf(events, sent)
      /\ Holding = 1 => pump.turn = sent
      /\ Returning = 1 => back.event.turn = sent
      /\ open # 0 => open = sent /\ seen < sent
      /\ back.at = "write" => open = 0

OwnIn(s) == \A i \in 1..Len(s) : s[i].by \in {0, s[i].turn}

TurnInv == TurnsOK /\ Numbered /\ Booked /\ OneAtATime /\ (~impatient => OwnIn(entries))

\* A bench is what some evidence told at some time.
BenchKnown ==
    \/ bench = NoBench
    \/ \E limit \in Evidence, now \in Nat :
          bench = [until |-> DeriveCooldown(limit, now), given |-> now, on |-> limit]

SessionIInv == TierIInv /\ TurnInv /\ BenchKnown

\* What the types say, for arithmetic.
LEMMA TurnTypes ==
    ASSUME TurnsOK
    PROVE  /\ MaxTurns \in Nat /\ sent \in Nat /\ seen \in Nat /\ open \in Nat
           /\ Len(inbox) \in Nat /\ Len(upstream) \in Nat /\ Len(events) \in Nat /\ Len(entries) \in Nat
           /\ pump.at \in {"read", "tier", "begin", "write", "done"} /\ pump.turn \in Turns
           /\ back.at \in {"read", "observe", "write", "done"} /\ back.event \in Event
           /\ back.event.turn \in Turns /\ back.event.kind \in Kinds \cup {"none"}
           /\ Holding \in {0, 1} /\ Returning \in {0, 1}
<1>1. MaxTurns \in Nat /\ sent \in Nat /\ seen \in Nat /\ open \in Nat
  BY SessionAssumption DEF TurnsOK, Turns
<1>2. Len(inbox) \in Nat /\ Len(upstream) \in Nat /\ Len(events) \in Nat /\ Len(entries) \in Nat
  BY DEF TurnsOK
<1>3. /\ pump.at \in {"read", "tier", "begin", "write", "done"} /\ pump.turn \in Turns
      /\ back.at \in {"read", "observe", "write", "done"} /\ back.event \in Event
  BY DEF TurnsOK
<1>4. back.event.turn \in Turns /\ back.event.kind \in Kinds \cup {"none"}
  BY <1>3 DEF Event
<1> QED
  BY <1>1, <1>2, <1>3, <1>4 DEF Holding, Returning

\* Own answers stay own when the open turn is finished by none or by its own.
LEMMA OwnClosed ==
    ASSUME NEW s \in Seq(Entry), NEW o \in Turns, NEW b \in Turns, OwnIn(s), o = 0 \/ b \in {0, o}
    PROVE  OwnIn(Closed(s, o, b))
<1> DEFINE e == [turn |-> o, by |-> b]
<1>1. e \in Entry /\ e.turn = o /\ e.by = b
  BY DEF Entry
<1>2. CASE o = 0
  BY <1>2 DEF Closed
<1>3. CASE o # 0
  <2>1. Closed(s, o, b) = Append(s, e)
    BY <1>3 DEF Closed
  <2> HIDE DEF e
  <2>2. /\ Len(Append(s, e)) = Len(s) + 1 /\ Append(s, e)[Len(s) + 1] = e /\ Len(s) \in Nat
        /\ \A i \in 1..Len(s) : Append(s, e)[i] = s[i]
    BY <1>1, AppendProperties
  <2>3. \A i \in 1..(Len(s) + 1) : i \in 1..Len(s) \/ i = Len(s) + 1
    BY <2>2
  <2> QED
    BY <1>1, <1>3, <2>1, <2>2, <2>3 DEF OwnIn
<1> QED
  BY <1>2, <1>3

-----------------------------------------------------------------------------
(* The steps of a session. *)

\* Whatever leaves the session's turns alone.
LEMMA TurnsUntouched ==
    ASSUME TurnInv, asks' \in 0..MaxAsks,
           UNCHANGED <<sent, inbox, upstream, events, seen, impatient, pump, back, open, entries, ended>>
    PROVE  TurnInv'
<1>1. TurnsOK'
  BY DEF TurnInv, TurnsOK
<1>2. Numbered' /\ Booked'
  BY DEF TurnInv, Numbered, Booked, Begun, Over
<1>3. OneAtATime' /\ (~impatient' => OwnIn(entries'))
  BY DEF TurnInv, OneAtATime, Holding, Returning
<1> QED
  BY <1>1, <1>2, <1>3 DEF TurnInv

\* The client sends a turn.
LEMMA CreateInv ==
    ASSUME TurnInv, Create
    PROVE  TurnInv'
<1>0. /\ sent \in Nat /\ seen \in Nat /\ MaxTurns \in Nat /\ Len(inbox) \in Nat /\ Len(upstream) \in Nat
      /\ Len(events) \in Nat /\ Holding \in {0, 1} /\ Returning \in {0, 1} /\ inbox \in Seq(Turns)
      /\ upstream \in Seq(Turns) /\ events \in Seq(Event)
  BY TurnTypes DEF TurnInv, TurnsOK
<1>1. /\ sent < MaxTurns /\ pump.at # "done" /\ sent' = sent + 1 /\ inbox' = Append(inbox, sent + 1)
      /\ impatient' = (impatient \/ seen < sent) /\ upstream' = upstream /\ events' = events /\ seen' = seen
      /\ pump' = pump /\ back' = back /\ open' = open /\ entries' = entries /\ ended' = ended /\ asks' = asks
  BY DEF Create
<1>2. sent + 1 \in Turns
  BY <1>0, <1>1 DEF Turns
<1>3. /\ inbox' \in Seq(Turns) /\ Len(inbox') = Len(inbox) + 1 /\ inbox'[Len(inbox) + 1] = sent + 1
      /\ \A i \in 1..Len(inbox) : inbox'[i] = inbox[i]
  BY <1>0, <1>1, <1>2, AppendProperties
<1>4. TurnsOK'
  BY <1>1, <1>2, <1>3 DEF TurnInv, TurnsOK
<1>5. Begun' = Begun /\ Begun \in Nat
  BY <1>0, <1>1, <1>3 DEF TurnInv, Numbered, Begun
<1>6. \A i \in 1..Len(inbox') : inbox'[i] = sent' - Len(inbox') + i
  <2> SUFFICES ASSUME NEW i \in 1..(Len(inbox) + 1) PROVE inbox'[i] = (sent + 1) - (Len(inbox) + 1) + i
    BY <1>1, <1>3
  <2>1. CASE i = Len(inbox) + 1
    BY <1>0, <1>3, <2>1
  <2>2. CASE i \in 1..Len(inbox)
    <3>1. inbox'[i] = sent - Len(inbox) + i
      BY <1>3, <2>2 DEF TurnInv, Numbered
    <3> QED
      BY <1>0, <3>1
  <2> QED
    BY <1>0, <2>1, <2>2
<1>7. Numbered'
  BY <1>1, <1>5, <1>6 DEF TurnInv, Numbered
<1>8. Booked'
  BY <1>1, <1>5 DEF TurnInv, Booked, Over
<1>9. OneAtATime'
  <2> SUFFICES ASSUME ~impatient' PROVE OneAtATime'
    BY DEF OneAtATime
  <2>1. /\ ~impatient /\ seen = sent /\ Len(inbox) = 0 /\ Len(upstream) = 0 /\ Len(events) = 0
        /\ Holding = 0 /\ Returning = 0 /\ open = 0
    <3>1. ~impatient /\ ~(seen < sent)
      BY <1>1
    <3>2. /\ seen <= sent /\ (open # 0 => seen < sent)
          /\ Len(inbox) + Holding + Len(upstream) + Len(events) + Returning <= sent - seen
      BY <3>1 DEF TurnInv, OneAtATime
    <3>3. seen = sent /\ open = 0
      BY <1>0, <3>1, <3>2
    <3>4. Len(inbox) + Holding + Len(upstream) + Len(events) + Returning <= 0
      BY <1>0, <3>2, <3>3
    <3> QED
      BY <1>0, <3>1, <3>3, <3>4
  <2>2. AllAre(inbox', sent') /\ AllAre(upstream', sent') /\ AllOf(events', sent')
    BY <1>0, <1>1, <1>2, <2>1, QueueOf
  <2>3. Holding' = 0 /\ Returning' = 0 /\ back.at # "write"
    BY <1>1, <2>1 DEF Holding, Returning
  <2> QED
    BY <1>0, <1>1, <1>3, <2>1, <2>2, <2>3 DEF OneAtATime
<1> QED
  BY <1>1, <1>4, <1>7, <1>8, <1>9 DEF TurnInv

\* The upstream answers its oldest turn.
LEMMA RespondInv ==
    ASSUME TurnInv, NEW kind \in Kinds, Respond(kind)
    PROVE  TurnInv'
<1>0. /\ sent \in Nat /\ seen \in Nat /\ Len(inbox) \in Nat /\ Len(upstream) \in Nat
      /\ Len(events) \in Nat /\ Holding \in {0, 1} /\ Returning \in {0, 1}
      /\ upstream \in Seq(Turns) /\ events \in Seq(Event)
  BY TurnTypes DEF TurnInv, TurnsOK
<1> DEFINE e == [turn |-> Head(upstream), kind |-> kind]
<1>1. /\ upstream # << >> /\ upstream' = Tail(upstream) /\ events' = Append(events, e)
      /\ sent' = sent /\ inbox' = inbox /\ seen' = seen /\ impatient' = impatient
      /\ pump' = pump /\ back' = back /\ open' = open /\ entries' = entries /\ ended' = ended /\ asks' = asks
  BY DEF Respond
<1>2. Head(upstream) \in Turns /\ upstream' \in Seq(Turns) /\ Len(upstream') = Len(upstream) - 1
  BY <1>0, <1>1, TailOf
<1>3. e \in Event /\ e.turn = Head(upstream)
  BY <1>2 DEF Event
<1> HIDE DEF e
<1>4. events' \in Seq(Event) /\ Len(events') = Len(events) + 1
  BY <1>0, <1>1, <1>3, AppendProperties
<1>5. TurnsOK'
  BY <1>1, <1>2, <1>4 DEF TurnInv, TurnsOK
<1>6. Numbered' /\ Booked'
  BY <1>1 DEF TurnInv, Numbered, Booked, Begun, Over
<1>7. OneAtATime'
  <2> SUFFICES ASSUME ~impatient PROVE OneAtATime'
    BY <1>1 DEF OneAtATime
  <2>1. AllAre(upstream, sent) /\ AllOf(events, sent)
    BY DEF TurnInv, OneAtATime
  <2>2. AllAre(upstream', sent') /\ AllOf(events', sent')
    BY <1>0, <1>1, <1>3, <2>1, QueueOf
  <2>3. Holding' = Holding /\ Returning' = Returning
    BY <1>1 DEF Holding, Returning
  <2> QED
    BY <1>0, <1>1, <1>2, <1>4, <2>2, <2>3 DEF TurnInv, OneAtATime
<1> QED
  BY <1>1, <1>5, <1>6, <1>7 DEF TurnInv
\* The client's pump takes a turn.
LEMMA ReadClientInv ==
    ASSUME TurnInv, NEW priority \in BOOLEAN, ReadClient(priority)
    PROVE  TurnInv'
<1>0. /\ sent \in Nat /\ seen \in Nat /\ Len(inbox) \in Nat /\ Len(upstream) \in Nat
      /\ Len(events) \in Nat /\ Holding \in {0, 1} /\ Returning \in {0, 1} /\ inbox \in Seq(Turns)
  BY TurnTypes DEF TurnInv, TurnsOK
<1>1. /\ pump.at = "read" /\ inbox # << >> /\ inbox' = Tail(inbox)
      /\ pump' = [at |-> IF priority THEN "tier" ELSE "begin", turn |-> Head(inbox)]
      /\ sent' = sent /\ upstream' = upstream /\ events' = events /\ seen' = seen /\ impatient' = impatient
      /\ back' = back /\ open' = open /\ entries' = entries /\ ended' = ended /\ asks' = asks
  BY DEF ReadClient
<1>2. /\ Head(inbox) \in Turns /\ Head(inbox) = inbox[1] /\ inbox' \in Seq(Turns) /\ Len(inbox) > 0
      /\ Len(inbox') \in Nat /\ Len(inbox') = Len(inbox) - 1
      /\ \A i \in 1..Len(inbox') : inbox'[i] = inbox[i + 1]
  BY <1>0, <1>1, TailOf
<1>3. pump'.at \in {"tier", "begin"} /\ pump'.turn = Head(inbox)
      /\ pump' \in [at : {"read", "tier", "begin", "write", "done"}, turn : Turns]
  BY <1>1, <1>2
<1>4. TurnsOK'
  BY <1>1, <1>2, <1>3 DEF TurnInv, TurnsOK
<1>5. Begun = sent - Len(inbox) /\ Begun \in Nat
  BY <1>0, <1>1 DEF TurnInv, Numbered, Begun
<1>6. Begun' = Begun
  BY <1>0, <1>1, <1>2, <1>3, <1>5 DEF Begun
<1>7. Numbered'
  <2>1. inbox[1] = sent - Len(inbox) + 1
    BY <1>0, <1>2 DEF TurnInv, Numbered
  <2>2. pump'.turn = Begun' + 1
    BY <1>2, <1>3, <1>5, <1>6, <2>1
  <2>3. ASSUME NEW i \in 1..Len(inbox') PROVE inbox'[i] = sent' - Len(inbox') + i
    <3>1. i + 1 \in 1..Len(inbox)
      BY <1>0, <1>2
    <3>2. inbox'[i] = sent - Len(inbox) + (i + 1)
      BY <1>2, <3>1 DEF TurnInv, Numbered
    <3> QED
      BY <1>0, <1>1, <1>2, <3>2
  <2> QED
    BY <1>5, <1>6, <2>2, <2>3 DEF Numbered
<1>8. Booked'
  BY <1>1, <1>6 DEF TurnInv, Booked, Over
<1>9. OneAtATime'
  <2> SUFFICES ASSUME ~impatient PROVE OneAtATime'
    BY <1>1 DEF OneAtATime
  <2>1. AllAre(inbox', sent') /\ Head(inbox) = sent
    BY <1>0, <1>1, QueueOf DEF TurnInv, OneAtATime
  <2>2. Holding = 0 /\ Holding' = 1 /\ Returning' = Returning
    BY <1>1, <1>3 DEF Holding, Returning
  <2> QED
    BY <1>0, <1>1, <1>2, <1>3, <2>1, <2>2 DEF TurnInv, OneAtATime
<1> QED
  BY <1>1, <1>4, <1>7, <1>8, <1>9 DEF TurnInv

\* The catalog has answered the pump.
LEMMA TierKnownInv ==
    ASSUME TurnInv, TierKnown
    PROVE  TurnInv'
<1>1. /\ pump.at = "tier" /\ pump' = [pump EXCEPT !.at = "begin"] /\ inbox' = inbox
      /\ sent' = sent /\ upstream' = upstream /\ events' = events /\ seen' = seen /\ impatient' = impatient
      /\ back' = back /\ open' = open /\ entries' = entries /\ ended' = ended /\ asks' = asks
  BY DEF TierKnown
<1>2. pump'.at = "begin" /\ pump'.turn = pump.turn
      /\ pump' \in [at : {"read", "tier", "begin", "write", "done"}, turn : Turns]
  BY <1>1 DEF TurnInv, TurnsOK
<1>3. TurnsOK'
  BY <1>1, <1>2 DEF TurnInv, TurnsOK
<1>4. Begun' = Begun
  BY <1>1, <1>2 DEF Begun
<1>5. Numbered'
  BY <1>1, <1>2, <1>4 DEF TurnInv, Numbered
<1>6. Booked'
  BY <1>1, <1>4 DEF TurnInv, Booked, Over
<1>7. OneAtATime'
  <2>1. Holding' = Holding /\ Returning' = Returning
    BY <1>1, <1>2 DEF Holding, Returning
  <2> QED
    BY <1>1, <1>2, <2>1 DEF TurnInv, OneAtATime
<1> QED
  BY <1>1, <1>3, <1>5, <1>6, <1>7 DEF TurnInv

\* The tracker opens the turn, and ends the one that is open.
LEMMA BeginInv ==
    ASSUME TurnInv, Begin
    PROVE  TurnInv'
<1>0. /\ sent \in Nat /\ seen \in Nat /\ Len(inbox) \in Nat /\ Len(upstream) \in Nat
      /\ Len(events) \in Nat /\ Holding \in {0, 1} /\ Returning \in {0, 1}
      /\ entries \in Seq(Entry) /\ open \in Turns /\ 0 \in Turns /\ pump.turn \in Turns
  BY TurnTypes DEF TurnInv, TurnsOK, Turns
<1>1. /\ pump.at = "begin" /\ entries' = Closed(entries, open, 0) /\ open' = pump.turn
      /\ pump' = [pump EXCEPT !.at = "write"] /\ inbox' = inbox
      /\ sent' = sent /\ upstream' = upstream /\ events' = events /\ seen' = seen /\ impatient' = impatient
      /\ back' = back /\ ended' = ended /\ asks' = asks
  BY DEF Begin, Closed, Finish
<1>2. pump'.at = "write" /\ pump'.turn = pump.turn
      /\ pump' \in [at : {"read", "tier", "begin", "write", "done"}, turn : Turns]
  BY <1>1 DEF TurnInv, TurnsOK
<1>3. Begun \in Nat /\ pump.turn = Begun + 1 /\ Begun' = Begun + 1
  BY <1>0, <1>1, <1>2 DEF TurnInv, Numbered, Begun
<1>4. Tally(entries, open, Begun)
  BY DEF TurnInv, Booked
<1>5. entries' \in Seq(Entry) /\ Tally(entries', 0, Begun)
  BY <1>0, <1>1, <1>3, <1>4, TallyClosed
<1>6. Tally(entries', open', Begun')
  BY <1>1, <1>3, <1>5, TallyOpened
<1>7. TurnsOK'
  BY <1>0, <1>1, <1>2, <1>5 DEF TurnInv, TurnsOK
<1>8. Numbered'
  BY <1>1, <1>2, <1>3 DEF TurnInv, Numbered
<1>9. ~ended
  BY <1>1 DEF TurnInv, Booked, Over
<1>10. Booked'
  BY <1>1, <1>6, <1>9 DEF Booked
<1>11. OneAtATime'
  <2> SUFFICES ASSUME ~impatient PROVE OneAtATime'
    BY <1>1 DEF OneAtATime
  <2>1. Holding = 1 /\ Holding' = 1 /\ Returning' = Returning
    BY <1>1, <1>2 DEF Holding, Returning
  <2>2. /\ Len(inbox) + Holding + Len(upstream) + Len(events) + Returning <= sent - seen
        /\ sent <= seen + 1 /\ pump.turn = sent
    BY <2>1 DEF TurnInv, OneAtATime
  <2>3. seen < sent /\ Returning = 0
    BY <1>0, <2>1, <2>2
  <2>4. back'.at # "write"
    BY <1>1, <2>3 DEF Returning
  <2> QED
    BY <1>1, <1>2, <2>1, <2>2, <2>3, <2>4 DEF TurnInv, OneAtATime
<1>12. ~impatient' => OwnIn(entries')
  BY <1>0, <1>1, OwnClosed DEF TurnInv
<1> QED
  BY <1>7, <1>8, <1>10, <1>11, <1>12 DEF TurnInv

\* The pump passes the turn on.
LEMMA WriteUpstreamInv ==
    ASSUME TurnInv, WriteUpstream
    PROVE  TurnInv'
<1>0. /\ sent \in Nat /\ seen \in Nat /\ Len(inbox) \in Nat /\ Len(upstream) \in Nat
      /\ Len(events) \in Nat /\ Holding \in {0, 1} /\ Returning \in {0, 1}
      /\ upstream \in Seq(Turns) /\ 0 \in Turns /\ pump.turn \in Turns
  BY TurnTypes DEF TurnInv, TurnsOK, Turns
<1>1. /\ pump.at = "write" /\ pump' = [at |-> "read", turn |-> 0] /\ upstream' = Append(upstream, pump.turn)
      /\ inbox' = inbox /\ sent' = sent /\ events' = events /\ seen' = seen /\ impatient' = impatient
      /\ back' = back /\ open' = open /\ entries' = entries /\ ended' = ended /\ asks' = asks
  BY DEF WriteUpstream
<1>2. pump'.at = "read" /\ pump' \in [at : {"read", "tier", "begin", "write", "done"}, turn : Turns]
  BY <1>0, <1>1
<1>3. upstream' \in Seq(Turns) /\ Len(upstream') = Len(upstream) + 1
  BY <1>0, <1>1, AppendProperties
<1>4. TurnsOK'
  BY <1>1, <1>2, <1>3 DEF TurnInv, TurnsOK
<1>5. Begun' = Begun
  BY <1>1, <1>2 DEF Begun
<1>6. Numbered'
  BY <1>1, <1>2, <1>5 DEF TurnInv, Numbered
<1>7. Booked'
  BY <1>1, <1>5 DEF TurnInv, Booked, Over
<1>8. OneAtATime'
  <2> SUFFICES ASSUME ~impatient PROVE OneAtATime'
    BY <1>1 DEF OneAtATime
  <2>1. Holding = 1 /\ Holding' = 0 /\ Returning' = Returning
    BY <1>1, <1>2 DEF Holding, Returning
  <2>2. AllAre(upstream', sent')
    BY <1>0, <1>1, <2>1, QueueOf DEF TurnInv, OneAtATime
  <2> QED
    BY <1>0, <1>1, <1>3, <2>1, <2>2 DEF TurnInv, OneAtATime
<1> QED
  BY <1>1, <1>4, <1>6, <1>7, <1>8 DEF TurnInv

\* Either pump ends, with what it carries.
LEMMA EndsInv ==
    ASSUME TurnInv, PumpEnds \/ BackEnds
    PROVE  TurnInv'
<1>0. /\ sent \in Nat /\ seen \in Nat /\ Len(inbox) \in Nat /\ Len(upstream) \in Nat
      /\ Len(events) \in Nat /\ Holding \in {0, 1} /\ Returning \in {0, 1} /\ 0 \in Turns /\ NoEvent \in Event
  BY TurnTypes DEF TurnInv, TurnsOK, Turns, NoEvent, Event
<1>1. /\ inbox' = inbox /\ upstream' = upstream /\ sent' = sent /\ events' = events /\ seen' = seen
      /\ impatient' = impatient /\ open' = open /\ entries' = entries /\ ended' = ended /\ asks' = asks
  BY DEF PumpEnds, BackEnds
<1>2. \/ pump.at \notin {"tier", "begin"} /\ pump' = [at |-> "done", turn |-> 0] /\ back' = back
      \/ back' = [at |-> "done", event |-> NoEvent] /\ pump' = pump
  BY DEF PumpEnds, BackEnds
<1>3. TurnsOK'
  BY <1>0, <1>1, <1>2 DEF TurnInv, TurnsOK
<1>4. Begun' = Begun /\ (pump'.at \in {"tier", "begin"} => pump' = pump)
  BY <1>1, <1>2 DEF Begun
<1>5. Numbered'
  BY <1>1, <1>4 DEF TurnInv, Numbered
<1>6. Booked'
  BY <1>1, <1>2, <1>4 DEF TurnInv, Booked, Over
<1>7. OneAtATime'
  <2>1. /\ Holding' \in {0, Holding} /\ Returning' \in {0, Returning}
        /\ Holding' = 1 => pump' = pump
        /\ Returning' = 1 => back' = back
        /\ back'.at = "write" => back' = back
    <3>1. CASE pump' = [at |-> "done", turn |-> 0] /\ back' = back
      BY <3>1 DEF Holding, Returning
    <3>2. CASE back' = [at |-> "done", event |-> NoEvent] /\ pump' = pump
      BY <3>2 DEF Holding, Returning
    <3> QED
      BY <1>2, <3>1, <3>2
  <2>2. Holding' <= Holding /\ Returning' <= Returning /\ Holding' \in Nat /\ Returning' \in Nat
    BY <1>0, <2>1
  <2>3. ASSUME ~impatient
        PROVE  Len(inbox) + Holding' + Len(upstream) + Len(events) + Returning' <= sent - seen
    <3>1. Len(inbox) + Holding + Len(upstream) + Len(events) + Returning <= sent - seen
      BY <2>3 DEF TurnInv, OneAtATime
    <3> QED
      BY <1>0, <2>2, <3>1
  <2>4. /\ ~impatient /\ Holding' = 1 => pump'.turn = sent
        /\ ~impatient /\ Returning' = 1 => back'.event.turn = sent
        /\ ~impatient /\ back'.at = "write" => open = 0
    BY <1>0, <2>1 DEF TurnInv, OneAtATime
  <2> QED
    BY <1>1, <2>3, <2>4 DEF TurnInv, OneAtATime
<1> QED
  BY <1>1, <1>3, <1>5, <1>6, <1>7 DEF TurnInv
\* The other pump takes an event.
LEMMA ReadUpstreamInv ==
    ASSUME TurnInv, ReadUpstream
    PROVE  TurnInv'
<1>0. /\ sent \in Nat /\ seen \in Nat /\ Len(inbox) \in Nat /\ Len(upstream) \in Nat
      /\ Len(events) \in Nat /\ Holding \in {0, 1} /\ Returning \in {0, 1} /\ events \in Seq(Event)
  BY TurnTypes DEF TurnInv, TurnsOK
<1>1. /\ back.at = "read" /\ events # << >> /\ back' = [at |-> "observe", event |-> Head(events)]
      /\ events' = Tail(events)
      /\ inbox' = inbox /\ upstream' = upstream /\ sent' = sent /\ seen' = seen /\ impatient' = impatient
      /\ pump' = pump /\ open' = open /\ entries' = entries /\ ended' = ended /\ asks' = asks
  BY DEF ReadUpstream
<1>2. Head(events) \in Event /\ events' \in Seq(Event) /\ Len(events') = Len(events) - 1
  BY <1>0, <1>1, TailOf
<1>3. back'.at = "observe" /\ back'.event = Head(events)
      /\ back' \in [at : {"read", "observe", "write", "done"}, event : Event]
  BY <1>1, <1>2
<1>4. TurnsOK'
  BY <1>1, <1>2, <1>3 DEF TurnInv, TurnsOK
<1>5. Numbered'
  BY <1>1 DEF TurnInv, Numbered, Begun
<1>6. Booked'
  <2>1. ~ended
    BY <1>1 DEF TurnInv, Booked, Over
  <2> QED
    BY <1>1, <2>1 DEF TurnInv, Booked, Begun
<1>7. OneAtATime'
  <2> SUFFICES ASSUME ~impatient PROVE OneAtATime'
    BY <1>1 DEF OneAtATime
  <2>1. Holding' = Holding /\ Returning = 0 /\ Returning' = 1
    BY <1>1, <1>3 DEF Holding, Returning
  <2>2. AllOf(events', sent') /\ back'.event.turn = sent
    BY <1>0, <1>1, <1>3, QueueOf DEF TurnInv, OneAtATime
  <2> QED
    BY <1>0, <1>1, <1>2, <1>3, <2>1, <2>2 DEF TurnInv, OneAtATime
<1> QED
  BY <1>1, <1>4, <1>5, <1>6, <1>7 DEF TurnInv

\* The event ends the turn that is open.
LEMMA ObserveInv ==
    ASSUME TurnInv, Observe
    PROVE  TurnInv'
<1>0. /\ Holding \in {0, 1} /\ Returning \in {0, 1} /\ entries \in Seq(Entry) /\ open \in Turns
      /\ 0 \in Turns /\ back.event \in Event /\ back.event.turn \in Turns
  BY TurnTypes DEF TurnInv, TurnsOK, Turns
<1>1. /\ back.at = "observe" /\ entries' = Closed(entries, open, back.event.turn) /\ open' = 0
      /\ back' = [back EXCEPT !.at = "write"]
      /\ inbox' = inbox /\ upstream' = upstream /\ sent' = sent /\ seen' = seen /\ impatient' = impatient
      /\ pump' = pump /\ events' = events /\ ended' = ended /\ asks' = asks
  BY DEF Observe, Closed, Finish
<1>2. back'.at = "write" /\ back'.event = back.event
      /\ back' \in [at : {"read", "observe", "write", "done"}, event : Event]
  BY <1>1 DEF TurnInv, TurnsOK
<1>3. Begun' = Begun /\ Begun \in Nat /\ Tally(entries, open, Begun)
  BY <1>1 DEF Begun, TurnInv, Numbered, Booked
<1>4. entries' \in Seq(Entry) /\ Tally(entries', 0, Begun)
  BY <1>0, <1>1, <1>3, TallyClosed
<1>5. TurnsOK'
  BY <1>0, <1>1, <1>2, <1>4 DEF TurnInv, TurnsOK
<1>6. Numbered'
  BY <1>1, <1>3 DEF TurnInv, Numbered
<1>7. Booked'
  <2>1. ~ended
    BY <1>1 DEF TurnInv, Booked, Over
  <2> QED
    BY <1>1, <1>3, <1>4, <2>1 DEF Booked
<1>8. Returning = 1 /\ Returning' = 1 /\ Holding' = Holding
  BY <1>1, <1>2 DEF Returning, Holding
<1>9. OneAtATime'
  BY <1>1, <1>2, <1>8 DEF TurnInv, OneAtATime
<1>10. ~impatient' => OwnIn(entries')
  <2>1. ~impatient => open = 0 \/ back.event.turn = open
    BY <1>8 DEF TurnInv, OneAtATime
  <2> QED
    BY <1>0, <1>1, <2>1, OwnClosed DEF TurnInv
<1> QED
  BY <1>5, <1>6, <1>7, <1>9, <1>10 DEF TurnInv

\* The client sees it.
LEMMA WriteClientInv ==
    ASSUME TurnInv, WriteClient
    PROVE  TurnInv'
<1>0. /\ sent \in Nat /\ seen \in Nat /\ Len(inbox) \in Nat /\ Len(upstream) \in Nat
      /\ Len(events) \in Nat /\ Holding \in {0, 1} /\ Returning \in {0, 1} /\ back.event.turn \in Turns
      /\ NoEvent \in Event
  BY TurnTypes DEF TurnInv, TurnsOK, NoEvent, Event, Turns
<1>1. /\ back.at = "write" /\ seen' = back.event.turn
      /\ back' = [at |-> "read", event |-> NoEvent] \/ back' = [at |-> "done", event |-> NoEvent]
      /\ inbox' = inbox /\ upstream' = upstream /\ sent' = sent /\ events' = events /\ impatient' = impatient
      /\ pump' = pump /\ open' = open /\ entries' = entries /\ ended' = ended /\ asks' = asks
  BY DEF WriteClient
<1>2. back'.at \in {"read", "done"} /\ back' \in [at : {"read", "observe", "write", "done"}, event : Event]
  BY <1>0, <1>1
<1>3. TurnsOK'
  BY <1>0, <1>1, <1>2 DEF TurnInv, TurnsOK
<1>4. Numbered'
  BY <1>1 DEF TurnInv, Numbered, Begun
<1>5. Booked'
  <2>1. ~ended
    BY <1>1 DEF TurnInv, Booked, Over
  <2> QED
    BY <1>1, <2>1 DEF TurnInv, Booked, Begun
<1>6. OneAtATime'
  <2> SUFFICES ASSUME ~impatient PROVE OneAtATime'
    BY <1>1 DEF OneAtATime
  <2>1. Returning = 1 /\ Returning' = 0 /\ Holding' = Holding
    BY <1>1, <1>2 DEF Returning, Holding
  <2>2. /\ back.event.turn = sent /\ sent <= seen + 1 /\ open = 0
        /\ Len(inbox) + Holding + Len(upstream) + Len(events) + Returning <= sent - seen
    BY <1>1, <2>1 DEF TurnInv, OneAtATime
  <2>3. seen' = sent /\ Len(inbox) = 0 /\ Len(upstream) = 0 /\ Len(events) = 0 /\ Holding = 0
    BY <1>0, <1>1, <2>1, <2>2
  <2> QED
    BY <1>0, <1>1, <1>2, <2>1, <2>2, <2>3 DEF TurnInv, OneAtATime
<1> QED
  BY <1>1, <1>3, <1>4, <1>5, <1>6 DEF TurnInv

\* The handler finishes what is open and returns.
LEMMA FinishOpenInv ==
    ASSUME TurnInv, FinishOpen
    PROVE  TurnInv'
<1>0. entries \in Seq(Entry) /\ open \in Turns /\ 0 \in Turns
  BY TurnTypes DEF TurnInv, TurnsOK, Turns
<1>1. /\ Over /\ entries' = Closed(entries, open, 0) /\ open' = 0 /\ ended' = TRUE
      /\ inbox' = inbox /\ upstream' = upstream /\ sent' = sent /\ seen' = seen /\ impatient' = impatient
      /\ pump' = pump /\ back' = back /\ events' = events /\ asks' = asks
  BY DEF FinishOpen, Closed, Finish
<1>2. Begun' = Begun /\ Begun \in Nat /\ Tally(entries, open, Begun)
  BY <1>1 DEF Begun, TurnInv, Numbered, Booked
<1>3. entries' \in Seq(Entry) /\ Tally(entries', 0, Begun)
  BY <1>0, <1>1, <1>2, TallyClosed
<1>4. TurnsOK'
  BY <1>0, <1>1, <1>3 DEF TurnInv, TurnsOK
<1>5. Numbered'
  BY <1>1, <1>2 DEF TurnInv, Numbered
<1>6. Booked'
  BY <1>1, <1>2, <1>3 DEF Booked, Over
<1>7. OneAtATime'
  BY <1>1 DEF TurnInv, OneAtATime, Returning, Holding
<1>8. ~impatient' => OwnIn(entries')
  BY <1>0, <1>1, OwnClosed DEF TurnInv
<1> QED
  BY <1>4, <1>5, <1>6, <1>7, <1>8 DEF TurnInv

\* Every step keeps the account of turns.
LEMMA TurnStep ==
    ASSUME TurnInv, [SessionNext]_sessionVars
    PROVE  TurnInv'
<1>0. asks \in 0..MaxAsks /\ MaxAsks \in Nat
  BY SessionAssumption DEF TurnInv, TurnsOK
<1>1. CASE UNCHANGED wsVars
  BY <1>0, <1>1, TurnsUntouched DEF wsVars
<1>2. ASSUME NEW c \in Others, AskElsewhere(c) PROVE TurnInv'
  <2>1. asks' \in 0..MaxAsks
    BY <1>0, <1>2 DEF AskElsewhere
  <2> QED
    BY <1>2, <2>1, TurnsUntouched DEF AskElsewhere
<1>3. ASSUME NEW c \in Others, CancelElsewhere(c) \/ GoOn(c) PROVE TurnInv'
  <2>1. UNCHANGED wsVars
    BY <1>3 DEF CancelElsewhere, GoOn, wsVars
  <2> QED
    BY <1>1, <2>1
<1>4. CASE Pumping
  BY <1>4, ReadClientInv, TierKnownInv, BeginInv, WriteUpstreamInv, ReadUpstreamInv, ObserveInv,
     WriteClientInv DEF Pumping
<1>5. CASE CancelSession \/ UNCHANGED sessionVars
  <2>1. UNCHANGED wsVars
    BY <1>5 DEF CancelSession, sessionVars, wsVars
  <2> QED
    BY <1>1, <2>1
<1> QED
  BY <1>1, <1>2, <1>3, <1>4, <1>5, CreateInv, RespondInv, EndsInv, FinishOpenInv DEF SessionNext

\* Only a rate limit changes the bench.
LEMMA BenchStep ==
    ASSUME TierIInv, BenchKnown, [SessionNext]_sessionVars
    PROVE  BenchKnown'
<1>1. CASE bench' = bench
  BY <1>1 DEF BenchKnown
<1>2. CASE Observe
  <2>1. eventNow \in Nat
    BY SessionAssumption DEF eventNow, TierIInv, TierTypeOK
  <2>2. CASE \E limit \in Evidence :
               bench' = [until |-> DeriveCooldown(limit, eventNow), given |-> eventNow, on |-> limit]
    BY <2>1, <2>2 DEF BenchKnown
  <2> QED
    BY <1>1, <1>2, <2>2 DEF Observe
<1>3. CASE Pumping
  BY <1>1, <1>2, <1>3 DEF Pumping, ReadClient, TierKnown, Begin, WriteUpstream, ReadUpstream, WriteClient
<1>4. CASE UNCHANGED wsVars
  BY <1>1, <1>4 DEF wsVars
<1>5. CASE Create \/ (\E kind \in Kinds : Respond(kind)) \/ PumpEnds \/ BackEnds \/ FinishOpen
  BY <1>1, <1>5 DEF Create, Respond, PumpEnds, BackEnds, FinishOpen
<1>6. ASSUME NEW c \in Others, AskElsewhere(c) \/ CancelElsewhere(c) \/ GoOn(c) PROVE BenchKnown'
  BY <1>1, <1>4, <1>6 DEF AskElsewhere, CancelElsewhere, GoOn, wsVars
<1>7. CASE CancelSession \/ UNCHANGED sessionVars
  BY <1>1, <1>7 DEF CancelSession, sessionVars, wsVars
<1> QED
  BY <1>3, <1>4, <1>5, <1>6, <1>7 DEF SessionNext

\* Nothing has been sent at first.
LEMMA SessionInitInv ==
    ASSUME SessionInit
    PROVE  SessionIInv
<1>0. /\ sent = 0 /\ seen = 0 /\ impatient = FALSE /\ inbox = << >> /\ upstream = << >> /\ events = << >>
      /\ pump = [at |-> "read", turn |-> 0] /\ back = [at |-> "read", event |-> NoEvent]
      /\ open = 0 /\ entries = << >> /\ ended = FALSE /\ bench = NoBench /\ asks = 0
  BY DEF SessionInit
<1>1. TierIInv
  BY TierInitInv DEF SessionInit
<1>2. 0 \in Turns /\ 0 \in 0..MaxAsks /\ NoEvent \in Event
  BY SessionAssumption DEF Turns, NoEvent, Event
<1>3. /\ << >> \in Seq(Turns) /\ << >> \in Seq(Event) /\ << >> \in Seq(Entry) /\ Len(<< >>) = 0
  OBVIOUS
<1>4. TurnsOK
  BY <1>0, <1>2, <1>3 DEF TurnsOK
<1>5. Begun = 0 /\ Holding = 0 /\ Returning = 0
  <2>1. pump.at = "read" /\ back.at = "read"
    BY <1>0
  <2>2. Holding = 0 /\ Returning = 0
    BY <2>1 DEF Holding, Returning
  <2>3. PICK a \in Nat, b \in Nat : a = sent /\ b = Len(inbox) /\ a = 0 /\ b = 0
    BY <1>0
  <2>4. Begun = 0
    <3>1. Begun = a - b - 0
      BY <2>1, <2>3 DEF Begun
    <3> QED
      BY <2>3, <3>1
  <2> QED
    BY <2>2, <2>4
<1>6. Numbered
  BY <1>0, <1>3, <1>5 DEF Numbered
<1>7. Booked
  BY <1>0, <1>3, <1>5 DEF Booked, Tally
<1>8. OneAtATime /\ OwnIn(entries)
  <2>1. AllAre(inbox, sent) /\ AllAre(upstream, sent) /\ AllOf(events, sent) /\ OwnIn(entries)
    BY <1>0, <1>3 DEF AllAre, AllOf, OwnIn
  <2> QED
    BY <1>0, <1>3, <1>5, <2>1 DEF OneAtATime
<1> QED
  BY <1>0, <1>1, <1>4, <1>6, <1>7, <1>8 DEF SessionIInv, TurnInv, BenchKnown

-----------------------------------------------------------------------------
(* What holds of the session and of the catalog. *)

\* The inductive invariant holds in every reachable state.
THEOREM SessionIInvHolds == SessionSpec => []SessionIInv
<1>1. SessionInit => SessionIInv
  BY SessionInitInv
<1>2. SessionIInv /\ [SessionNext]_sessionVars => SessionIInv'
  BY TierStep, TurnStep, BenchStep DEF SessionIInv
<1> QED
  BY <1>1, <1>2, PTL DEF SessionSpec

\* One caller at most fetches the catalog, and every turn that reached the tracker has
\* one log entry, written or open, none of them open once the handler has returned.
THEOREM SessionInvHolds == SessionSpec => []SessionInv
<1>1. SessionIInv => SessionInv
  <2> SUFFICES ASSUME SessionIInv PROVE SessionInv
    OBVIOUS
  <2>1. bench.until \in Nat
    <3>1. CASE bench = NoBench
      BY <3>1 DEF NoBench
    <3>2. CASE bench # NoBench
      <4>1. PICK limit \in Evidence, now \in Nat :
               bench = [until |-> DeriveCooldown(limit, now), given |-> now, on |-> limit]
        BY <3>2 DEF SessionIInv, BenchKnown
      <4> QED
        BY <4>1, CooldownAsTold
    <3> QED
      BY <3>1, <3>2
  <2>2. SessionTypeOK
    BY <2>1 DEF SessionIInv, TierIInv, TurnInv, TurnsOK, SessionTypeOK
  <2>3. OneFetch
    BY FlightIsOne DEF SessionIInv
  <2>4. LoggedOnce
    BY DEF SessionIInv, TurnInv, Booked, Tally, LoggedOnce, Logged, Count
  <2> QED
    BY <2>2, <2>3, <2>4 DEF SessionInv
<1> QED
  BY <1>1, SessionIInvHolds, PTL

\* A caller that is not canceled is never given the error of one that is, neither while
\* it waits for the other's fetch nor from the cache.
THEOREM CancelStaysPrivateHolds == SessionSpec => []CancelStaysPrivate
<1>1. SessionIInv => CancelStaysPrivate
  BY DEF SessionIInv, TierIInv, CancelKnown, CancelStaysPrivate
<1> QED
  BY <1>1, SessionIInvHolds, PTL

\* If the client waits for each turn to end, every answer is booked to its own turn.
THEOREM AnsweredByOwnHolds == SessionSpec => []AnsweredByOwn
<1>1. SessionIInv => AnsweredByOwn
  BY DEF SessionIInv, TurnInv, OwnIn, AnsweredByOwn
<1> QED
  BY <1>1, SessionIInvHolds, PTL

\* A bench lasts as the rate limit that it was given for tells: by its first telling
\* header, else by the earliest in its body, else by its wording, each value clamped, for
\* every mix of numbers, dates and texts.
THEOREM BenchedAsToldHolds == SessionSpec => []BenchedAsTold
<1>1. SessionIInv => BenchedAsTold
  <2> SUFFICES ASSUME SessionIInv, bench # NoBench PROVE BenchedAsTold
    BY DEF BenchedAsTold
  <2>1. PICK limit \in Evidence, now \in Nat :
           bench = [until |-> DeriveCooldown(limit, now), given |-> now, on |-> limit]
    BY DEF SessionIInv, BenchKnown
  <2>2. bench.until = DeriveCooldown(limit, now) /\ bench.given = now /\ bench.on = limit
    BY <2>1
  <2> DEFINE headers == {i \in 1..Len(limit.headers) : Says(limit.headers[i])}
  <2> DEFINE fields == {v \in limit.body : Says(v)}
  <2> DEFINE until == DeriveCooldown(limit, now)
  <2>3. \/ \E i \in headers : (\A j \in headers : i <= j) /\ until = Told(limit.headers[i], now)
        \/ /\ headers = {}
           /\ \E v \in fields : until = Told(v, now)
           /\ \A v \in fields : until <= Told(v, now)
        \/ headers = {} /\ fields = {} /\ until = now + Defaults[limit.wording]
    <3>1. CASE FirstHeader(limit, now, until)
      BY <3>1 DEF FirstHeader
    <3>2. CASE NoHeader(limit) /\ EarliestInBody(limit, now, until)
      BY <3>2 DEF NoHeader, EarliestInBody
    <3>3. CASE NoHeader(limit) /\ (\A v \in limit.body : ~Says(v)) /\ until = now + Defaults[limit.wording]
      BY <3>3 DEF NoHeader
    <3> QED
      BY <3>1, <3>2, <3>3, CooldownAsTold
  <2> QED
    BY <2>2, <2>3 DEF BenchedAsTold
<1> QED
  BY <1>1, SessionIInvHolds, PTL
=============================================================================
