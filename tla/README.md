# A TLA+ development of codex-auth-broker

codex-auth-broker is an HTTP and WebSocket proxy in Go. It holds one or more
Codex logins, refreshes their tokens, spreads client requests over them with
failover, limits how many run upstream at once, and keeps a redacted log of what
it served. This directory holds TLA+ models of the parts whose correctness
depends on interleaving, time and failure, the TLC runs that check them on small
instances, and TLAPS proofs of the safety of all of them, for every size; two properties
of the response streams, which speak of what upstream meant, stay with TLC.
`PROJECT.json` maps every definition to the source lines it models and lists
runs, mutants, findings, hazards and theorems.

## The system and its parts

| Part | Source | State | Operations | Hard because |
|---|---|---|---|---|
| Account pool | `accounts.go` | per account `cooldownUntil`, `nextProbe` (own mutex); `active` index (pool mutex) | `available`, `cool`, `probeDue`, `clearCooldown`, `pick`, `preferred`, `soonestReset` | two levels of locks; `now` is read outside them; benches and releases run during a scan |
| Dispatch loops | `proxy.go`, `websocket.go`, `capabilities.go`, `alpha_search.go`, `dashboard.go` | per request: attempt, account, last failure | up to *n* attempts; bench on 429 and on auth errors; release on success; 429 with `Retry-After` at the end | three loops that differ in detail; answers arrive out of order |
| Token refresh | `auth.go`, `lock_*.go` | `auth.json`, mutex, flock | `current`: lock, read, exchange, write, rename | single-use refresh tokens, several processes, crashes, cancellation |
| Upstream limiter | `limiter.go` | buffered channel, `queued` gauge | `acquire`, `release` | three events race in one `select` |
| Server lifecycle | `server.go`, `main.go` | `draining`, `active`, `done`, the work context | `wrap`, `drain`, `serveHTTP`, closing the log | handlers net/http does not track; two timeouts |
| Request log | `requests.go`, `persist.go` | ring of entries, JSONL file, latched warning, `nextID` | `add`, `append`, `repairTail`, `compact`, `clear`, `restore` | partial writes, rename, restart |
| Tier catalog | `service_tiers.go` | per account catalog, expiry, in-flight fetch | `accountTierModels` | single flight with cancelable waiters |
| Voice calls | `realtime.go` | registry with reservations and expiry | `reserve`, `finish`, `lookup` | cap shared by pending and live calls |
| Client keys | `keys.go` | cached entries, mtime, size, last check | `resolve`, `currentEntries` | throttled reload of a file others edit |
| WebSocket session | `websocket.go` | the open turn | two pumps, `begin`, `observeServerEvent`, `finishOpen` | events and turns matched by arrival only |
| SSE framing and aggregation | `sse.go`, `proxy.go` | line and event buffers, items retained, usage | `feed`, `flushLine`, `flushEvent`, `finish`, `aggregateResponsesSSE`, `copyStreamingResponse` | any chunking, a size limit, breaks anywhere |
| Chat translator | `chat_completions.go` | role, tools, text seen, finished | `consume`, `finish`, `fail` | repeated content, one end |
| Images | `images.go` | items seen, images collected | `parseImageSSEStream`, `streamOneImage`, `writeImageResults` | several upstream calls behind one answer |
| Cooldown derivation | `accounts.go` | none | `deriveCooldown` | delays, dates and timestamps look alike |
| Others | normalization, pricing, usage, pages, configuration | none that lasts | pure functions and I/O | |

How they interact: `wrap` admits a request; the handler resolves its client key,
takes a slot of the limiter, and runs a dispatch loop, which picks an account
from the pool, asks that account's `authManager` for a token, may consult the
tier catalog, and calls upstream. The answer is framed or translated, the slot is
released, the request is added to the log, and `wrap` counts the handler out.
`serveHTTP` waits for that count before `runServe` closes the log. All of it is
goroutines sharing memory under mutexes, atomics and channels; `auth.json` and
its lock file are shared between processes too.

What makes each part correct:

- pool and dispatch: no account is probed more than once per interval; the pool
  never stays dark on stale evidence; selection is sticky; a client that waits as
  told is served; every request is answered;
- refresh: one refresher; no spent token is presented; the live token is not lost
  by the broker's own doing; no redundant rotation; no call hangs;
- limiter: no slot leaks, idles or is granted past the cap; first come, first
  served; every wait ends;
- lifecycle: `done` is closed once and on time; nothing is cut short before its
  time; the log is closed behind the last entry; a stop ends;
- log: a crash or failed write loses at most the entry being written, nothing is
  lost without a warning, IDs stay unique across restarts, the file never grows
  past its limit, and a report reads one state of it;
- catalog, calls, keys: no waiter hangs, no canceled fetch is believed, the cap
  is exact, a rotation takes effect within the interval, a request is attributed
  to the client it was admitted as, a Location works until it expires;
- session: every turn is logged once and answered by its own response, and the
  session ends; a bench lasts as long as upstream said;
- streams: events are framed whole whatever the reads, the client gets every part
  of the answer once and is told once how it ended, and the log agrees.

## Modules

| Module | Models | Extended by |
|---|---|---|
| `AccountPool` | the operations of `account` and the reading ones of `accountPool` | `Dispatch` |
| `Dispatch` | requests of four kinds running the loops over the pool | `DispatchProofs`, `MCDispatch` |
| `AuthRefresh` | `authManager.current` for callers in several brokers | `AuthRefreshProofs`, `MCAuthRefresh` |
| `Limiter` | `acquire` and `release` | `ServerDrain`, `LimiterProofs` |
| `ServerDrain` | handlers, limiter and log under `serveHTTP` | `ServerDrainProofs`, `MCServerDrain` |
| `RequestHistory` | what the request log promises, abstractly | `RequestLog`, by refinement |
| `RequestLog` | `requestLogStore` and `requestLogFile` across crashes | `RequestLogProofs`, `MCRequestLog` |
| `KeyRegistry` | the keys file and its cached reading | `LiveCalls` |
| `LiveCalls` | voice requests behind client authentication | `LiveCallsProofs`, `MCLiveCalls` |
| `TierCatalog` | `accountTierModels` | `WebSocketSession` |
| `Cooldown` | `deriveCooldown`, as operators | `WebSocketSession` |
| `WebSocketSession` | pumps and tracker of a session, with both of the above | `WebSocketSessionProofs`, `MCWebSocketSession` |
| `SseFramer` | the framer, and a reference reading of a stream | `ResponseStream` |
| `ChatTranslator` | the streaming chat translator, as operators | `ResponseStream` |
| `ResponseReaders` | aggregation, usage tracker, image reader, as operators | `ResponseStream` |
| `ResponseStream` | a handler from the first byte of upstream to the log entry | `ResponseStreamProofs`, `MCResponseStream` |

Definitions that begin with a `Mutant of` comment are plausible bugs; they are
used only to show that a property can fail.

### AccountPool and Dispatch

One step is one critical section, together with the read of the clock just before
it. Whatever can block lies between two steps: the pool mutex, the token, the
upstream call. `pick` is therefore a scan of one account per step, under the pool
mutex, against the `now` its request read earlier (`seen`), while other requests
`Cool` and `ClearCooldown` accounts on either side of it. `pc` follows the code:
`loop` (the head), `lockPool`, `scanAvailable` and `scanProbe` (the two loops of
`pick`), `refused` (`errAllCoolingDown`), `auth` (`current`), `sent` (upstream),
`session` (an accepted WebSocket). The four kinds differ where the code does:

- `responses` benches a broken login from `seen`; `websocket` and `capability`
  read the clock again;
- `responses` and `websocket` report a rate limit over an auth error;
  `capability` reports whichever came last, with its own deadline;
- `bestEffort` makes one attempt, falls back on the active account, and neither
  benches nor releases.

Time is a natural number of units, and `Zero` is Go's zero `time.Time`.
`Cooldowns` is the set of bench lengths `deriveCooldown` may return; how it reads
headers and bodies is in `Cooldown`. `Second` is the number of
units in the second that `Retry-After` is cut to. `soonestReset` is one step: it
is called when a request has already lost, and its reads only feed a header.
The two readings of the clock in the auth bench of the `websocket` and
`capability` loops, and in the rate-limit bench of the latter, are one. The tier
catalog, which `TierCatalog` models, lies between `auth` and `sent`.

### AuthRefresh

A refresh token is its generation number, `live` the one the server accepts. The
OAuth server is external: it exchanges a live token, with or without a successor,
and rejects a spent one. A caller may fail or be canceled at every check the code
makes, the exchange may take effect without its answer arriving
(`ResultDropped`), and a broker may crash anywhere (`Crash`), which frees its
flock. `FlockWorks` distinguishes `lock_posix.go` from `lock_other.go`; for the
latter `OwnershipAssumption` states the documented rule that one broker owns the
login. `lost` records that a failure after the exchange dropped the successor:
the code cannot prevent that, and the properties say that nothing else goes wrong.

### Limiter

The slots are a buffered channel. Go's runtime keeps senders parked on a full
channel in order, and a receive hands the freed slot to the first; the model
keeps the channel's length and that queue, because both `NoOvertaking` and the
absence of idle slots rest on it. `acquire` is split where others can run: fast
path, counting as queued, the second `select`, being parked, and the deferred
decrement. `MaxSlots = 0` is the nil limiter.

### ServerDrain

Handlers go through admission, rejection or the limiter, upstream work, release,
log entry and departure, in the order of the deferred calls of the code: an HTTP
handler releases its slot and then records; a Responses WebSocket records its
open turn (`finishOpen`) and then releases. `serveHTTP` is a second process:
stop, `drain`, `Shutdown`, waiting for `done`, cancellation, the cleanup limit,
return, and the deferred `persist.close`. `Shutdown` is external: it returns when
no connection it tracks is active, hijacked ones excepted, possibly with the
error of a listener that would not close. A session is taken to have an open turn
when it ends. The voice sideband, which hijacks its connection but records like
an HTTP handler, is not among the handlers.

### RequestHistory and RequestLog

`add` and `clear` run under the store's mutex and the file's; what can come
between two of their steps is a crash, or a report, which holds only the file's
read lock. A step is therefore what lies between two system calls after which a
crash makes a difference. Every system call may fail: a write may leave nothing,
part of a line, or a whole line without its newline (and the truncation that
should undo it may fail too); the rename, the reopening and the directory sync of
a compaction may each fail. A line is the ID and length of its entry, so that the
limit, the missing newline and the compaction target are exact to the byte.
What follows the whole entries is counted in bytes (`tail`): an interrupted line of any
length below its entry's, or minus one for a missing newline. `Files` are what an
earlier version or a larger limit may have left: IDs increase, and the newest entry fits
into the new limit together with the interrupted line behind it (`NewestFits`). A file
that is nothing but an interrupted line, longer than the limit or not, is among them: its
compaction finds nothing to keep (`persist.go:245`) and numbering begins at 1, which is
right for such a file. Crashes are of the process: what it wrote is there. `CloseLog` is `runServe`'s, after which late handlers still add.

`RequestHistory` knows no file, limit or ring. Its history grows at its new end,
loses only its oldest members (never all of them, but by a clear), an entry that
is not kept leaves a warning, only a clear takes the warning back, and a crash
loses at most the entry being recorded. `ImplementsHistory` is the refinement:
`history` is the IDs on file, `pending` the entry in hand. The warning lives in
memory, so `Stop` drops it: a restart forgets that history was incomplete. `Clear` may
empty the history and keep list and warning, as a truncation that cannot be synced does;
no property asks for more there than that the numbering goes on.

### KeyRegistry and LiveCalls

A request is authenticated once (`Authenticate`), which may reload the keys file;
then its log entry is begun, it is admitted or refused, and it opens a voice call
or joins one. The keys file is edited, broken, and made unreadable beside it. A
keys file is always configured, and `Implicit` may add `--api-key`; the mode
without keys, in which everybody is admitted, has nothing to check. `Size` keeps
of a file's length only that replacing a key may leave it the same. `Loadable`
excludes the one edit that the code cannot see: a second file of the same length
within one tick of the time stamps. An offer is its media type, its parts and the
fields of its session, each with a value that is acceptable or not;
`DecodeLiveCall` gives the fields that are forwarded. The upstream names every
call differently. Slot, dispatch and handshakes are in other modules and here
either succeed or fail.

### TierCatalog, Cooldown and WebSocketSession

The session's client pump is one of the `TierCallers`; the others are requests
that ask for the same account's catalog, fetch it and are canceled. A pump that
waits for the catalog does so before it begins the turn, as in
`normalizeWebSocketClientEvent`. Each pump has its reads, its critical section in
the tracker and its writes as separate steps; either may end at a read or a write
and cancels the session. The client may pipeline (`impatient`): then the code
books the late answer of the first turn to the second, which the log cannot tell
apart, and `AnsweredByOwn` speaks of clients that wait. The upstream answers in
order, each turn with one terminal event: the code takes `error` and `response.failed`
both for the end of a turn, and an upstream that sent both would end the next turn too.

`Cooldown` counts in halves of a second so that truncation shows, with Unix time
and delays on one scale and `EpochFloor` between them. `Evidence` is what a rate
limit may carry: the values of the headers in the order they are read, a finite
set of values in the body, and the wording that decides the default. `BenchedAsTold`
states the rule of `docs/multi-account.md:112-124` over what the values mean (`Moment`),
not over how they are parsed: the first telling header, else the earliest in the body,
else the wording. "Every value is clamped", and it is before values are compared: a
timestamp that is already past counts as the shortest bench, and is therefore the
earliest future reset, of which the comment at `accounts.go:240` speaks, also beside
later ones. `Limits` has that case.

### SseFramer, ChatTranslator, ResponseReaders and ResponseStream

`ResponseStream` is one upstream response in one of six modes: relayed,
aggregated, aggregated into a chat completion, translated into a chat stream, one
streamed image, several collected images. Bytes arrive in reads of any size; the
framer works byte by byte; a JSON text is two bytes, a name and a closing brace,
so that it can be cut and joined over data lines; `Event` says what each text
means. `Words` is the set all strings are taken from (TLC gives it `STRING`), and
`WellTyped` says which fields an event of each type has, as the decoders of the
code fill them. The reference reading of `SseFramer` knows no framer: at each
position that ends a line it takes the text since the last line end, and says which
events are over and which one is open. The stream may end or fail at any point and the client may leave, after
which a write fails or seems to succeed. Consumers are operators from record to
record: they have no steps of their own, because each runs within one `feed`.
The error of a relay is the tracker's before the relay's, as in
`copyStreamingResponse`: a client or upstream that goes away in the middle of an
event is therefore logged as a malformed event.

What upstream is assumed to do, because the translator relies on it: the deltas
of a part make up the whole, tool calls are announced in their order, and an item
is named the same way throughout. Two things that the translator does are in the model
and in `ClientGetsTheAnswer`: the aggregated completion writes `{}` for a call without
arguments, where the stream writes nothing; and an empty arguments delta counts as
arguments written (`chat_completions.go:934`, unlike an empty text delta at `:913`), so
that what is told later only as a whole is lost. The property names exactly the calls to
which that happens (`EmptyDelta`) and requires everything else; no line of the repository
promises those arguments. Image readers do not know `response.done`, which all others
take for the end; the scripts end image streams with `response.completed`. An absent
status counts as completed for an image, an absent type of event or a negative index of a
partial image fails the stream.

## Runs

| Run | Checks | Instance |
|---|---|---|
| `pool` | `DispatchInv`, `RetryAfterFindsAnAccount`, `RefusedOnlyOnRecentEvidence`, `LeavesActiveOnlyWhenCooling`, `ProbesSpaced` | 2 accounts, 2 requests of three kinds, clock to 3, a second of 2 units |
| `answered` | `EveryRequestAnswered` | 2 accounts, 2 requests of all kinds, a bench of 2, a probe after 1, clock to 1, fair |
| `brokers` | `AuthInv`, `OneRefresher`, `LoginNeverStranded`, `NoSpentToken`, `NoRedundantRotation`, `EveryCallReturns` | 3 callers in 2 brokers, 3 rotations, fair |
| `shutdown` | `DrainInv`, `LimiterInv`, `LogClosedBehindHandlers`, `SlotsReturned`, `NotCutShort`, `NoOvertaking`, `EveryWaitEnds`, `StopEnds` | 3 HTTP requests, 1 WebSocket, 1 slot, fair for `serveHTTP` and for waiters |
| `requestlog` | `LogInv`, `MemoryMatchesFile`, `ReportIsConsistent`, `NeverGrowsPastLimit`, `ImplementsHistory` | a limit of 8 bytes, entries of 2 to 4, 8 and 9, 7 earlier files, a ring of 3, IDs to 7 |
| `access` | `LiveInv`, `AttributedAsAdmitted`, `LocationUsable`, `RotationTakesEffect` | 2 handlers, 2 tokens, 3 key files, 1 call at a time, clock to 3 |
| `sessions` | `SessionInv`, `CancelStaysPrivate`, `AnsweredByOwn`, `BenchedAsTold`, `SessionEnds`, `EveryLookupReturns` | 2 turns, 1 other caller of the catalog, 5 kinds of rate limit, fair |
| `streams` | `StreamInv`, `EndsOnce`, `OneIdentity`, `ClientGetsTheAnswer`, `LoggedAsServed` | scripts of up to 8 events in 6 modes and 2 ways of writing, reads of 1 to 4 bytes |
| `authbench`, `retryafter`, `probeclears`, `overtaken` | one documented claim each, violated | 1 or 2 accounts, 2 requests |

Run one with `tlc -config MCDispatch_pool.cfg MCDispatch`.

Why the bounds are enough to be interesting. Two requests are one that scans or
waits and one that changes the pool under it; each goroutine serves any number of
requests in turn, so longer histories happen. `pool` leaves `capability` out: whatever such a
request does to the pool, a `websocket` request does too, and what its clients are told
is not in `RetryAfterFindsAnAccount`. With `ProbeInterval = 2`, a
cooldown of 3 outlives a probe interval, and a clock of 3 leaves room for a bench,
a probe and what follows. Four handlers on one slot make two or three parked ones
whose order matters. Three callers in two brokers make one pair that shares a
mutex and one that shares only the file lock; `MaxToken` bounds rotations, three
of which allow a spent token to be spent again. The safety properties of these
modules, and of those of the next three runs, are proved without the bounds, and so
are the first three of `streams`.

A log of 8 bytes holds two or three entries, so that every append is near the
limit and the target of 6; 8 fits exactly and 9 not at all. The earlier files
are within the limit and past it, end in a newline, without one, or in interrupted lines
of several lengths, and one has no whole entry to keep. Seven IDs allow a crash, a compaction
and a clear in one history. In `access` the registry is full with one call, a call
lives one unit and a check of the keys file is valid for two, so that calls expire
under their owners and edits fall on either side of a check; two of the three key
files have the same length. In `sessions` a second turn is enough to meet the
first one's answer, and a lifetime of one unit lets a catalog expire while somebody
waits; one request of the catalog by the other caller (`MaxAsks`) leaves out an endless
stream of fetchers that are all canceled, under which a waiter need not return. In
`streams` a limit of seven bytes is met exactly by one event and exceeded by valid JSON in
others, an image stream exceeds its limit by one byte, reads of one to four bytes cut events in every place, and the scripts
tell the same answer by deltas, by items, by the final response and by several of
these, besides failures of every kind.

Fairness. `answered`: each request keeps taking steps (goroutines are scheduled;
the upstream client's `cfg.timeout`, ten minutes by default, and the refresh
client's 30 s end every call; a timeout of 0 switches the first one off and the
property then rests on the upstream), and a goroutine blocked on the pool mutex
gets it if it is free again and again (`sync.Mutex`'s starvation mode). Nothing
is assumed of sessions or of time. `brokers`: the same for callers, with strong
fairness for mutex and flock. A caller blocked in either has no way out but the
lock (`syscall.Flock` is not interrupted, and the context is looked at afterwards), so
that `EveryCallReturns` rests on every other caller's releasing it. `shutdown`: `serveHTTP`'s steps and timers, and a
waiter's own steps, its queue timer among them, never a release or the end of a
handler's work. `sessions`: goroutines run on, a fetch ends at its ten seconds,
and a canceled context ends a pump's read or write; neither peer has to do
anything.

Deadlock is checked everywhere except in `ServerDrain`, whose process exits, and
in `WebSocketSession` and `ResponseStream`, which end.

### What the violated runs show

- `authbench`: `dispatchUpstream` counts the two-minute auth bench from a time
  read before the refresh. A refresh that waits longer than that leaves the
  account available, against `docs/multi-account.md`.
- `retryafter`: the capability loop advertises the reset of the account it tried
  last, not the soonest of the pool.
- `probeclears`: best-effort calls can be the probe of an interval and clear
  nothing when they succeed.
- `overtaken`: a success erases a bench that was recorded after the request was
  sent, so it does not prove what `clearCooldown`'s comment says.

## Proofs

Each `...Proofs` module proves `Spec => []Inv` for an inductive invariant and
derives the other properties from it. All are for any number of accounts,
requests, callers, brokers, slots, handlers, tokens, entries and turns, and for
any intervals, cooldowns, limits and clock bounds. The assumptions are those the
modules name: a non-empty pool and positive intervals, a bench for auth errors no
longer than the probe interval, `NoRequest` and `None` outside the sets they mark
the absence of, callers and handlers finite, one broker per login without flock,
and the shape of the inputs (key files, offers, earlier logs, rate limits).

- `DispatchProofs`. `DispatchInv` adds to the types that attempts stay below *n*
  inside the loop; that exactly the request in a scan holds the pool mutex;
  `ClockInv`: `nextProbe` is at most an interval after the account was last
  touched, and nobody carries a time from the future; `SpacingInv`: the
  reservation of the last probe stands, or the account was released since and is
  not benched past its next probe; `ScanInv`: the accounts a scan has passed are
  cooling, or were released since it began. `ScanInv` is what makes a refusal
  mean something although the accounts change under the scan, and `SpacingInv`
  what survives a release and a new bench between two probes. The step lemmas
  treat every action through its effect on the pool (`EffectOfStep`: it benches,
  releases, probes, looks, or leaves the pool alone). `CandidateCovers` shows
  that *n* rounds from any active index meet every account. `RetryAfterHonest`
  needs that the cap is no shorter than the wait for a probe and that cutting to
  whole seconds loses less than one.
- `AuthRefreshProofs`. `LockInv` (who is where holds what) gives mutual exclusion;
  it covers `FlockWorks = FALSE`, which no run instantiates, from the ownership
  assumption. `RefreshInv` says what the one caller inside knows: it holds the
  token on disk, the disk is stale, and what it got is live.
  `LoginNeverStranded` is inductive only together with both.
- `LimiterProofs`. `LimiterInv` counts: slots are the callers granted or holding,
  the gauge those waiting, the queue is parked callers each once, and a parked
  caller means a full channel. Cardinality lemmas carry the counts; `NoIdleSlot`
  gives `NoOvertaking`.
- `ServerDrainProofs`. `DrainInv` composes `LimiterInv` (kept because every step
  is a limiter step or leaves the limiter alone) with `DoneMeansEmpty` (the count
  and the closing of `done`), `StageInv`, `PhaseInv` and `RecordInv`; the shutdown
  properties follow in the phases after `served`.

- `LiveCallsProofs`. `LiveInv` is inductive with its own parts: `CheckedIsSeen`
  (a check that came after the last edit has seen it) carries `RotationTakesEffect`
  through throttled checks, bad files and unreadable ones, and `PublishedIsThere`
  bridges the moment between a call's publication and its Location for
  `LocationUsable`. `CapKept` counts reservations by their handlers. The inductive
  `LiveIInv` is `LiveInv` with `AttributedAsAdmitted`, `LocationUsable` and the
  finiteness of the registry, which the count needs.
- `RequestLogProofs`. `LogIInv` adds to the types and the order of IDs what is in
  hand between two system calls (`InHand`: the newest entry, which the file holds
  only after a rename), that the last entry fits with what is behind it, so that it is read
back after a restart (`LastFits`, which rests on `NewestFits`), how ring and file will end once the
  step under way is over (`EndAlike` over `RingToBe`), and that a report excludes
  those who write (`ReportLocks`). Sums of lengths and suffixes are recursive, so
  the facts about them (`Bytes` of a longer sequence, of a suffix; what compaction
  keeps fits the target) are proved from a smallest counterexample, which needs no
  induction theorem with an operator parameter. `LogImplementsHistory` maps each step of
  the log to one of `RequestHistory` (`Accept`, `Store`, `Settle`, `Trim`, `Warn`,
  `Clear`, `Stop`) or to a stutter.
- `WebSocketSessionProofs`. The catalog needs that the caller in flight is known, and
  that the error of a canceled caller is its own and has expired wherever the cache
  holds it (`FlightKnown`, `CancelKnown`). The tracker needs that turns reach it in the order of their
  numbers (`Numbered`), that each is counted once in the log or open (`Booked`), and
  that while the client waits at most one is under way, in one place between inbox
  and client (`OneAtATime`, `OwnIn`). `BenchKnown` says that a bench was derived from its
  evidence, and the cooldown lemmas lead from `DeriveCooldown` to what the values
  tell (`ParseResetTells`), and to the first and the least of them.

- `ResponseStreamProofs`. Loops over numbers are proved by induction stated with sets
  (`UpTo`: a set that holds 0 and with every member its successor holds all), so that no
  theorem with an operator parameter is needed; `LoopRuns` and `ReadingIs` do so for
  recursive functions. `Framed(f, d, text, q)` is the core of the framer: fed up to
  position `q`, its line is the text since the last line end, its data the event that
  the reference has open there, and `d` what the reference has over. `FeedLineIs` keeps
  it over one line of a chunk, whatever the cut, and `FinishIs` shows that the end of a
  stream equals two more line ends. For the chat translator, `Speaks` (the stream so far
  is proper, has no end, and bears the translator's id from its first chunk on, which
  gives the role) is kept by every method, the loops over a response's items and parts
  included, until `Fail` or `Finish` makes it `Ends` (one finish or one error, then
  `[DONE]`; an error only if the translator has failed). `StreamIInv` adds where the
  loop stands, that a relay is level with its reads, and what each kind of client has
  been sent at each place of its handler; every action keeps it. It holds for any
  streams, events, sizes of reads and limits. The assumptions are that streams are
  texts of the six modes and that events have the fields of their type.

Only model-checked: the liveness properties `EveryRequestAnswered`,
`EveryCallReturns`, `EveryWaitEnds`, `StopEnds`, `SessionEnds` and
`EveryLookupReturns`, since temporal reasoning under fairness is beyond the
prover; and `ClientGetsTheAnswer` and `LoggedAsServed` of `ResponseStream`. These compare
with `answer`, `good` and `usage` of a stream, which a script states beside its bytes:
for a stream of any bytes they say nothing unless that meaning is defined from the
events first, and then the whole translation has to be compared with it by induction
over the events. What a log entry of success guarantees for any stream is in
`EndsOnce`: the client has not been told an error.

## Not modelled, and what is left

Left out for good: the rewriting of request bodies (`normalizeResponsesBody`,
`translateChatCompletionsBody`), raster and multipart decoding, floating-point
prices, report formatting, static pages, configuration and doctor. They keep no
state and run alone; a model of them would repeat their tables.

Seen while modelling and not pursued as a run: `docs/api.md` says that clearing
the log does not reset the lifetime counter `total_seen`; it is `nextID`, which a
restart takes from the entries on file, so that a clear followed by a restart does
reset it. `persist.go:394` says that numbering survives restarts: it does not when
`request_log_max_bytes` is lowered below the newest entry and the interrupted line behind
it, which `NewestFits` excludes. Then nothing on file is retained and numbering restarts
at 1; if the newest entry alone fits, the repair of the interrupted line brings it back,
and the new entries follow it with lower IDs, which may come to repeat its own.
`docs/multi-account.md:137` spaces the probes upstream sees; `ProbesSpaced` spaces the
reservations, by the time their requests carry: two requests delayed differently behind
them may reach upstream closer together.

Worth proving next: that the chunks of a part, put together, are the part
(`ClientGetsTheAnswer` for a stream of deltas), from an invariant that relates
`contentSeen` and `argumentsEmitted` to what was sent. It needs the meaning of a
stream as a function of its events, which the scripts replace so far.
