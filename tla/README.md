# Manooch: TLA+ specifications and proofs

Manooch reads market data of one venue over websockets and keeps the last value
of every stream in Redis under a key with a TTL. Whatever goes wrong has to be
visible to a consumer: a key that is present is fresh, and its envelope says
whether it can be trusted. These specifications model the code that makes that
true: the health tracker, the REST fallback, the supervision of sockets and
streams, the circuit breaker, the rate limiter, the metadata refresher, the life
of the feed process, and the venue adapters from the configuration file to the
messages they hand on.

`PROJECT.json` maps every definition to the lines it translates, lists the runs,
the mutants that show each property can fail, the hazards and the theorems.

## The system

| Component | State | Operations | Talks to |
|---|---|---|---|
| health tracker (`internal/health`) | a record per stream and per socket, skew, leaks, metadata gate; cached verdicts of streams, instruments, venue | thirteen reports, the heartbeat, `Status` | called by everyone; writes health keys |
| REST fallback (`internal/fallback`) | `active`, `expired`, a poller goroutine per stream on REST | notification, sweep, engage, poll, `Note`, stop | tracker, publisher, `Process.KeyExpired`; `Note` is called by the streams |
| socket supervision (`internal/supervisor`) | connection, its age, recent expiries, `redial` | dial loop, session, read loop, `noteExpiry`, `closeConn` | breaker, tracker, streams |
| stream supervision (`internal/supervisor`) | `pending`, `wake`, the `Task` | `deliver`, `take`, `publish`, `restart`, `Task.loop` | read loop, tracker, watcher, publisher |
| circuit breaker, backoff (`internal/transport`) | failures, `openedAt`, `probing` | `Retry`, `Fail`, `Succeed` | one socket loop each |
| rate limiter (`internal/ratelimit`) | a theoretical arrival time per kind | `Allow`, `reserve`, `sleep` | adapters: dials, polls, metadata |
| publisher (`internal/publish`) | a sequence number per key | `Publish` | Redis |
| metadata refresher (`internal/metadata`) | last values, the `ready` channel, a ticker | `Run`, `refresh`, `WaitReady` | venue, tracker, publisher, feed |
| feed (`cmd/manooch-feed`) | the Redis client, the admin server, a `WaitGroup` | planning, start order, gate, shutdown | all of the above |
| venue adapters (`internal/adapter`) | none, but for the KuCoin connection: acks outstanding, watchdog, ping goroutine | symbols, planning, `Dial`, `Parse`, `FetchOnce`, `FetchMetadata` | venue, limiter; called by sockets, fallback, refresher |
| websocket connection (`internal/transport`) | the socket | `Read`, `Write`, `Close` | adapters, socket loop |
| configuration, core types (`internal/config`, `internal/core`) | none | `Load`, `Streams`, `TimeToLive`; canonical symbols | read by everyone at start |
| prices (`pkg/price`) | none | parse and print fixed-point decimals | adapters |
| observability, tools, generated schema | metrics only | printing | |

What is hard in it: nearly every component decides under its mutex and acts
after releasing it (reports to the tracker, health writes, closing a connection,
signalling a goroutine), and those actions of different goroutines cross.
Goroutines cannot be killed, so some outlive what they served. Redis loses
writes, or reports a failure of one that landed, and its expiry notifications
are best effort. Time matters in the breaker, the limiter, the connect grace, the
maximum fallback duration and the metadata TTL. A process may be killed and finds
its predecessor's keys when it starts. A venue may answer a handshake in any
order, not at all, or with data only; one frame carries several channels; a
symbol has no separator; decimals have to fit an integer exactly.

What makes each correct:

- tracker: a cached verdict is what a recomputation would give; the keys catch up
  with it; a fallback past its maximum is noticed although nothing reports it;
- fallback: a stream on REST has a live poller, no poller is forgotten, the cap
  holds, a missing key never stays behind a healthy status, shutdown is clean;
- sockets: no connection is left open, the breaker is obeyed, a session whose read
  returns once its connection is closed ends, and so does every shutdown;
- streams: no wake-up is lost, the key only moves forward, leaks are counted, a
  stale restart is dropped;
- limiter: no burst beyond a bucket and what came back;
- metadata: a key is no fresher than the venue's answer, lapses only after a
  refresh that left it out, and the change log accounts for what it holds;
- feed: nothing streams before this process's own metadata, a process that stays
  up does stream, a signal ends it, nothing is left open or uncounted;
- adapters: a file that is let through gives a sound plan; a dial hands over a
  live connection or leaves none; frames are whole, exact and filed where they
  belong; metadata leaves out no contract and can be traded on (on Tabdeal it need not
  be).

## Modules

| Module | Models | Correspondence |
|---|---|---|
| `HealthStatus` | `Tracker.compute` and what a report does to a stream's record | pure operators; reasons keep their cause, not their wording |
| `Health` | the tracker | one action per report, one for the heartbeat; `writing` holds the snapshots a goroutine publishes outside the mutex, one action per write |
| `Fallback` | watcher, pollers and the publish path of a stream, with the tracker's record and the key | `watcher.at`, `pollers[p].at`, `publishing[s].at` are program counters: one step per critical section or external call |
| `RateLimit` | one kind of a `LocalLimiter` | time in whole units; `grants` and `spent` are history |
| `Breaker` | the circuit breaker | what each call makes of its record |
| `Socket` | the socket loop with its sessions, read loops and `noteExpiry` | extends `Breaker`; `run.at` and `noter.at` are program counters; times are ages that stop at the limit they are compared with |
| `Stream` | `streamRunner`, `Task` and the publisher's numbering | messages are numbered in the order they were read; `restart` remembers when it was filled |
| `LastValue` | abstract: what a stream promises the reader of its key | a register that takes only newer messages with higher numbers, until a writer has been given up |
| `Metadata` | `Refresher.Run`, `refresh`, the ticker and the keys | `refresher.at` is a program counter, one step per call, write, report or select; `record` and `missed` are history |
| `Feed` | `run`, `start`, `shutdown` and the gate, with kills and restarts | extends `Metadata`; `main` is the program counter of `run`, `routines` the goroutines it started |
| `Instruments`, `Config` | canonical symbols; every rule of `Config.validate` | a file is a record; symbols are sequences of fragments; a market type has one spelling besides its own |
| `Price` | `parse` and `format` | a decimal is sign, digits, point and exponent; the integer's width is a parameter |
| `Adapter`, `Frames` | symbols and planning; `Parse`, `FetchOnce`, `FetchMetadata` of the three venues | pure operators on records of the fields the code reads |
| `Dial` | `Adapter.Dial` of the three venues, `closeAfter`, `pingingConn` | one step per call into the network, select or lock; the venue and the network are actions of their own |
| `Venue` | a file loaded, planned, one socket dialled, its frames parsed, REST asked | composes the six modules above; `got` is the last thing the venue said and what became of it |

`Fallback` judges streams with `HealthStatus`, and so does `Health`: the two share
what a report does. `Stream` is shown to implement `LastValue`: `Register` maps the
messages read, the pending one, the publisher's counter and the key onto the
register, and `KeepsRegister` is the register's specification under that mapping,
checked by TLC and proved. `MC*` modules give the topologies and the venue's
inputs; `*Proofs` modules extend the component they are about.

Definitions whose name starts with an operation's and whose comment begins with
"Mutant" are not part of the specifications: each is a plausible mistake in that
operation, and shows that a property depends on it.

### What the models leave out

- Formatting of reasons, metrics, log lines, gauges, the advisory limiter key.
- `Health`: the source and date of the last message, which nothing decides on.
- `Fallback`: time stands still, so a fallback never exceeds its maximum (that is
  in `Health`); the socket, clock and metadata of its streams are fine.
- `Socket`: the backoff's attempt count. With full jitter a backoff may be over at
  once, so only an upper bound depends on it. The streams are in `Stream`.
- `Stream`: what `publish` tells the watcher and the tracker (in `Fallback`), and
  the pollers, which write the same key. A write that errored lands before the
  call returns or not at all.
- `Metadata`: a definition is one value, standing for the fields `logChanges`
  compares; the minimum and maximum sizes, which it does not compare, are left
  out. A refresh takes at most `MaxRefresh`, less than half the interval, which
  is what the fetch timeout and Redis's timeouts amount to at the default hour.
- `Feed`: what the watcher and the supervisor do while they run (in `Fallback` and
  `Socket`); they return some time after the context ended, or never.
- `Config`: reading YAML and the defaults. Numbers of a section that are only
  tested for their sign are one number, the smallest.
- `Frames`: JSON itself. `json` and `payload` say whether the bytes decode.
- `Dial`: URLs, HTTP and the library's deadlines. A call may fail at any time.

## Runs

| Run | Question | Bounds and why they suffice |
|---|---|---|
| `HealthCoherent` | Do the caches ever disagree with a recomputation? | three streams, two sockets, two instruments, crossed, so a socket reaches two instruments and an instrument depends on two sockets; four reports, since a status depends on at most three causes at once and one more has to change it |
| `HealthKeys` | Do the health keys and a long fallback come right? | one stream, two reporters and the heartbeat: any two of the three may cross; one lost write |
| `FallbackRaces` | Watcher, pollers and stream in every interleaving, with the cap | two streams, a cap of one and two poller slots each: an old poller still running beside its successor, a stream that waits for the place of another, shutdown. A constraint keeps the second stream's socket dead and its poller inside a fetch, so that one stream has every race |
| `FallbackLive` | Is silence always reported; does the shutdown finish? | two streams, a cap of one, two poller slots; polls and writes may fail. `mark` has every race. Either the key of `index` is there and stays, and `mark` goes through expiries whose notification comes or is lost and a shutdown, or through an old poller that reports beside its successor; or `index` never gets a value (its socket is dead, its polls fail), and the one of the two that is missed first has the only place and the other is turned away. An action constraint (`OneAtATime`) takes one of these at a time: a step that would add another waits for what is under way, which ends by fairness. No fairness is given to the stream that holds still |
| `FallbackRecovery` | (violated) Is the tracker's record of a fallback true once everybody is at rest? | one stream, two poller slots |
| `RateLimitSlots` | Bursts among concurrent callers | two callers, a bucket of three in a window of seven (so the interval is rounded), costs of zero, of one, of two and beyond the bucket |
| `SocketRaces` | Connections, leaks, breaker, and an escalation racing a session's end | four connections, on two of which a read may never return: one abandoned, one ending, one new, one to spare; a shutdown at any time, so it meets read loops that were given up before it and one that it has to give up itself; threshold two, open period two |
| `SocketWedged` | (violated) Is a read that never returns always abandoned? | two connections, one read may wedge |
| `StreamHandover` | Messages from read loop to key across restarts, leaks, sessions; the refinement | three frames: one in Redis, one in hand, one pending; one goroutine or read loop given up |
| `MetadataCycle` | Freshness, lapses and the change log over many refreshes | two instruments, so a refresh can fail between them; two definitions; an interval of three ticks and refreshes of up to one, the longest that leaves slack; a warning and the write it is about are two steps |
| `FeedLife` | The process from flags to exit | two instruments; one kill, after which a process meets live keys; `startup_required`, fallback and admin server on, since off removes steps; an interval of one tick, since its length is `MetadataCycle`'s question |
| `VenueDial` | A venue from its file to its messages | six sound files over three venues: one and two sockets, overrides, two overrides for one symbol, an ambiguous symbol, a quote the venue does not know; nineteen odd ones, one per rule family, with market types in a second spelling among them. Two frames on their way: an ack behind data. Integers of two digits up to 92, scales of one and two places, so that every limit of `parse` is met by short decimals; a timestamp whose nanoseconds overflow; precisions that are negative or finer than the scale |

`CHECK_DEADLOCK FALSE` is set where a bound ends the run (`Health`: number of
reports; `RateLimit`: the clock) or the system stops (`Metadata` and `Feed` after a
shutdown, `Venue` with a file refused or a dial over). The other systems never
stop: Fallback's streams go on publishing after a shutdown, and clocks and
sessions go on.

`FallbackRaces` uses symmetry of the poller slots, `RateLimitSlots` of the callers
and `MetadataCycle` of the definitions, none with a liveness property.

### What the violated runs show

1. `FallbackRecovery` (`poller.go:63`, `:92`). `engage` inserts the poller, unlocks,
   and then reports `FallbackEngaged`. A message in between has `Note` take the
   poller off and report `FallbackDisengaged` first. The record is then on REST
   with nobody serving it; the next `Note` finds nothing to disengage, so the
   stream reads DEGRADED and later STALE until its key next expires. The mirror
   image: `Note` reports after its unlock, the key expires and a new fallback
   engages in between, the late report wipes it, and REST values go out HEALTHY.
   The first conjunct is broken, too, by a poll that fails after the recovery
   (`poller.go:166` reports without asking whether the poller owns its stream).
2. `SocketWedged` (`supervisor.go:306`). A session fetches its connection, an
   escalation closes that connection and signals, and only then does the session
   drain `redial`, which was meant for it. If the read does not come back nobody
   ends that session. When its read returns after `Close` the session ends
   (`FreedSessionEnds`), and a shutdown ends it either way (`ShutdownReturns`); both
   are checked by `SocketRaces`, where some reads never return.

### Seen while modelling, without a run

Supervision:

- Health snapshots are written outside the mutex, so a key can hold an older
  status until the next heartbeat (`health.go:648`); `KeysCatchUp` bounds it.
- `docs/fallback.md:77` says a poll in flight at the recovery is discarded. The
  ownership test and the write are separate steps, so a REST value can still land
  after the socket's (`poller.go:199`).
- The failure that opens the breaker is followed by a backoff before the tracker
  is told that the circuit is open (`supervisor.go:248`).
- An escalation decided about one connection can close the next, younger than
  `ConnectGrace`, if a reconnect falls between (`supervisor.go:451`).
- A stream goroutine whose context has ended may still take a message, and its
  write then fails: the message is lost and the next one repairs it.
- GCRA with a full bucket of burst hands out nearly twice the capacity within one
  window from cold (`local.go:182`), where `docs/ratelimit.md:54-56` speaks of "at
  most" the configured share. What does hold is `BurstBound`.

Metadata and process:

- The TTL is exactly two intervals and does not cover the refresh that ends them:
  after one missed refresh a key can lapse for as long as the next one takes to
  write it again, although `metadata.go:31-33` and `docs/metadata.md:48-52` call a single
  missed cycle no outage. `KeptWhileRefreshed` says what does hold.
- A write that errored but landed is not remembered, so the change it made is
  logged against an older value or not at all (`docs/metadata.md:53-57`).
- The warning of a change comes before its write (`metadata.go:247`, `:250`): a process
  killed between them leaves the log ahead of the key, and the next one starts with
  nothing to compare. `LogAccountsForKeys` is therefore about one process: it exempts
  the instrument whose write is under way, and a kill in `Feed` starts a new log.
- An instrument the venue does not list is logged and streams without metadata:
  the gate opens on the instruments that were found.
- When `http.Server.Shutdown` has used up the deadline, the `select` in `shutdown`
  may count a leak although every producer has returned (`main.go:198`).

Adapters:

- Tabdeal's adapter writes a precision behind "1e-", parses that, and drops the error
  (`tabdeal/metadata.go:71-72`). A precision finer than the scale or negative is then
  published as a tick or a lot of zero, marked HEALTHY, where `docs/adapter.md:61` says
  "Return an error, never a partial result". Binance and KuCoin check
  (`binance/metadata.go:161`, `kucoin/metadata.go:134`). So `NoContractPassedOver`
  claims positive numbers of those two venues and only the instrument of Tabdeal.
- Tabdeal's `Dial` returns before its subscription is acknowledged, which
  `core/adapter.go:37-39` asks of a `Dial`.
- KuCoin's watchdog may choose its timer after `stop()` was called, and close the
  connection that was just handed over (`subscribe.go:117`); the session then ends
  as for any lost connection.
- `ParseVenueSymbol` is no inverse where a symbol splits two ways (BNB_USD is sent as
  BNBUSD and read as BN_BUSD) or two overrides name one symbol. A quote that is not
  in a venue's list passes `Load`; its frames are refused, or filed under another
  pair where the list has an ending of it (BTC_PYUSD on Binance is read as
  BTCPY_USD). An override may also name a symbol that is another instrument's own.
  `Unmistakable` is what is left, and `FiledUnderItsStream` says what holds for it:
  the attempt to prove an earlier, wider form of it turned up the last two cases.
- Binance's quote assets are not "longest first" (`binance.go:60-63`: FDUSD comes
  after BUSD). It makes no difference, since none before a longer one ends alike
  (`QuotesOrdered`).
- `Load` asks for `endpoints.ws` of every market and not for `endpoints.rest`; without
  it the metadata is never fetched and the feed never ready.
- KuCoin's upper bound for a timestamp, 10^13 ms, is past what fits int64
  nanoseconds; Binance's is not bounded (`kucoin/parse.go:24-34`).
- `ParseMarketType` takes any case, while the test for two blocks of one market and the
  lookup of `endpoints.ws` use the name as written (`load.go:319`, `:332`). A file with
  PERP_LINEAR and perp_linear is let through, and a stream in both blocks is planned
  twice. The tracker, the watcher and the socket keep one of the two, so `Streams` is a
  set and the plans stay sound; only the quorum of an escalation counts both
  (`supervisor.go:209`). A file with perp_linear alone passes `Load` and fails in `New`.
- `backoff.go:91-94` converts a float that does not fit when `Max` is zero, which no
  configuration can set.

## Fairness

Weak fairness on the steps of a goroutine that has something to do: the Go
scheduler runs every runnable goroutine, and calls to Redis and to the venue
return because both clients have timeouts. Strong fairness on single cases of a
`select` (the sweep, the watcher's stop, a poller's stop, a stream's wake): a
`select` with several ready cases picks one at random. The heartbeat ticks and
time passes. Nothing is assumed of the venue, the notifications, or callers: no
message need arrive, no key need expire, no notification be delivered, no report
be made. A `Read` of a closed connection returns some time, unless the connection is
one of `Wedgeable`, of which nothing is promised. In `FallbackLive`
only the stream with the races has its fairness.

`Feed`: the steps of `run`, the gate and the refresher, and the passing of the
deadline; a producer need not return, and `Shutdown` of the admin server need not
before the deadline. `StreamsStart` is about a process that stays up from some
time on, without a signal or a kill, and says that the venue's streams then run
for good. For it alone, a fetch or a write that is tried again and again succeeds
some time (strong fairness). `Venue`: calls into the network end because they have
timeouts, timers fire, and the watchdog and the ping goroutine are scheduled; the
venue may send or withhold what it likes.

## Proofs

All theorems are for every value of the constants under the `ASSUME`s of their
modules. These state what constructors validate (positive interval and cap,
streams registered once), that the bounding sets are finite, and for the refresher
that a refresh takes less than half the interval. `FilesAssumption` says that the
fields of a venue file have the types YAML is decoded into and that a file lists
finitely many streams; nothing of what `Load` and `New` test is assumed.
`PayloadsAssumption` is about the venue, and the one place where its behaviour is
restricted: a number it writes is a decimal or something `parse` refuses, a time is
an integer, a book is a list of lists, and a frame that came for a symbol names that
one or none. A frame that names another symbol is beyond `FiledUnderItsStream`,
since the model delivers frames by the topic that was asked for.

- `HealthProofs`. `Coherent` (with the types) is inductive: a report's set of
  touched instruments covers every stream whose verdict it could move
  (`ReportCovers`), so recomputing those leaves all caches right
  (`RefreshCoherent`), and time alone moves a verdict only by crossing the
  maximum (`TimeOnlyCrosses`). `NeverOverstated` follows from it.
- `FallbackProofs`. `OwnerAlive` and `NoPollerForgotten` are not inductive alone:
  `Ownership` adds who holds a poller that was taken off `active` (a `Note` past
  its unlock, or a stop that is halting) and that no other holds it. The clean
  shutdown and the cap follow.
- `RateLimitProofs`. The invariant adds `Ahead`: for every slot handed out, how far
  the arrival time is past it bounds what was spent since. A grant then keeps
  `BurstBound` whatever the rounding of the interval.
- `SocketProofs`. A connection is held by the loop only inside a session; the read
  loops outside one are counted; and while the breaker's failures are at the
  threshold either it is open with an age equal to the time since the last failure
  or that time is past `OpenDuration`.
- `StreamProofs`. `NoLostWakeup` is inductive with the types. `KeyMovesForward`
  rests on `Ordered`: while nobody has been given up there is one goroutine and one
  read loop (from `StraysCounted`), and what is in the key, in hand, pending and
  being delivered are in increasing order. TLC agreed to `Ordered` first. The
  refinement `StreamKeepsRegister` adds that every message and number in flight was
  read or given out before; each action is then a step of the register or none.
- `AdapterProofs`. What an adapter computes without a state, for all inputs.
  `ParseExact`: whatever the digits, the point, the exponent, the scale and the width
  of an integer, `parse` returns exactly the number written or an error, refuses
  nothing it could have carried, and `format` prints it back. The recursive functions
  (`TenTo`, `ValueOf`, `upTo` in `topics`) are reasoned about by the least number for
  which a claim would fail (`LeastNumber`). `Planned`: the chunks of a list of symbols
  divide the streams. `ReadBack` and `ReadAsItsOwn`: whose a venue symbol is, from
  facts about joining and cutting sequences, and from `QuotesOrdered`. The rest reads
  results of `Parse`, `FetchOnce` and `FetchMetadata` back to their numbers
  (`MarkPriceFacts`, `BookFacts`, `RefreshFacts` and the like).
- `VenueProofs`. First `Dial`, for every file, any number of topics and any frames.
  `AcksOK`: each topic written so far is acknowledged or waited for, and an
  acknowledgement on its way has been given (`InboxOK`), so an empty `pending` means
  all are. `SocketOK` and `PingerOK` tie the socket and the ping goroutine to the
  place the dial has reached. Then the whole venue: `VInv` adds that what is up was
  let through with the plans its adapter makes (`PlanOK`), that nothing is accepted
  that was not asked for (`AcceptedOK`), and that `got` is what the adapter makes of
  something the venue may send about a symbol of the file (`GotOK`). TLC agreed to all
  three on `VenueDial`. The five theorems on plans, frames, filing, numbers and
  metadata follow from `VInv` and `AdapterProofs`. The last, `NoneIsPassedOver`, is of
  all three venues as far as no contract is left out, and of Binance and KuCoin alone as
  far as what is published can be traded on.
- `FeedProofs`, on the refresher alone (`MetadataSpec`). `KeptWhileRefreshed` is far
  from inductive: `SlackOK` bounds from below what each key has left, by the ticks to
  the next refresh, by whether this refresh has come to it yet, and by `MaxRefresh`;
  `TickerOK` ties the ticker to how long the refresh under way has taken, and
  `LeftOutOK` and `PhasesOK` say where the refresher can be. Freshness needs `AgesOK`:
  age and rest of the TTL never exceed their sum when the key was written. The log
  needs `LogOK`: it agrees with the refresher's memory where both know something.
  Then on the process around it, killed and restarted: a kill keeps that invariant as
  well, since the new refresher knows nothing and the keys only age, so freshness and
  the keys hold across kills too; the log does not, and nothing is claimed of it there. `ToldOK` (told before the gate opens and
  nothing told afterwards), `WrittenOK` (what the refresh under way has written is what
  it was answered), `GateOK`, and per stage of `run` what is open (`StagesOK`) and that
  the group stays drained (`DrainOK`).

Every safety invariant and every action property that a passing run checks is proved.
Only model-checked: what has to happen some time (`PastMaximumNoticed`,
`KeysCatchUp`, `SilenceIsReported`, `ShutdownCompletes`, `ShutdownReturns`,
`FreedSessionEnds`, `NewestTaken`, `SignalEndsProcess`, `StreamsStart`,
`DialReturns`, `PingerEnds`), since TLAPS does not reason about fairness here. The
provers take no letters of a string apart and do not know a literal for a string, so
`AdapterProofs` speaks of `Fragments`, the strings together with the few literals the
adapters name.

## Not modelled

- Generated code, observability (metrics and logs are written and never read) and
  the command line tools, which read Redis and print.
- Reading YAML and the defaults of the configuration; JSON, URLs and HTTP. What
  they decide is an input of the models.
- The websocket library: a connection is opened, written, read and closed, and may
  fail at any time.
- The backoff's ceiling: with full jitter a delay may be zero, so no property
  depends on it.
- The poller's share of a key's sequence numbers: `Stream` and `Fallback` are not
  composed, so that `KeepsRegister` is about what the socket writes.
- Test helpers (`coretest`, `adaptertest`).

## Plan

Done, in this order: tracker, fallback, limiter, sockets, streams; the register a
stream implements; metadata and the process; the adapters from file to message.

Left: composing the pollers with the stream on one key (whose numbers then come
from two goroutines), a fallback over several sockets in one process, and the
refinement of `Fallback` to a labelled register, which its violated run says would
need an exception for the two late reports.
