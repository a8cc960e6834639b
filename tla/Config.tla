--------------------------------- MODULE Config ---------------------------------
(***************************************************************************)
(* internal/config: the rules a venue file is held to, and what is read    *)
(* off it.  The file over the defaults is a record:                        *)
(*   venue                                                                 *)
(*   ws, rest           functions from some market types to the scheme of  *)
(*                      the endpoint, "" for what is not a URL             *)
(*   scales             price, size and rate                               *)
(*   http, listen       service.http: "loopback", "localhost", another     *)
(*                      host, or "" for what is not host:port              *)
(*   degraded, stale    health.clock_skew_..._ms                           *)
(*   max                connection.max_streams_per_socket                  *)
(*   subscriptions      rate_limit.subscriptions_per_connection            *)
(*   multiplier         health.ttl_multiplier                              *)
(*   others             the other numbers, the smallest of each section    *)
(*   cadence            a function from some channels                      *)
(*   overrides          a function from canonical symbols to venue symbols *)
(*   blocks             the instrument blocks: market, channels, symbols   *)
(***************************************************************************)
EXTENDS Instruments, Price

\* The struct tags: what is required, and the ranges.
validatorFails(c) ==
    \/ c.blocks = <<>>
    \/ \E n \in DOMAIN c.blocks : c.blocks[n].channels = <<>> \/ c.blocks[n].symbols = <<>>
    \/ DOMAIN c.ws = {} \/ DOMAIN c.rest = {} \/ DOMAIN c.cadence = {}
    \/ c.max <= 0 \/ c.subscriptions <= 0 \/ c.multiplier < 2
    \/ c.degraded <= 0 \/ c.stale <= 0 \/ c.listen = ""
    \/ \E section \in DOMAIN c.others : c.others[section] <= 0

validateScales(c) == c.scales # [price |-> PriceExp, size |-> SizeExp, rate |-> RateExp]

\* The admin port stays on the host.
validateHTTP(c) == c.http /\ c.listen \notin {"localhost", "loopback"}

validateHealth(c) == c.stale <= c.degraded

validateRateLimit(c) == c.max > c.subscriptions

EndpointFails(endpoints, schemes) ==
    \E market \in DOMAIN endpoints :
        ParseMarketType(market) \notin MarketTypes \/ endpoints[market] \notin schemes

validateEndpoints(c) ==
    \/ EndpointFails(c.ws, {"ws", "wss", "http", "https"})
    \/ EndpointFails(c.rest, {"http", "https"})

validateCadence(c) == \E channel \in DOMAIN c.cadence : channel \notin Channel \/ c.cadence[channel] <= 0

validateSymbolOverrides(c) ==
    \E canonical \in DOMAIN c.overrides : ~CanonicalRe(canonical) \/ c.overrides[canonical] = <<>>

Repeats(s) == \E m, n \in DOMAIN s : m < n /\ s[m] = s[n]

ChannelFails(c, block, channel) ==
    \/ channel \notin Channel
    \/ ~ChannelValidFor(channel, ParseMarketType(block.market))
    \/ channel \notin DOMAIN c.cadence

\* Two blocks of one market type, and the endpoint of a block, are looked for by the
\* name as it is written: a second spelling passes for another market type.
resolveInstruments(c) ==
    \/ Repeats([n \in DOMAIN c.blocks |-> c.blocks[n].market])
    \/ \E n \in DOMAIN c.blocks :
           LET block == c.blocks[n]
           IN  \/ ParseMarketType(block.market) \notin MarketTypes
               \/ block.market \notin DOMAIN c.ws
               \/ Repeats(block.channels) \/ Repeats(block.symbols)
               \/ \E channel \in ToSet(block.channels) : ChannelFails(c, block, channel)
               \/ \E symbol \in ToSet(block.symbols) : ~CanonicalRe(symbol)

\* Config.validate
validateFails(c) ==
    \/ validatorFails(c) \/ validateScales(c) \/ validateHTTP(c) \/ validateHealth(c)
    \/ validateEndpoints(c) \/ validateRateLimit(c) \/ validateCadence(c)
    \/ validateSymbolOverrides(c) \/ resolveInstruments(c)

\* Load returns the configuration only if every rule passes.
Load(c) == ~validateFails(c)

\* Config.TimeToLive: zero for a channel without a cadence.
TimeToLive(c, channel) ==
    (IF channel \in DOMAIN c.cadence THEN c.cadence[channel] ELSE 0) * c.multiplier

\* Config.Streams: every symbol of a block on every channel of the block.  A set: of
\* a stream that two blocks name, the socket runner keeps one.
Streams(c) ==
    UNION {{[market |-> ParseMarketType(c.blocks[n].market), symbol |-> symbol, channel |-> channel] :
               symbol \in ToSet(c.blocks[n].symbols), channel \in ToSet(c.blocks[n].channels)} :
           n \in DOMAIN c.blocks}
=============================================================================
