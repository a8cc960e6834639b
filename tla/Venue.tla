---------------------------------- MODULE Venue ----------------------------------
(***************************************************************************)
(* A venue from its file to its messages: the file is loaded and checked,  *)
(* the adapter built, the streams planned onto sockets, one socket dialled *)
(* and its frames parsed; the fallback and the metadata refresher ask over *)
(* REST.                                                                   *)
(*                                                                         *)
(* The adapter keeps no state, so one REST call says as much as many: they *)
(* are made before the dial starts.  got is the last thing the venue said  *)
(* and what became of it, forgotten at the next step of the dial; until    *)
(* then nothing else is asked.                                             *)
(***************************************************************************)
EXTENDS Frames, Dial

CONSTANTS
    Files,                  \* the venue files
    FramesOf(_, _),         \* what a venue may send about a symbol
    ResponsesOf(_),         \* what it may answer to FetchOnce
    ListingsOf(_)           \* and to FetchMetadata

\* A file is finite, and its fields are of the types they are decoded into.
ASSUME FilesAssumption ==
    \A f \in Files :
        /\ f.venue \in Venues
        /\ {f.max, f.subscriptions, f.multiplier} \subseteq Int
        /\ \A channel \in DOMAIN f.cadence : f.cadence[channel] \in Int
        /\ f.overrides \in [DOMAIN f.overrides -> Seq(STRING)]
        /\ DOMAIN f.overrides \subseteq Seq(STRING)
        /\ \A s \in Streams(f) : s.symbol \in Seq(STRING)
        /\ IsFiniteSet(Specifications(f))

\* What the streams of a file are called by its venue.
Symbols(f) ==
    {VenueSymbol([venue |-> f.venue, options |-> f], s.instrument) : s \in Specifications(f)}

IsPriceFrame(symbol, frame) ==
    /\ {frame.mark, frame.index, frame.rate} \subseteq Decimals /\ frame.time \in Int
    /\ {frame.topic, frame.symbol} \subseteq {symbol, <<>>}

IsDepth(symbol, frame) ==
    /\ {frame.bids, frame.asks} \subseteq Seq(Seq(Decimals))
    /\ {frame.time, frame.outer.time} \subseteq Int
    /\ {frame.symbol, frame.outer.symbol} \subseteq {symbol, <<>>}

IsAnswer(r) ==
    /\ {r.mark, r.index, r.rate} \subseteq Decimals /\ r.time \in Int
    /\ {r.bids, r.asks} \subseteq Seq(Seq(Decimals))

IsContract(c) == {c.tick, c.lot, c.multiplier, c.limit, c.notional} \subseteq Decimals

\* Numbers are written as decimal strings, and a frame that is about a symbol names
\* that one or none.
ASSUME PayloadsAssumption ==
    \A f \in Files :
        /\ \A symbol \in Symbols(f) : \A frame \in FramesOf(f.venue, symbol) :
               IF f.venue = "TABDEAL" THEN IsDepth(symbol, frame) ELSE IsPriceFrame(symbol, frame)
        /\ \A r \in ResponsesOf(f.venue) : IsAnswer(r)
        /\ \A r \in ListingsOf(f.venue) : \A c \in r.contracts : IsContract(c)

VARIABLES
    file,       \* the venue file
    stage,      \* "load", then "refused" or "up"
    adapter, plans,
    plan,       \* the plan being dialled
    got

vars == <<dialVars, file, stage, adapter, plans, plan, got>>

nothing == [kind |-> "nothing"]

\* Load, adapter.New, Specifications and PlanSubscriptions, as the feed calls them;
\* then the supervisor dials each plan, of which this is one.
start ==
    /\ stage = "load"
    /\ \/ /\ Load(file) /\ ~NewFails(file)
          /\ \E r \in reverses(file) :
                 LET a == [venue |-> file.venue, options |-> file, reverse |-> r]
                     p == PlanSubscriptions(a, Specifications(file))
                 IN  /\ ~PlanFails(a, Specifications(file))
                     /\ adapter' = a /\ plans' = p
                     /\ \E k \in DOMAIN p : plan' = p[k] /\ asked' = topics(a, p[k])
          /\ stage' = "up"
       \/ /\ ~Load(file) \/ NewFails(file)
             \/ PlanFails([venue |-> file.venue], Specifications(file))
          /\ stage' = "refused"
          /\ UNCHANGED <<adapter, plans, plan, asked>>
    /\ UNCHANGED <<venue, dial, socket, watchdog, pinger, interval, inbox, accepted, cancelled, file, got>>

DialProceeds ==
    /\ stage = "up" /\ DialNext
    /\ got' = nothing
    /\ UNCHANGED <<file, stage, adapter, plans, plan>>

\* A frame of a topic the venue has subscribed us to.
receive(symbol, frame) ==
    /\ got = nothing /\ DialAt("handed") /\ socket = "open"
    /\ got' = [kind |-> "frame", symbol |-> symbol, input |-> frame, out |-> Parse(adapter, frame)]
    /\ UNCHANGED <<dialVars, file, stage, adapter, plans, plan>>

poll(specification, response) ==
    /\ got = nothing /\ stage = "up" /\ DialAt("start")
    /\ got' = [kind |-> "rest", specification |-> specification, input |-> response,
               out |-> FetchOnce(adapter, specification, response)]
    /\ UNCHANGED <<dialVars, file, stage, adapter, plans, plan>>

refresh(response) ==
    /\ got = nothing /\ stage = "up" /\ DialAt("start")
    /\ got' = [kind |-> "metadata", input |-> response, out |-> FetchMetadata(adapter, response)]
    /\ UNCHANGED <<dialVars, file, stage, adapter, plans, plan>>

Init ==
    /\ file \in Files
    /\ stage = "load" /\ adapter = nothing /\ plans = <<>> /\ plan = nothing /\ got = nothing
    /\ DialInit(file.venue, <<>>)

Next ==
    \/ start
    \/ DialProceeds
    \/ \E symbol \in accepted : \E frame \in FramesOf(venue, symbol) : receive(symbol, frame)
    \/ stage = "up" /\ \E s \in plan.specifications, r \in ResponsesOf(venue) : poll(s, r)
    \/ \E r \in ListingsOf(venue) : refresh(r)

\* Calls into the network end (HTTPTimeout, the read timeout, a write into a
\* socket's buffer), timers fire, and the two goroutines are scheduled.
Fairness ==
    /\ WF_vars(stage = "up" /\ DialStep /\ DialProceeds)
    /\ WF_vars((watchdogFires \/ watchdogStops) /\ DialProceeds)
    /\ WF_vars(watchdogCloses /\ DialProceeds)
    /\ WF_vars(tick /\ DialProceeds) /\ WF_vars(ping /\ DialProceeds)
    /\ WF_vars(pingerReturns /\ DialProceeds)

Spec == Init /\ [][Next]_vars /\ Fairness

-----------------------------------------------------------------------------

\* A connection that Dial hands over has every topic of its plan acknowledged and,
\* on KuCoin, a ping goroutine that lives as long as it is open.  Tabdeal's Dial
\* does not wait for the acknowledgement.
HandedOverLive ==
    DialAt("handed") =>
        /\ venue # "TABDEAL" => {asked[n] : n \in 1..Len(asked)} \subseteq accepted
        /\ venue = "KUCOIN" /\ socket = "open" => pinger.at \in {"waiting", "writing"}

\* A dial that failed has left no socket behind, open or half open.
NoSocketLeft == DialAt("failed") => socket \in {"none", "closed"}

\* Dial returns, however the venue behaves: it may send data for ever and never
\* an acknowledgement.
DialReturns == (stage = "up") ~> (dial.at \in {"handed", "failed"})

\* The ping goroutine of a connection that is gone ends, whoever noticed and
\* whether the watchdog, the venue or the caller took it down; and then the
\* socket is closed, so that a read on it returns.
PingerEnds ==
    (pinger.at # "none" /\ socket # "open") ~> (pinger.at = "done" /\ socket = "closed")

\* A file that was let through has each of its streams on exactly one socket, the
\* streams of a symbol on the same one, and asks on no connection for more than
\* the venue takes; every stream's key gets a time to live.
PlanIsSound ==
    stage = "up" =>
        /\ UNION {plans[k].specifications : k \in DOMAIN plans} = Specifications(file)
        /\ \A j, k \in DOMAIN plans :
               j # k => ToSet(topics(adapter, plans[j])) \cap ToSet(topics(adapter, plans[k])) = {}
        /\ \A k \in DOMAIN plans :
               /\ Len(topics(adapter, plans[k])) \in 1..file.subscriptions
               /\ \A s \in plans[k].specifications : TimeToLive(file, s.channel) > 0

\* A frame is filed under an instrument that has the symbol it came for, by an
\* override or by the venue's own spelling, and a stream nothing else is spelled like
\* gets what was sent for it.
FiledUnderItsStream ==
    got.kind = "frame" =>
        \A m \in got.out.messages :
            LET reference == m.specification.instrument
            IN  /\ got.symbol \in {VenueSymbol(adapter, reference), OwnSpelling(adapter, reference)}
                /\ m.key = <<venue, MarketType, Canonical(reference), m.specification.channel>>
                /\ \A s \in plan.specifications :
                       VenueSymbol(adapter, s.instrument) = got.symbol /\ Unmistakable(adapter, s.instrument)
                       => reference = s.instrument

\* What a frame carries, by channel, as the decimals the venue wrote.
Carries(f) ==
    CASE venue = "KUCOIN" /\ f.subject = "mark.index.price" ->
             [mark_price |-> f.mark, index_price |-> f.index]
      [] venue = "KUCOIN" /\ f.subject # "mark.index.price" ->
             [c \in IF f.rate = ErrEmpty THEN {} ELSE {"funding"} |-> f.rate]
      [] venue = "BINANCE" ->
             [c \in {"mark_price", "index_price"}
                    \cup (IF f.rate = ErrEmpty \/ f.next <= 0 THEN {} ELSE {"funding"}) |->
                 CASE c = "mark_price" -> f.mark [] c = "index_price" -> f.index [] OTHER -> f.rate]

Scale(channel) == IF channel = "funding" THEN RateExp ELSE PriceExp

\* A frame becomes messages for all it carries or for nothing, each with exactly
\* the number the venue wrote: a missing number is no zero, and one number that
\* cannot be carried takes the others with it.  The fallback's answer is the
\* channel that was asked for and no other.
FramesWhole ==
    /\ got.kind = "frame" /\ venue # "TABDEAL" /\ got.out.messages # {} =>
           /\ {m.specification.channel : m \in got.out.messages} = DOMAIN Carries(got.input)
           /\ \A m \in got.out.messages :
                  LET channel == m.specification.channel
                  IN  /\ Denotes(Carries(got.input)[channel], m.value, Scale(channel))
                      /\ got.input.time * Millisecond <= MaxInt
                         => m.exchangeTime = got.input.time * Millisecond /\ m.exchangeTime > 0
    /\ got.kind = "frame" /\ venue = "TABDEAL" =>
           \A m \in got.out.messages :
               /\ Len(m.value.bids) = Len(got.input.bids) /\ Len(m.value.asks) = Len(got.input.asks)
               /\ \A side \in {"bids", "asks"} : \A n \in DOMAIN m.value[side] :
                      /\ Denotes(got.input[side][n][1], m.value[side][n][1], PriceExp)
                      /\ Denotes(got.input[side][n][2], m.value[side][n][2], SizeExp)
    /\ got.kind = "rest" =>
           \A m \in got.out.messages :
               m.specification = got.specification /\ m.source = "REST"

\* Numbers are carried exactly or refused, at every scale, and print back to what
\* they were read from; nothing is refused that could have been carried.
PricesExact ==
    got.kind \in {"frame", "rest"} /\ venue # "TABDEAL" =>
        \A text \in {got.input.mark, got.input.index, got.input.rate} :
            ParsedExactly(text, PriceExp, FALSE) /\ ParsedExactly(text, RateExp, TRUE)

\* The contracts of a listing that are of the market and name an instrument.  Tabdeal
\* lists no other market.
Ours(r) == {c \in r.contracts : (venue = "TABDEAL" \/ c.linear) /\ ParseVenueSymbol(adapter, c.symbol) # NoRef}

\* A refresh that succeeds passes over no contract that is ours, and on Binance and
\* KuCoin what it has of each can be traded on: the tick, the lot and the multiplier
\* are positive, and the tick is the one that was listed.  Of Tabdeal's only the
\* instrument is claimed: its adapter drops the errors of the parser and publishes a
\* tick or a lot of zero for a precision that cannot be carried
\* (tabdeal/metadata.go:71-72), against docs/adapter.md:61, "Return an error, never a
\* partial result".
NoContractPassedOver ==
    got.kind = "metadata" /\ got.out.err = "" =>
        \A c \in Ours(got.input) : \E m \in got.out.messages :
            /\ m.instrument = ParseVenueSymbol(adapter, c.symbol)
            /\ venue \in {"BINANCE", "KUCOIN"} =>
                   m.tick > 0 /\ m.lot > 0 /\ m.multiplier > 0 /\ Denotes(c.tick, m.tick, PriceExp)

=============================================================================
