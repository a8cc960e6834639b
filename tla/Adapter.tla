--------------------------------- MODULE Adapter ---------------------------------
(***************************************************************************)
(* internal/adapter and the three venue packages, as far as they are pure: *)
(* what a venue calls an instrument, which instrument a venue symbol is,   *)
(* and which streams share a socket.                                       *)
(*                                                                         *)
(* An adapter is a record: venue, options (the venue file) and reverse,    *)
(* the overrides turned round.  Where two overrides name the same venue    *)
(* symbol it depends on the order of a map which one reverse keeps.        *)
(***************************************************************************)
EXTENDS Config

Venues == {"BINANCE", "KUCOIN", "TABDEAL"}

MarketType == "PERP_LINEAR"

ServedChannels(venue) ==
    IF venue = "TABDEAL" THEN {"orderbook"} ELSE {"mark_price", "index_price", "funding"}

\* The quote assets a venue symbol may end in, in the order they are tried.
quotes(venue) ==
    CASE venue = "BINANCE" ->
            << <<"USD", "T">>, <<"USD", "C">>, <<"B", "USD">>, <<"T", "USD">>, <<"FD", "USD">>,
               <<"USD">>, <<"BN", "B">>, <<"BTC">>, <<"ETH">> >>
      [] venue = "KUCOIN"  -> << <<"USD", "T">>, <<"USD", "C">>, <<"USD">> >>
      [] venue = "TABDEAL" -> << <<"USD", "T">>, <<"USD", "C">>, <<"IRT">> >>

linearSuffix == <<"M">>

\* adapter.Specifications
Specifications(c) ==
    {[instrument |-> ParseCanonical(s.symbol, s.market), channel |-> s.channel] : s \in Streams(c)}

\* New: whether the options are enough to build the adapter.
NewFails(c) ==
    \/ MarketType \notin DOMAIN c.ws
    \/ c.max <= 0
    \/ \E channel \in ServedChannels(c.venue) : TimeToLive(c, channel) <= 0

\* The maps New may build from the overrides.
reverses(c) ==
    {r \in [Range(c.overrides) -> DOMAIN c.overrides] :
        \A symbol \in DOMAIN r : c.overrides[r[symbol]] = symbol}

\* VenueSymbol: an override comes before the venue's own spelling.  <<>> is an error.
Spelled(a, reference, symbol) ==
    IF reference.market # MarketType THEN <<>>
    ELSE IF Canonical(reference) \in DOMAIN a.options.overrides
    THEN a.options.overrides[Canonical(reference)]
    ELSE symbol

BinanceSymbol(a, reference) == Spelled(a, reference, reference.base \o reference.quote)
KuCoinSymbol(a, reference)  == Spelled(a, reference, reference.base \o reference.quote \o linearSuffix)
TabdealSymbol(a, reference) == Spelled(a, reference, Canonical(reference))

VenueSymbol(a, reference) ==
    CASE a.venue = "BINANCE" -> BinanceSymbol(a, reference)
      [] a.venue = "KUCOIN"  -> KuCoinSymbol(a, reference)
      [] a.venue = "TABDEAL" -> TabdealSymbol(a, reference)

CutSuffix(s, suffix) == SubSeq(s, 1, Len(s) - Len(suffix))

EndsIn(s, suffix) == Len(s) > Len(suffix) /\ IsSuffix(suffix, s)

\* Mutant: the quote assets are tried from the end of the list.
splitLast(venue, s) ==
    LET matching == {n \in DOMAIN quotes(venue) : EndsIn(s, quotes(venue)[n])}
    IN  IF matching = {} THEN NoRef
        ELSE LET quote == quotes(venue)[Max(matching)]
             IN  ParseCanonical(CutSuffix(s, quote) \o <<"_">> \o quote, MarketType)

\* The first quote asset the symbol ends in, with something before it.
split(venue, s) ==
    LET matching == {n \in DOMAIN quotes(venue) : EndsIn(s, quotes(venue)[n])}
    IN  IF matching = {} THEN NoRef
        ELSE LET quote == quotes(venue)[Min(matching)]
             IN  ParseCanonical(CutSuffix(s, quote) \o <<"_">> \o quote, MarketType)

\* ParseVenueSymbol: an override is turned round before the symbol is taken apart.
\* NoRef is an error.
Reversed(a, s, reference) ==
    IF s = <<>> THEN NoRef
    ELSE IF s \in DOMAIN a.reverse THEN ParseCanonical(a.reverse[s], MarketType)
    ELSE reference

\* A symbol with a separator is a dated contract.
ParseBinanceSymbol(a, s) ==
    IF "_" \in ToSet(s) THEN NoRef ELSE Reversed(a, s, split("BINANCE", s))

ParseKuCoinSymbol(a, s) ==
    Reversed(a, s, IF EndsIn(s, linearSuffix) THEN split("KUCOIN", CutSuffix(s, linearSuffix)) ELSE NoRef)

ParseTabdealSymbol(a, s) ==
    Reversed(a, s, IF "_" \in ToSet(s) THEN ParseCanonical(s, MarketType) ELSE split("TABDEAL", s))

ParseVenueSymbol(a, s) ==
    CASE a.venue = "BINANCE" -> ParseBinanceSymbol(a, s)
      [] a.venue = "KUCOIN"  -> ParseKuCoinSymbol(a, s)
      [] a.venue = "TABDEAL" -> ParseTabdealSymbol(a, s)

\* checkSpecification
checkFails(a, specification) ==
    \/ specification.instrument.market # MarketType
    \/ specification.channel \notin ServedChannels(a.venue)

PlanFails(a, specifications) == \E s \in specifications : checkFails(a, s)

\* sort.Strings makes the order a function of the set of symbols; which order it
\* is makes no difference to the plan's properties.
Sorted(symbols) == SetToSeq(symbols)

\* Mutant: the sockets are filled by streams rather than by symbols.
PlanByStreams(a, specifications) ==
    LET sorted == SetToSeq(specifications)
        max == a.options.max
    IN  [k \in 1..((Len(sorted) + max - 1) \div max) |->
            LET chunk == {sorted[n] : n \in {m \in 1..Len(sorted) : (m - 1) \div max = k - 1}}
            IN  [symbols |-> Sorted({VenueSymbol(a, s.instrument) : s \in chunk}),
                 specifications |-> chunk]]

\* PlanSubscriptions: the streams grouped by symbol, max symbols to a socket.
PlanSubscriptions(a, specifications) ==
    LET symbols == Sorted({VenueSymbol(a, s.instrument) : s \in specifications})
        max == a.options.max
    IN  [k \in 1..((Len(symbols) + max - 1) \div max) |->
            LET chunk == SubSeq(symbols, (k - 1) * max + 1, Min({k * max, Len(symbols)}))
            IN  [symbols |-> chunk,
                 specifications |->
                     {s \in specifications : VenueSymbol(a, s.instrument) \in ToSet(chunk)}]]

\* topics, streamNames and the parameters of Tabdeal's SUBSCRIBE: what one plan
\* asks the venue for, each symbol once and in plan order.
topics(a, plan) ==
    LET symbols == plan.symbols
        asked == {VenueSymbol(a, s.instrument) : s \in plan.specifications}
        upTo[n \in 0..Len(symbols)] ==
            IF n = 0 THEN <<>>
            ELSE IF symbols[n] \in asked THEN Append(upTo[n - 1], symbols[n])
            ELSE upTo[n - 1]
    IN  upTo[Len(symbols)]

-----------------------------------------------------------------------------

\* The venue's own spelling, whatever the overrides say.
OwnSpelling(a, reference) ==
    VenueSymbol([venue |-> a.venue, options |-> [overrides |-> [c \in {} |-> <<>>]]], reference)

\* Nothing else is spelled like the instrument: no other override names its venue
\* symbol and, unless it has one itself or the venue keeps the separator, its quote
\* asset is one the venue is known for and no longer one ends it.
Unmistakable(a, reference) ==
    LET Overrides == a.options.overrides
        pair == reference.base \o reference.quote
    IN  /\ \A c \in DOMAIN Overrides :
               Overrides[c] = VenueSymbol(a, reference) => c = Canonical(reference)
        /\ \/ Canonical(reference) \in DOMAIN Overrides
           \/ a.venue = "TABDEAL"
           \/ /\ reference.quote \in Range(quotes(a.venue))
              /\ \A q \in Range(quotes(a.venue)) : EndsIn(pair, q) => Len(q) <= Len(reference.quote)
=============================================================================
