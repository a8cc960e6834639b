--------------------------------- MODULE Frames ---------------------------------
(***************************************************************************)
(* What the adapters make of the bytes a venue sends: Parse of a websocket *)
(* frame, FetchOnce and FetchMetadata of a REST response.  All are pure.   *)
(*                                                                         *)
(* A frame or a response is the record of the fields the adapter reads;    *)
(* json and payload say whether the bytes, and the payload within them,    *)
(* decode.  A result is the kind of a ParseError, "" for none, with the    *)
(* set of messages.                                                        *)
(***************************************************************************)
EXTENDS Adapter

CONSTANTS
    Millisecond,                        \* in nanoseconds
    minTimestampMS, maxTimestampMS      \* what KuCoin's timestamps are held to

ASSUME TimestampAssumption ==
    /\ Millisecond \in Nat \ {0}
    /\ minTimestampMS \in Nat \ {0} /\ maxTimestampMS \in Nat /\ minTimestampMS < maxTimestampMS

Nothing       == [err |-> "", messages |-> {}]
Failed(kind)  == [err |-> kind, messages |-> {}]
Parsed(found) == [err |-> "", messages |-> found]

\* numericError: a number that does not fit the scale is counted apart.
numericError(err) ==
    Failed(IF err \in {"ErrOutOfRange", "ErrPrecisionLoss"} THEN "range" ELSE "field")

\* The product of two int64s.
Int64(n) == ((n + MaxInt + 1) % (2 * (MaxInt + 1))) - (MaxInt + 1)

millisecondsToNanoseconds(ms) == Int64(ms * Millisecond)

\* KuCoin's timestampNs: whether the number may be milliseconds at all.
timestampFails(ms) == ms < minTimestampMS \/ ms > maxTimestampMS

\* KuCoin stamps funding with the settlement it describes; Tabdeal may send no time.
exchangeTimeIsSendTime(venue, channel, ms) ==
    CASE venue = "BINANCE" -> TRUE
      [] venue = "KUCOIN"  -> channel # "funding"
      [] venue = "TABDEAL" -> ms > 0

\* message and, for REST, the source restMessage stamps.
message(a, reference, channel, ms, source, value) ==
    [key |-> <<a.venue, reference.market, Canonical(reference), channel>>,
     specification |-> [instrument |-> reference, channel |-> channel],
     ttl |-> TimeToLive(a.options, channel),
     exchangeTime |-> millisecondsToNanoseconds(ms),
     isSendTime |-> exchangeTimeIsSendTime(a.venue, channel, ms),
     source |-> source, value |-> value]

\* Mutant: only the first number decides.
FirstOrNothing(results, Messages) ==
    IF results = <<>> THEN Parsed(Messages)
    ELSE IF results[1].err = "" THEN Parsed(Messages) ELSE numericError(results[1].err)

\* Every number of a frame, or the error of the first that fails.
AllOrNothing(results, Messages) ==
    LET failed == {n \in DOMAIN results : results[n].err # ""}
    IN  IF failed = {} THEN Parsed(Messages) ELSE numericError(results[Min(failed)].err)

-----------------------------------------------------------------------------
(* Parse *)

\* A rate that is missing is not a rate of zero.
parseFunding(a, reference, f) ==
    LET rate == ParseRate(f.rate)
    IN  IF ~f.payload THEN Failed("json")
        ELSE IF timestampFails(f.time) THEN Failed("field")
        ELSE IF f.rate = ErrEmpty THEN Nothing
        ELSE AllOrNothing(<<rate>>, {message(a, reference, "funding", f.time, "WEBSOCKET", rate.v)})

parseMarkIndex(a, reference, f) ==
    LET mark  == ParsePrice(f.mark)
        index == ParsePrice(f.index)
    IN  IF ~f.payload THEN Failed("json")
        ELSE IF timestampFails(f.time) THEN Failed("field")
        ELSE AllOrNothing(<<mark, index>>,
                 {message(a, reference, "mark_price", f.time, "WEBSOCKET", mark.v),
                  message(a, reference, "index_price", f.time, "WEBSOCKET", index.v)})

\* symbolOf: f.topic is the symbol of an instrument topic, <<>> for any other.
ParseKuCoin(a, f) ==
    LET reference == ParseVenueSymbol(a, f.topic)
    IN  IF ~f.json THEN Failed("json")
        ELSE IF f.type = "error" THEN Failed("venue")
        ELSE IF f.type \in {"welcome", "ack", "pong"} \/ ~f.data THEN Nothing
        ELSE IF f.topic = <<>> \/ reference = NoRef THEN Failed("field")
        ELSE CASE f.subject = "mark.index.price" -> parseMarkIndex(a, reference, f)
               [] f.subject = "funding.rate"     -> parseFunding(a, reference, f)
               [] OTHER                          -> Failed("field")

\* A frame that is not wrapped carries its payload itself; an acknowledgement is a
\* frame with an id and no data.
ParseBinance(a, f) ==
    LET reference == ParseVenueSymbol(a, f.symbol)
        mark  == ParsePrice(f.mark)
        index == ParsePrice(f.index)
        rate  == ParseRate(f.rate)
        Prices == {message(a, reference, "mark_price", f.time, "WEBSOCKET", mark.v),
                   message(a, reference, "index_price", f.time, "WEBSOCKET", index.v)}
    IN  IF ~f.json THEN Failed("json")
        ELSE IF f.type = "error" THEN Failed("venue")
        ELSE IF ~f.data /\ f.type = "ack" THEN Nothing
        ELSE IF ~f.payload THEN Failed("json")
        ELSE IF f.event = "" /\ f.symbol = <<>> THEN Nothing
        ELSE IF f.event # "markPriceUpdate" \/ reference = NoRef \/ f.time <= 0 THEN Failed("field")
        ELSE IF f.rate = ErrEmpty \/ f.next <= 0 THEN AllOrNothing(<<mark, index>>, Prices)
        ELSE AllOrNothing(<<mark, index, rate>>,
                 Prices \cup {message(a, reference, "funding", f.time, "WEBSOCKET", rate.v)})

\* book: a level is the sequence of its numbers, a price and a size.
book(a, reference, bids, asks, ms, source) ==
    LET levels == bids \o asks
        results == [n \in 1..(2 * Len(levels)) |->
                       LET level == levels[(n + 1) \div 2]
                       IN  IF n % 2 = 1 THEN ParsePrice(level[1]) ELSE ParseSize(level[2])]
        Side(side) == [n \in DOMAIN side |-> <<ParsePrice(side[n][1]).v, ParseSize(side[n][2]).v>>]
    IN  AllOrNothing(results,
            {message(a, reference, "orderbook", IF ms <= 0 THEN 0 ELSE ms, source,
                     [bids |-> Side(bids), asks |-> Side(asks)])})

\* rawLevels
LevelsFail(levels) == \E n \in DOMAIN levels : Len(levels[n]) # 2

\* What the payload leaves out is taken from the frame around it.
ParseTabdeal(a, f) ==
    LET symbol == IF f.symbol = <<>> THEN f.outer.symbol ELSE f.symbol
        event  == IF f.event = "" THEN f.outer.event ELSE f.event
        ms     == IF f.time = 0 THEN f.outer.time ELSE f.time
        reference == ParseVenueSymbol(a, symbol)
    IN  IF ~f.json \/ ~f.payload THEN Failed("json")
        ELSE IF symbol = <<>> /\ f.bids = <<>> /\ f.asks = <<>> THEN Nothing
        ELSE IF event \notin {"", "depthUpdate"} \/ reference = NoRef THEN Failed("field")
        ELSE IF LevelsFail(f.bids) \/ LevelsFail(f.asks) THEN Failed("json")
        ELSE book(a, reference, f.bids, f.asks, ms, "WEBSOCKET")

Parse(a, f) ==
    CASE a.venue = "BINANCE" -> ParseBinance(a, f)
      [] a.venue = "KUCOIN"  -> ParseKuCoin(a, f)
      [] a.venue = "TABDEAL" -> ParseTabdeal(a, f)

-----------------------------------------------------------------------------
(* FetchOnce *)

\* get: the limiter, the request, its status and body.
getFails(r) ==
    CASE r.http # "ok" -> r.http
      [] ~r.json -> "json"
      [] OTHER -> ""

\* KuCoin has a code of its own inside a 200.
getKuCoinFails(r) ==
    CASE getFails(r) # "" -> getFails(r)
      [] r.code # "200000" -> "venue"
      [] ~r.data -> "field"
      [] OTHER -> ""

\* The one number that was asked for.
Asked(channel, r) ==
    CASE channel = "mark_price"  -> r.mark
      [] channel = "index_price" -> r.index
      [] channel = "funding"     -> r.rate

build(a, specification, r) ==
    LET channel == specification.channel
        v == IF channel = "funding" THEN ParseRate(Asked(channel, r)) ELSE ParsePrice(Asked(channel, r))
    IN  AllOrNothing(<<v>>, {message(a, specification.instrument, channel, r.time, "REST", v.v)})

\* restMessage: nothing where the venue left the value out.
restMessageBinance(a, specification, r) ==
    IF specification.channel = "funding" /\ (r.rate = ErrEmpty \/ r.next <= 0) THEN Nothing
    ELSE build(a, specification, r)

restMessageKuCoin(a, specification, r) ==
    IF specification.channel # "mark_price" /\ Asked(specification.channel, r) = ErrEmpty THEN Nothing
    ELSE build(a, specification, r)

\* What is turned down before anything is asked.
CallFails(a, specification) ==
    \/ checkFails(a, specification) \/ MarketType \notin DOMAIN a.options.rest
    \/ VenueSymbol(a, specification.instrument) = <<>>

FetchOnceBinance(a, specification, r) ==
    IF CallFails(a, specification) THEN Failed("call")
    ELSE IF getFails(r) # "" THEN Failed(getFails(r))
    ELSE IF r.time <= 0 THEN Failed("field")
    ELSE restMessageBinance(a, specification, r)

FetchOnceKuCoin(a, specification, r) ==
    IF CallFails(a, specification) THEN Failed("call")
    ELSE IF getKuCoinFails(r) # "" THEN Failed(getKuCoinFails(r))
    ELSE IF timestampFails(r.time) THEN Failed("field")
    ELSE restMessageKuCoin(a, specification, r)

FetchOnceTabdeal(a, specification, r) ==
    IF CallFails(a, specification) THEN Failed("call")
    ELSE IF getFails(r) # "" THEN Failed(getFails(r))
    ELSE IF LevelsFail(r.bids) \/ LevelsFail(r.asks) THEN Failed("json")
    ELSE book(a, specification.instrument, r.bids, r.asks, r.time, "REST")

FetchOnce(a, specification, r) ==
    CASE a.venue = "BINANCE" -> FetchOnceBinance(a, specification, r)
      [] a.venue = "KUCOIN"  -> FetchOnceKuCoin(a, specification, r)
      [] a.venue = "TABDEAL" -> FetchOnceTabdeal(a, specification, r)

-----------------------------------------------------------------------------
(* FetchMetadata: a contract is the record of what the venue lists.        *)

\* parseMetadataPrice, parseMetadataSize: a number left out is zero.
OrZero(text, result) == IF text = ErrEmpty THEN Accept(0) ELSE result

\* Tabdeal gives decimal places, which are put behind "1e-": a negative number of
\* them is no exponent.
Places(n) == IF n < 0 THEN ErrSyntax ELSE Number(FALSE, <<1>>, 0, -n)

\* Mutant: whatever was parsed is good enough.
UsableAlways(tick, lot, multiplier) == TRUE

\* Precision no order can be rounded to is not metadata, nor is a multiplier of zero.
Usable(tick, lot, multiplier) == tick > 0 /\ lot > 0 /\ multiplier > 0

Listing(reference, c, tick, lot, multiplier) ==
    [instrument |-> reference, active |-> c.active, tick |-> tick, lot |-> lot, multiplier |-> multiplier]

\* numbers are all that has to parse, in the order they are read, the tick and the
\* lot first; then what they come to is looked at.
Checked(reference, c, numbers, multiplier) ==
    IF /\ \A n \in DOMAIN numbers : numbers[n].err = ""
       /\ ~Usable(numbers[1].v, numbers[2].v, multiplier)
    THEN Failed("field")
    ELSE AllOrNothing(numbers, {Listing(reference, c, numbers[1].v, numbers[2].v, multiplier)})

\* A linear contract on Binance is one unit.
linearContractMultiplier == TenTo[-SizeExp]

\* fillLotSize, c.limit standing for the smallest and the largest order.
instrumentMetadataBinance(reference, c) ==
    Checked(reference, c,
            <<OrZero(c.tick, ParsePrice(c.tick)), OrZero(c.lot, ParseSize(c.lot)),
              OrZero(c.limit, ParseSize(c.limit)), OrZero(c.notional, ParsePrice(c.notional))>>,
            linearContractMultiplier)

instrumentMetadataKuCoin(reference, c) ==
    LET multiplier == OrZero(c.multiplier, ParseSize(c.multiplier))
    IN  Checked(reference, c,
                <<OrZero(c.tick, ParsePrice(c.tick)), OrZero(c.lot, ParseSize(c.lot)),
                  OrZero(c.limit, ParseSize(c.limit)), multiplier>>,
                multiplier.v)

\* An error of the parser leaves zero, and nothing is looked at again.
instrumentMetadataTabdeal(reference, c) ==
    Parsed({Listing(reference, c, ParsePrice(Places(c.places)).v, ParseSize(Places(c.places)).v,
                    linearContractMultiplier)})

instrumentMetadata(a, c) ==
    LET reference == ParseVenueSymbol(a, c.symbol)
    IN  CASE a.venue = "BINANCE" -> instrumentMetadataBinance(reference, c)
          [] a.venue = "KUCOIN"  -> instrumentMetadataKuCoin(reference, c)
          [] a.venue = "TABDEAL" -> instrumentMetadataTabdeal(reference, c)

\* The loop: contracts of another type, and symbols that are no instrument, are
\* skipped; one that is ours and wrong fails the refresh, and so does a list
\* without any.
Collect(a, contracts) ==
    LET ours == {c \in contracts : ParseVenueSymbol(a, c.symbol) # NoRef}
        wrong == {c \in ours : instrumentMetadata(a, c).err # ""}
    IN  IF ours = {} THEN Failed("field")
        ELSE IF wrong # {} THEN instrumentMetadata(a, CHOOSE c \in wrong : TRUE)
        ELSE Parsed(UNION {instrumentMetadata(a, c).messages : c \in ours})

Linear(contracts) == {c \in contracts : c.linear}

FetchMetadataBinance(a, r) ==
    IF MarketType \notin DOMAIN a.options.rest THEN Failed("call")
    ELSE IF getFails(r) # "" THEN Failed(getFails(r))
    ELSE IF r.time <= 0 THEN Failed("field")
    ELSE Collect(a, Linear(r.contracts))

FetchMetadataKuCoin(a, r) ==
    IF MarketType \notin DOMAIN a.options.rest THEN Failed("call")
    ELSE IF getKuCoinFails(r) # "" THEN Failed(getKuCoinFails(r))
    ELSE Collect(a, Linear(r.contracts))

FetchMetadataTabdeal(a, r) ==
    IF MarketType \notin DOMAIN a.options.rest THEN Failed("call")
    ELSE IF getFails(r) # "" THEN Failed(getFails(r))
    ELSE Collect(a, r.contracts)

FetchMetadata(a, r) ==
    CASE a.venue = "BINANCE" -> FetchMetadataBinance(a, r)
      [] a.venue = "KUCOIN"  -> FetchMetadataKuCoin(a, r)
      [] a.venue = "TABDEAL" -> FetchMetadataTabdeal(a, r)
=============================================================================
