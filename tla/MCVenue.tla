--------------------------------- MODULE MCVenue ---------------------------------
(***************************************************************************)
(* Small numbers stand for int64: two digits up to 92, a scale of one      *)
(* place for prices and sizes and of two for rates, four nanoseconds to a  *)
(* millisecond, and KuCoin's bounds such that the upper one overflows, as  *)
(* 10^13 ms does.                                                          *)
(***************************************************************************)
EXTENDS Venue

MCPriceExp == -1
MCSizeExp  == -1
MCRateExp  == -2

USDT == <<"USD", "T">>
Pair(base, quote) == base \o <<"_">> \o quote
BTC_USDT == Pair(<<"BTC">>, USDT)
ETH_USDT == Pair(<<"ETH">>, USDT)
SOL_USD  == Pair(<<"SOL">>, <<"USD">>)
BTC_FDUSD == Pair(<<"BTC">>, <<"FD", "USD">>)
\* BNBUSD is also BN_BUSD, which a file may call something else, and BTCPYUSD ends
\* in a quote asset that is not its own.
BNB_USD  == Pair(<<"BN", "B">>, <<"USD">>)
BTC_PYUSD == Pair(<<"BTC">>, <<"PY", "USD">>)
Other == [c \in {Pair(<<"BN">>, <<"B", "USD">>)} |-> <<"OTHER">>]

Prices == <<"mark_price", "index_price", "funding">>
NoOverrides == [c \in {} |-> <<>>]
\* Bitcoin's spelling on KuCoin, and two instruments that are given one symbol.
XBT == [c \in {BTC_USDT} |-> <<"XBT", "USD", "T", "M">>]
Clash == [c \in {BTC_USDT, ETH_USDT} |-> <<"XBT", "USD", "T", "M">>]

File(v, channels, symbols, max, overrides) ==
    [venue |-> v, ws |-> [t \in {"PERP_LINEAR"} |-> "wss"], rest |-> [t \in {"PERP_LINEAR"} |-> "https"],
     scales |-> [price |-> MCPriceExp, size |-> MCSizeExp, rate |-> MCRateExp],
     http |-> TRUE, listen |-> "loopback", degraded |-> 1, stale |-> 2,
     others |-> [redis |-> 1, fallback |-> 1, supervisor |-> 1, metadata |-> 1],
     max |-> max, subscriptions |-> 2,
     cadence |-> [c \in {"mark_price", "index_price", "funding", "orderbook"} |-> 1], multiplier |-> 2,
     overrides |-> overrides,
     blocks |-> <<[market |-> "PERP_LINEAR", channels |-> channels, symbols |-> symbols]>>]

Good ==
    {File("KUCOIN", Prices, <<BTC_USDT, ETH_USDT>>, 2, XBT),
     File("KUCOIN", Prices, <<BTC_USDT, ETH_USDT, SOL_USD>>, 2, XBT),
     File("KUCOIN", <<"mark_price">>, <<BTC_USDT, ETH_USDT>>, 1, Clash),
     File("BINANCE", Prices, <<BTC_USDT, BTC_FDUSD, SOL_USD>>, 2, NoOverrides),
     File("BINANCE", <<"funding">>, <<BNB_USD, BTC_PYUSD>>, 1, Other),
     File("TABDEAL", <<"orderbook">>, <<BTC_USDT, ETH_USDT, SOL_USD>>, 2, NoOverrides)}

\* Files that are turned down: by Load, by New and by PlanSubscriptions; and two that
\* are not: one without a REST endpoint for the market, and one that has a market in
\* two spellings, with a stream in both blocks.
Odd ==
    LET f == File("KUCOIN", Prices, <<BTC_USDT>>, 1, XBT)
        lower == [f EXCEPT !.ws = [t \in {"perp_linear"} |-> "wss"], !.blocks[1].market = "perp_linear"]
    IN  {lower, [lower EXCEPT !.blocks[1].market = "PERP_LINEAR"],
         [lower EXCEPT !.ws = [t \in {"PERP_LINEAR", "perp_linear"} |-> "wss"],
                       !.blocks = Append(@, [f.blocks[1] EXCEPT !.symbols = <<BTC_USDT, ETH_USDT>>])],
         [f EXCEPT !.max = 3],
         [f EXCEPT !.cadence = [c \in {"mark_price"} |-> 1]],
         [f EXCEPT !.overrides = [c \in {BTC_USDT} |-> <<>>]],
         [f EXCEPT !.blocks = <<>>],
         [f EXCEPT !.blocks[1].market = "SPOT"],
         [f EXCEPT !.blocks[1].symbols = <<BTC_USDT, BTC_USDT>>],
         [f EXCEPT !.blocks[1].channels = <<"mark_price">>, !.cadence = [c \in {"mark_price"} |-> 1]],
         [f EXCEPT !.blocks[1].channels = <<"orderbook">>],
         [f EXCEPT !.scales.size = MCRateExp],
         [f EXCEPT !.listen = "0.0.0.0"], [f EXCEPT !.listen = ""],
         [f EXCEPT !.degraded = 2], [f EXCEPT !.others.metadata = 0],
         [f EXCEPT !.ws["PERP_LINEAR"] = "ftp"], [f EXCEPT !.rest["PERP_LINEAR"] = "wss"],
         [f EXCEPT !.rest = [t \in {"SPOT"} |-> "https"]]}

MCFiles == Good \cup Odd

Texts == {Number(FALSE, <<1, 2, 0>>, 2, 0), Number(FALSE, <<0, 0>>, 1, 0), Number(TRUE, <<5>>, 1, 0),
          Number(FALSE, <<1, 0>>, 0, 1), Number(FALSE, <<9>>, 0, 0), ErrEmpty}
Texts2 == {Number(FALSE, <<9, 2>>, 1, 0), Number(FALSE, <<9, 3>>, 1, 0), Number(FALSE, <<1, 5>>, 2, -1),
           Number(FALSE, <<1>>, 0, 3), ErrSyntax, ErrNotFinite, Number(TRUE, <<0>>, 0, 0)}
One == Number(FALSE, <<1, 0>>, 1, 0)
Times == {0, 5, 15, 25, 30}

\* Sound frames with any numbers, and frames with something else about them.
MCFramesOf(v, symbol) ==
    LET sound == [json |-> TRUE, type |-> "message", data |-> TRUE, payload |-> TRUE, topic |-> symbol,
                  subject |-> "mark.index.price", event |-> "markPriceUpdate", symbol |-> symbol,
                  time |-> 15, next |-> 1, mark |-> One, index |-> One, rate |-> One]
        depth == [json |-> TRUE, payload |-> TRUE, symbol |-> symbol, event |-> "depthUpdate", time |-> 15,
                  outer |-> [symbol |-> symbol, event |-> "", time |-> 0],
                  bids |-> <<>>, asks |-> <<>>]
        Subjects == {"mark.index.price", "funding.rate"}
    IN  IF v = "TABDEAL"
        THEN {[depth EXCEPT !.bids = b, !.asks = c] :
                 b \in {<<>>} \cup {<< <<p, q>> >> : p, q \in Texts}, c \in {<<>>, << <<One, One>> >>, << <<One>> >>}}
             \cup {[depth EXCEPT !.symbol = s, !.time = t] : s \in {<<>>, symbol}, t \in {0, 15}}
             \cup {[depth EXCEPT !.json = FALSE], [depth EXCEPT !.payload = FALSE],
                   [depth EXCEPT !.event = "trade"],
                   [depth EXCEPT !.symbol = <<>>, !.outer.symbol = <<>>]}
        ELSE (IF v = "KUCOIN"
              THEN {[sound EXCEPT !.mark = m, !.index = i] : m, i \in Texts}
                   \cup {[sound EXCEPT !.rate = r, !.subject = "funding.rate"] : r \in Texts}
              ELSE {[sound EXCEPT !.mark = m, !.index = i, !.rate = r] : m, i, r \in Texts})
             \cup {[sound EXCEPT !.mark = t, !.rate = t, !.subject = s] : t \in Texts2, s \in Subjects}
             \cup {[sound EXCEPT !.time = t, !.subject = s] : s \in Subjects, t \in Times}
             \cup {[sound EXCEPT !.json = FALSE], [sound EXCEPT !.payload = FALSE],
                   [sound EXCEPT !.type = "error"], [sound EXCEPT !.type = "ack", !.data = FALSE],
                   [sound EXCEPT !.topic = <<>>, !.symbol = <<>>], [sound EXCEPT !.next = 0],
                   [sound EXCEPT !.event = "", !.symbol = <<>>],
                   [sound EXCEPT !.subject = "other", !.event = "other"]}

Response == [http |-> "ok", json |-> TRUE, code |-> "200000", data |-> TRUE, time |-> 15, next |-> 1,
             mark |-> One, index |-> One, rate |-> One, bids |-> << <<One, One>> >>, asks |-> <<>>,
             contracts |-> {}]

Failures == {[Response EXCEPT !.http = "limit"], [Response EXCEPT !.http = "venue"],
             [Response EXCEPT !.json = FALSE], [Response EXCEPT !.code = "400"],
             [Response EXCEPT !.data = FALSE], [Response EXCEPT !.time = 0],
             [Response EXCEPT !.next = 0], [Response EXCEPT !.bids = << <<One>> >>]}

MCResponsesOf(v) ==
    Failures \cup {[Response EXCEPT !.mark = m, !.index = m, !.rate = m] : m \in Texts \cup Texts2}

\* How a venue lists a pair that no override names.
Listed(v, pair) == CASE v = "BINANCE" -> pair [] v = "KUCOIN" -> pair \o <<"M">> [] v = "TABDEAL" -> pair

Contracts(v) ==
    LET contract == [symbol |-> Listed(v, <<"ETH", "USD", "T">>), linear |-> TRUE, active |-> TRUE, places |-> 1,
                     tick |-> One, lot |-> One, limit |-> ErrEmpty, notional |-> ErrEmpty, multiplier |-> One]
    IN  {[contract EXCEPT !.tick = t, !.lot = l] : t, l \in Texts}
        \cup {[contract EXCEPT !.multiplier = m, !.limit = l, !.notional = m] : m, l \in Texts}
        \cup {[contract EXCEPT !.linear = FALSE, !.tick = ErrSyntax], [contract EXCEPT !.places = 3],
              [contract EXCEPT !.places = -1],
              [contract EXCEPT !.symbol = <<"XBT", "USD", "T", "M">>],
              [contract EXCEPT !.symbol = <<"ETH">>]}

MCListingsOf(v) ==
    LET second == Listed(v, <<"SOL", "USD", "C">>)
    IN  Failures \cup {[Response EXCEPT !.contracts = {c}] : c \in Contracts(v)}
        \cup {[Response EXCEPT !.contracts = {c, [c EXCEPT !.symbol = second, !.tick = One, !.lot = One]}] :
                  c \in Contracts(v)}
=============================================================================
