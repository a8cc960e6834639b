------------------------------- MODULE Instruments -------------------------------
(***************************************************************************)
(* internal/core: how an instrument is named, and which channels it has.   *)
(*                                                                         *)
(* A symbol is the sequence of the fragments it is spelled from, chosen so *)
(* that no asset's name ends inside one: USDT is <<"USD", "T">> and        *)
(* XBTUSDTM is <<"XBT", "USD", "T", "M">>.  "_" is the separator.          *)
(***************************************************************************)
EXTENDS Integers, SequencesExt

Channel == {"mark_price", "index_price", "funding", "orderbook", "metadata", "health"}

MarketTypes == {"SPOT", "MARGIN", "PERP_LINEAR", "PERP_INVERSE", "FUTURE_LINEAR", "FUTURE_INVERSE"}

\* The lower-case spellings, which stand for all that strings.ToUpper takes to a
\* market type.
ToUpper ==
    [spot |-> "SPOT", margin |-> "MARGIN",
     perp_linear |-> "PERP_LINEAR", perp_inverse |-> "PERP_INVERSE",
     future_linear |-> "FUTURE_LINEAR", future_inverse |-> "FUTURE_INVERSE"]

\* core.ParseMarketType: a market type however it is spelled; "UNSPECIFIED" is its error.
ParseMarketType(s) ==
    IF s \in MarketTypes THEN s
    ELSE IF s \in DOMAIN ToUpper THEN ToUpper[s]
    ELSE "UNSPECIFIED"

IsInverse(market) == market \in {"PERP_INVERSE", "FUTURE_INVERSE"}

IsDerivative(market) == market \in {"PERP_LINEAR", "FUTURE_LINEAR"} \/ IsInverse(market)

\* core.ChannelValidFor
ChannelValidFor(channel, market) ==
    CASE channel \in {"metadata", "health"} -> TRUE
      [] channel \in {"mark_price", "index_price", "funding"} -> IsDerivative(market)
      [] channel = "orderbook" -> market = "PERP_LINEAR"
      [] OTHER -> FALSE

NoRef == [base |-> <<>>, quote |-> <<>>, settle |-> <<>>, market |-> "UNSPECIFIED"]

\* canonicalRe: one separator, something on either side of it.
CanonicalRe(s) ==
    \E n \in 2..(Len(s) - 1) : \A k \in 1..Len(s) : s[k] = "_" <=> k = n

\* core.ParseCanonical; NoRef is its error.
ParseCanonical(s, market) ==
    IF ~CanonicalRe(s) \/ market \notin MarketTypes THEN NoRef
    ELSE LET n == CHOOSE k \in 1..Len(s) : s[k] = "_"
             base == SubSeq(s, 1, n - 1)
             quote == SubSeq(s, n + 1, Len(s))
         IN  [base |-> base, quote |-> quote, market |-> market,
              settle |-> IF IsInverse(market) THEN base
                         ELSE IF IsDerivative(market) THEN quote ELSE <<>>]

Canonical(reference) == reference.base \o <<"_">> \o reference.quote
=============================================================================
