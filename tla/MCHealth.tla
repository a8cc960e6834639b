-------------------------------- MODULE MCHealth --------------------------------
(***************************************************************************)
(* Three streams: two channels of one instrument split over two sockets,   *)
(* and a second instrument on one of the sockets, so that an instrument    *)
(* depends on two sockets and a socket reaches two instruments.            *)
(***************************************************************************)
EXTENDS Health

MCStreams      == {"mark1", "index1", "mark2"}
MCSockets      == {"c1", "c2"}
MCInstruments  == {"i1", "i2"}
MCRegistered   == <<"mark1", "index1", "mark2">>
MCOrder        == <<"i1", "i2">>
MCSocketOf     == [s \in MCStreams |-> IF s = "mark1" THEN "c1" ELSE "c2"]
MCInstrumentOf == [s \in MCStreams |-> IF s = "mark2" THEN "i2" ELSE "i1"]

\* One stream, one socket: enough for the order of writes and for liveness.
OneStream       == {"mark1"}
OneSocket       == {"c1"}
OneInstrument   == {"i1"}
OneRegistered   == <<"mark1">>
OneOrder        == <<"i1">>
OneSocketOf     == [s \in OneStream |-> "c1"]
OneInstrumentOf == [s \in OneStream |-> "i1"]

MCSkewValues  == {0, -3, 9}
OneSkewValue  == {0}
=============================================================================
