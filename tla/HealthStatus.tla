------------------------------ MODULE HealthStatus ------------------------------
(***************************************************************************)
(* How the tracker of internal/health judges one stream: the statuses, the *)
(* socket states, and compute, a pure function of a stream's record, the   *)
(* state of its socket, the metadata gate, the clock skew and the time.    *)
(* Health.tla keeps those pieces of state; Fallback.tla judges with it.    *)
(***************************************************************************)
EXTENDS Integers

CONSTANTS
    FallbackMaxDuration,    \* how long REST may serve a stream; 0 is no limit
    ClockSkewDegradedMS,    \* thresholds on the absolute clock skew; 0 is none
    ClockSkewStaleMS

ASSUME ThresholdAssumption ==
    /\ FallbackMaxDuration \in Nat
    /\ ClockSkewDegradedMS \in Nat
    /\ ClockSkewStaleMS \in Nat

\* manoochv1.Status: the numbers are ordered by how bad the status is.
UNSPECIFIED == 0
HEALTHY     == 1
DEGRADED    == 2
STALE       == 3

SocketConnected   == "connected"
SocketDialing     == "dialing"
SocketCircuitOpen == "circuit_open"
SocketStates      == {SocketConnected, SocketDialing, SocketCircuitOpen}

\* A status and the cause named with it. The wording of a reason (durations,
\* milliseconds, channel names) is left out; its cause is kept.
Verdict(status, reason) == [status |-> status, reason |-> reason]

absolute(v) == IF v < 0 THEN -v ELSE v

SkewReaches(skewMS, limit) == limit > 0 /\ absolute(skewMS) >= limit

\* fallbackSince is 0 for the zero time.Time: the stream is not on REST.
OnFallback(stream) == stream.fallbackSince # 0

PastMaximum(stream, now) ==
    /\ OnFallback(stream)
    /\ FallbackMaxDuration > 0
    /\ now - stream.fallbackSince >= FallbackMaxDuration

\* The tests in the order the code makes them: every cause of STALE before any
\* cause of DEGRADED.
compute(stream, socket, metadataOK, metadataReason, skewMS, now) ==
    IF ~metadataOK THEN Verdict(STALE, metadataReason)
    ELSE IF socket.state = SocketCircuitOpen THEN Verdict(STALE, "circuit open")
    ELSE IF stream.fallbackFail # "" THEN Verdict(STALE, stream.fallbackFail)
    ELSE IF PastMaximum(stream, now) THEN Verdict(STALE, "rest fallback too long")
    ELSE IF SkewReaches(skewMS, ClockSkewStaleMS) THEN Verdict(STALE, "clock skew")
    ELSE IF stream.expired THEN Verdict(STALE, "key expired")
    ELSE IF OnFallback(stream) THEN Verdict(DEGRADED, "rest fallback")
    ELSE IF socket.state # SocketConnected THEN Verdict(DEGRADED, socket.reason)
    ELSE IF SkewReaches(skewMS, ClockSkewDegradedMS) THEN Verdict(DEGRADED, "clock skew")
    ELSE IF stream.rejected THEN Verdict(DEGRADED, "frame rejected")
    ELSE Verdict(HEALTHY, "")

-----------------------------------------------------------------------------
(***************************************************************************)
(* What each report does to the record of the stream it names.  Times are  *)
(* positive.  Left out: lastMessage, which only dates the health message,  *)
(* and source, which only a log line reads.                                *)
(***************************************************************************)

NewStream ==
    [expired |-> FALSE, rejected |-> FALSE, fallbackSince |-> 0, fallbackFail |-> ""]

Received(stream) ==
    [stream EXCEPT !.expired = FALSE, !.rejected = FALSE]

\* A poll clears an earlier failure and leaves fallbackSince alone.
Polled(stream) ==
    [stream EXCEPT !.expired = FALSE, !.fallbackFail = ""]

KeyExpired(stream) == [stream EXCEPT !.expired = TRUE]

FrameRejected(stream) == [stream EXCEPT !.rejected = TRUE]

FallbackEngaged(stream, now) ==
    IF OnFallback(stream)
    THEN stream
    ELSE [stream EXCEPT !.fallbackSince = now]

FallbackFailed(stream, reason) == [stream EXCEPT !.fallbackFail = reason]

FallbackDisengaged(stream) ==
    IF ~OnFallback(stream) /\ stream.fallbackFail = ""
    THEN stream
    ELSE [stream EXCEPT !.fallbackSince = 0, !.fallbackFail = ""]

=============================================================================
