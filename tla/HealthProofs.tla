------------------------------ MODULE HealthProofs ------------------------------
(***************************************************************************)
(* The tracker's cached statuses are right after every step, for any       *)
(* topology of streams, sockets and instruments and any thresholds.        *)
(***************************************************************************)
EXTENDS Health, TLAPS

\* What a refresh needs of the step it is part of: time stands still, and a
\* stream of an instrument that is not touched keeps everything its status is
\* computed from.
Untouched(s) ==
    /\ streams'[s] = streams[s]
    /\ sockets'[SocketOf[s]] = sockets[SocketOf[s]]
    /\ metadataOK' = metadataOK
    /\ metadataReason' = metadataReason
    /\ skewMS' = skewMS

\* As time passes the status of a stream moves at most once, from what it was
\* when its fallback began to STALE.
LEMMA TimeOnlyCrosses ==
    ASSUME NEW stream \in StreamRecords, NEW socket, NEW ok, NEW why, NEW skew,
           NEW t \in Nat \ {0}, NEW u \in Nat, t <= u
    PROVE  compute(stream, socket, ok, why, skew, t) \in
               {compute(stream, socket, ok, why, skew, u),
                compute(stream, socket, ok, why, skew, stream.fallbackSince)}
<1>1. stream.fallbackSince \in Nat
    BY DEF StreamRecords
<1>2. PastMaximum(stream, t) => PastMaximum(stream, u)
    BY <1>1, ThresholdAssumption DEF PastMaximum
<1>3. ~PastMaximum(stream, stream.fallbackSince)
    BY <1>1, ThresholdAssumption DEF PastMaximum
<1>4. CASE PastMaximum(stream, t)
    BY <1>2, <1>4 DEF compute
<1>5. CASE ~PastMaximum(stream, t)
    BY <1>3, <1>5 DEF compute
<1> QED BY <1>4, <1>5

\* A refresh whose touched set covers every stream that changed leaves the
\* caches coherent.
LEMMA RefreshCoherent ==
    ASSUME Coherent, NEW touched, refresh(touched), now' = now,
           \A s \in Streams : InstrumentOf[s] \notin touched => Untouched(s)
    PROVE  Coherent'
<1>1. StreamsCoherent'
  <2> SUFFICES ASSUME NEW s \in Streams
               PROVE  judged'[s] \in {Status(s)', StatusAtEngagement(s)'}
    BY DEF StreamsCoherent
  <2>1. CASE InstrumentOf[s] \in touched
    BY <2>1 DEF refresh
  <2>2. CASE InstrumentOf[s] \notin touched
    <3>1. Status(s)' = Status(s) /\ StatusAtEngagement(s)' = StatusAtEngagement(s)
      BY <2>2 DEF Untouched, Status, StatusAtEngagement
    <3>2. judged'[s] = judged[s]
      BY <2>2 DEF refresh
    <3> QED BY <3>1, <3>2 DEF Coherent, StreamsCoherent
  <2> QED BY <2>1, <2>2
<1>2. InstrumentsCoherent'
  <2> SUFFICES ASSUME NEW i \in Instruments
               PROVE  rollup'[i] = worst(i)'
    BY DEF InstrumentsCoherent
  <2>1. CASE i \in touched
    BY <2>1 DEF refresh
  <2>2. CASE i \notin touched
    <3>1. \A n \in DOMAIN registered : registered[n] \in Streams
      BY RegistrationAssumption
    <3>2. Channels(i)' = Channels(i)
      BY <2>2, <3>1 DEF Channels, refresh
    <3>3. worst(i)' = worst(i)
      BY <3>2 DEF worst
    <3> QED BY <2>2, <3>3 DEF refresh, Coherent, InstrumentsCoherent
  <2> QED BY <2>1, <2>2
<1>3. VenueCoherent'
  BY DEF refresh, VenueCoherent
<1> QED BY <1>1, <1>2, <1>3 DEF Coherent
-----------------------------------------------------------------------------
(***************************************************************************)
(* Every report covers, with the instruments it touches, the streams whose *)
(* status it can move.                                                     *)
(***************************************************************************)

\* The touched set of each report is large enough.
LEMMA ReportCovers ==
    ASSUME TypeOK, Coherent, NEW r \in Reporters, Report(r)
    PROVE  Coherent'
<1> USE TopologyAssumption
<1>0. streams \in [Streams -> StreamRecords] /\ DOMAIN sockets = Sockets
  BY DEF TypeOK, TrackedOK
<1>1. ASSUME NEW s \in Streams, NEW record, update(r, {InstrumentOf[s]}),
             streams' = [streams EXCEPT ![s] = record], OthersUnchanged
      PROVE  Coherent'
  <2>1. \A t \in Streams : InstrumentOf[t] \notin {InstrumentOf[s]} => Untouched(t)
    BY <1>0, <1>1 DEF Untouched, OthersUnchanged
  <2> HIDE DEF Untouched
  <2> QED BY <1>1, <2>1, RefreshCoherent DEF update
<1>2. ASSUME streams' = streams, OthersUnchanged, update(r, {})
      PROVE  Coherent'
  <2>1. \A t \in Streams : Untouched(t)
    BY <1>2 DEF Untouched, OthersUnchanged
  <2> QED BY <1>2, <2>1, RefreshCoherent DEF update
<1>3. ASSUME update(r, Instruments)
      PROVE  Coherent'
  <2>1. \A t \in Streams : InstrumentOf[t] \in Instruments
    OBVIOUS
  <2> QED BY <1>3, <2>1, RefreshCoherent DEF update
<1>4. CASE \E s \in Streams : ReportReceived(r, s)
  BY <1>1, <1>4 DEF ReportReceived
<1>5. CASE \E s \in Streams : ReportPolled(r, s)
  BY <1>1, <1>5 DEF ReportPolled
<1>6. CASE \E s \in Streams : ReportKeyExpired(r, s)
  BY <1>1, <1>6 DEF ReportKeyExpired
<1>7. CASE \E s \in Streams : ReportStreamRestarted(r, s)
  <2> PICK s \in Streams : ReportStreamRestarted(r, s)
    BY <1>7
  <2>1. \A t \in Streams : Untouched(t)
    BY DEF Untouched, ReportStreamRestarted, tracked
  <2> QED BY <2>1, RefreshCoherent DEF update, ReportStreamRestarted
<1>8. CASE \E s \in Streams : ReportFallbackEngaged(r, s)
  <2> PICK s \in Streams : ReportFallbackEngaged(r, s)
    BY <1>8
  <2>1. CASE OnFallback(streams[s])
    <3>1. streams' = streams
      BY <1>0, <2>1 DEF ReportFallbackEngaged, FallbackEngaged
    <3> QED BY <1>2, <2>1, <3>1 DEF ReportFallbackEngaged
  <2>2. CASE ~OnFallback(streams[s])
    BY <1>1, <2>2 DEF ReportFallbackEngaged
  <2> QED BY <2>1, <2>2
<1>9. CASE \E s \in Streams, reason \in FailReasons : ReportFallbackFailed(r, s, reason)
  <2> PICK s \in Streams, reason \in FailReasons : ReportFallbackFailed(r, s, reason)
    BY <1>9
  <2>1. CASE streams[s].fallbackFail = reason
    <3>1. streams[s] \in StreamRecords
      BY <1>0
    <3>2. FallbackFailed(streams[s], reason) = streams[s]
      BY <2>1, <3>1 DEF FallbackFailed, StreamRecords
    <3>3. streams' = streams
      BY <1>0, <3>2 DEF ReportFallbackFailed
    <3> QED BY <1>2, <2>1, <3>3 DEF ReportFallbackFailed
  <2>2. CASE streams[s].fallbackFail # reason
    BY <1>1, <2>2 DEF ReportFallbackFailed
  <2> QED BY <2>1, <2>2
<1>10. CASE \E s \in Streams : ReportFallbackDisengaged(r, s)
  <2> PICK s \in Streams : ReportFallbackDisengaged(r, s)
    BY <1>10
  <2>1. CASE FallbackDisengaged(streams[s]) = streams[s]
    <3>1. streams' = streams
      BY <1>0, <2>1 DEF ReportFallbackDisengaged
    <3> QED BY <1>2, <2>1, <3>1 DEF ReportFallbackDisengaged
  <2>2. CASE FallbackDisengaged(streams[s]) # streams[s]
    BY <1>1, <2>2 DEF ReportFallbackDisengaged
  <2> QED BY <2>1, <2>2
<1>11. CASE \E c \in Sockets : ReportFrameRejected(r, c)
  <2> PICK c \in Sockets : ReportFrameRejected(r, c)
    BY <1>11
  <2> DEFINE marked == {s \in Streams : SocketOf[s] = c /\ ~streams[s].rejected}
             touched == {InstrumentOf[s] : s \in marked}
  <2>1. \A t \in Streams : InstrumentOf[t] \notin touched => Untouched(t)
    BY DEF ReportFrameRejected, Untouched, OthersUnchanged
  <2>2. update(r, touched)
    BY DEF ReportFrameRejected
  <2> QED BY <2>1, <2>2, RefreshCoherent DEF update
<1>12. CASE \E c \in Sockets, state \in SocketStates, reason \in SocketReasons :
              ReportSocketState(r, c, state, reason)
  <2> PICK c \in Sockets, state \in SocketStates, reason \in SocketReasons :
              ReportSocketState(r, c, state, reason)
    BY <1>12
  <2>1. CASE sockets[c].state = state /\ sockets[c].reason = reason
    <3>1. sockets[c] = [state |-> state, reason |-> reason]
      BY <2>1 DEF TypeOK, TrackedOK
    <3>2. \A t \in Streams : Untouched(t)
      BY <1>0, <3>1 DEF Untouched, ReportSocketState
    <3>3. update(r, {})
      BY <2>1 DEF ReportSocketState
    <3> QED BY <3>2, <3>3, RefreshCoherent DEF update
  <2>2. CASE ~(sockets[c].state = state /\ sockets[c].reason = reason)
    <3>1. \A t \in Streams : InstrumentOf[t] \notin instrumentsOn(c) => Untouched(t)
      BY <1>0 DEF Untouched, ReportSocketState, instrumentsOn
    <3>2. update(r, instrumentsOn(c))
      BY <2>2 DEF ReportSocketState
    <3> QED BY <3>1, <3>2, RefreshCoherent DEF update
  <2> QED BY <2>1, <2>2
<1>13. CASE \E ok \in BOOLEAN, reason \in MetadataReasons : ReportMetadataState(r, ok, reason)
  <2> PICK ok \in BOOLEAN, reason \in MetadataReasons : ReportMetadataState(r, ok, reason)
    BY <1>13
  <2>1. CASE metadataOK = ok /\ (ok \/ metadataReason = reason)
    <3>1. metadataOK' = metadataOK /\ metadataReason' = metadataReason
      BY <2>1 DEF ReportMetadataState, TypeOK, TrackedOK
    <3>2. \A t \in Streams : Untouched(t)
      BY <3>1 DEF Untouched, ReportMetadataState
    <3>3. update(r, {})
      BY <2>1 DEF ReportMetadataState
    <3> QED BY <3>2, <3>3, RefreshCoherent DEF update
  <2>2. CASE ~(metadataOK = ok /\ (ok \/ metadataReason = reason))
    BY <1>3, <2>2 DEF ReportMetadataState
  <2> QED BY <2>1, <2>2
<1>14. CASE \E milliseconds \in SkewValues : ReportClockSkew(r, milliseconds)
  <2> PICK milliseconds \in SkewValues : ReportClockSkew(r, milliseconds)
    BY <1>14
  <2>1. CASE skewMS = milliseconds
    <3>1. \A t \in Streams : Untouched(t)
      BY <2>1 DEF Untouched, ReportClockSkew
    <3>2. update(r, {})
      BY <2>1 DEF ReportClockSkew
    <3> QED BY <3>1, <3>2, RefreshCoherent DEF update
  <2>2. CASE skewMS # milliseconds
    BY <1>3, <2>2 DEF ReportClockSkew
  <2> QED BY <2>1, <2>2
<1>15. CASE \E n \in 1..MaxLeaked : ReportLeaked(r, n)
  <2>1. \A t \in Streams : Untouched(t)
    BY <1>15 DEF Untouched, ReportLeaked, tracked
  <2>2. update(r, {})
    BY <1>15 DEF ReportLeaked
  <2> QED BY <2>1, <2>2, RefreshCoherent DEF update
<1>16. CASE ReportReconnected(r)
  <2>1. \A t \in Streams : Untouched(t)
    BY <1>16 DEF Untouched, ReportReconnected, tracked
  <2>2. update(r, {})
    BY <1>16 DEF ReportReconnected
  <2> QED BY <2>1, <2>2, RefreshCoherent DEF update
<1> QED BY <1>4, <1>5, <1>6, <1>7, <1>8, <1>9, <1>10, <1>11, <1>12, <1>13, <1>14,
           <1>15, <1>16 DEF Report

-----------------------------------------------------------------------------
\* A report leaves the tracked state well typed.
LEMMA ReportTracked ==
    ASSUME TypeOK, NEW r \in Reporters, Report(r)
    PROVE  TrackedOK'
<1> USE TopologyAssumption
<1>1. /\ streams \in [Streams -> StreamRecords]
      /\ \A s \in Streams : streams[s] \in StreamRecords
      /\ now \in Nat
  BY DEF TypeOK, TrackedOK, CountersOK
<1>2. ASSUME NEW s \in Streams, NEW record \in StreamRecords,
             streams' = [streams EXCEPT ![s] = record], OthersUnchanged
      PROVE  TrackedOK'
  <2>1. streams' \in [Streams -> StreamRecords]
    BY <1>1, <1>2
  <2> QED BY <1>2, <2>1 DEF TypeOK, TrackedOK, OthersUnchanged
<1>3. CASE \E s \in Streams : ReportReceived(r, s)
  <2> PICK s \in Streams : ReportReceived(r, s)  BY <1>3
  <2>1. Received(streams[s]) \in StreamRecords
    BY <1>1 DEF Received, StreamRecords
  <2> QED BY <1>2, <2>1 DEF ReportReceived
<1>4. CASE \E s \in Streams : ReportPolled(r, s)
  <2> PICK s \in Streams : ReportPolled(r, s)  BY <1>4
  <2>1. Polled(streams[s]) \in StreamRecords
    BY <1>1 DEF Polled, StreamRecords
  <2> QED BY <1>2, <2>1 DEF ReportPolled
<1>5. CASE \E s \in Streams : ReportKeyExpired(r, s)
  <2> PICK s \in Streams : ReportKeyExpired(r, s)  BY <1>5
  <2>1. KeyExpired(streams[s]) \in StreamRecords
    BY <1>1 DEF KeyExpired, StreamRecords
  <2> QED BY <1>2, <2>1 DEF ReportKeyExpired
<1>6. CASE \E s \in Streams : ReportFallbackEngaged(r, s)
  <2> PICK s \in Streams : ReportFallbackEngaged(r, s)  BY <1>6
  <2>1. FallbackEngaged(streams[s], now) \in StreamRecords
    BY <1>1 DEF FallbackEngaged, StreamRecords
  <2> QED BY <1>2, <2>1 DEF ReportFallbackEngaged
<1>7. CASE \E s \in Streams, reason \in FailReasons : ReportFallbackFailed(r, s, reason)
  <2> PICK s \in Streams, reason \in FailReasons : ReportFallbackFailed(r, s, reason)
    BY <1>7
  <2>1. FallbackFailed(streams[s], reason) \in StreamRecords
    BY <1>1 DEF FallbackFailed, StreamRecords
  <2> QED BY <1>2, <2>1 DEF ReportFallbackFailed
<1>8. CASE \E s \in Streams : ReportFallbackDisengaged(r, s)
  <2> PICK s \in Streams : ReportFallbackDisengaged(r, s)  BY <1>8
  <2>1. FallbackDisengaged(streams[s]) \in StreamRecords
    BY <1>1 DEF FallbackDisengaged, StreamRecords
  <2> QED BY <1>2, <2>1 DEF ReportFallbackDisengaged
<1>9. CASE \E c \in Sockets : ReportFrameRejected(r, c)
  <2>1. \A s \in Streams : FrameRejected(streams[s]) \in StreamRecords
    BY <1>1 DEF FrameRejected, StreamRecords
  <2>2. streams' \in [Streams -> StreamRecords] /\ OthersUnchanged
    BY <1>1, <1>9, <2>1 DEF ReportFrameRejected
  <2> QED BY <2>2 DEF OthersUnchanged, TypeOK, TrackedOK
<1>10. CASE \E c \in Sockets, state \in SocketStates, reason \in SocketReasons :
              ReportSocketState(r, c, state, reason)
  <2> PICK c \in Sockets, state \in SocketStates, reason \in SocketReasons :
              ReportSocketState(r, c, state, reason)
    BY <1>10
  <2> DEFINE Records == [state : SocketStates,
                         reason : SocketReasons \cup {"not yet connected"}]
             new == [state |-> state, reason |-> reason]
  <2>1. sockets \in [Sockets -> Records] /\ sockets' = [sockets EXCEPT ![c] = new]
    BY DEF TypeOK, TrackedOK, ReportSocketState
  <2>2. new \in Records
    OBVIOUS
  <2>3. sockets' \in [Sockets -> Records]
    <3> HIDE DEF Records, new
    <3> QED BY <2>1, <2>2
  <2>4. UNCHANGED <<streams, skewMS, metadataOK, metadataReason>>
    BY DEF ReportSocketState
  <2> QED BY <2>3, <2>4 DEF TypeOK, TrackedOK
<1>11. CASE \E ok \in BOOLEAN, reason \in MetadataReasons : ReportMetadataState(r, ok, reason)
  BY <1>11 DEF ReportMetadataState, TypeOK, TrackedOK
<1>12. CASE \E milliseconds \in SkewValues : ReportClockSkew(r, milliseconds)
  BY <1>12 DEF ReportClockSkew, TypeOK, TrackedOK
<1>13. CASE \/ \E s \in Streams : ReportStreamRestarted(r, s)
            \/ \E n \in 1..MaxLeaked : ReportLeaked(r, n)
            \/ ReportReconnected(r)
  <2>1. UNCHANGED tracked
    BY <1>13 DEF ReportStreamRestarted, ReportLeaked, ReportReconnected
  <2> QED BY <2>1 DEF tracked, TypeOK, TrackedOK
<1> QED BY <1>3, <1>4, <1>5, <1>6, <1>7, <1>8, <1>9, <1>10, <1>11, <1>12, <1>13
        DEF Report

\* A report leaves the counters well typed.
LEMMA ReportCounters ==
    ASSUME TypeOK, NEW r \in Reporters, Report(r)
    PROVE  CountersOK'
<1> USE DEF TypeOK, CountersOK, update
<1>1. CASE \E s \in Streams : ReportStreamRestarted(r, s)
  BY <1>1 DEF ReportStreamRestarted
<1>2. CASE \E n \in 1..MaxLeaked : ReportLeaked(r, n)
  BY <1>2 DEF ReportLeaked
<1>3. CASE ReportReconnected(r)
  BY <1>3 DEF ReportReconnected
<1>4. ASSUME UNCHANGED <<leaked, reconnects, restarts>>, NEW touched, update(r, touched)
      PROVE  CountersOK'
  BY <1>4
<1>5. CASE \E s \in Streams : \/ ReportReceived(r, s) \/ ReportPolled(r, s)
                             \/ ReportKeyExpired(r, s) \/ ReportFallbackEngaged(r, s)
                             \/ ReportFallbackDisengaged(r, s)
  BY <1>4, <1>5 DEF ReportReceived, ReportPolled, ReportKeyExpired,
                    ReportFallbackEngaged, ReportFallbackDisengaged, OthersUnchanged
<1>6. CASE \E s \in Streams, reason \in FailReasons : ReportFallbackFailed(r, s, reason)
  BY <1>4, <1>6 DEF ReportFallbackFailed, OthersUnchanged
<1>7. CASE \E c \in Sockets : ReportFrameRejected(r, c)
  BY <1>4, <1>7 DEF ReportFrameRejected, OthersUnchanged
<1>8. CASE \E c \in Sockets, state \in SocketStates, reason \in SocketReasons :
              ReportSocketState(r, c, state, reason)
  BY <1>4, <1>8 DEF ReportSocketState
<1>9. CASE \E ok \in BOOLEAN, reason \in MetadataReasons : ReportMetadataState(r, ok, reason)
  BY <1>4, <1>9 DEF ReportMetadataState
<1>10. CASE \E milliseconds \in SkewValues : ReportClockSkew(r, milliseconds)
  BY <1>4, <1>10 DEF ReportClockSkew
<1> QED BY <1>1, <1>2, <1>3, <1>5, <1>6, <1>7, <1>8, <1>9, <1>10 DEF Report

\* The type invariant, for the state the statuses are computed from.
THEOREM TypeCorrect == Spec => []TypeOK
<1>1. Init => TypeOK
  <2> SUFFICES ASSUME Init PROVE TypeOK
    OBVIOUS
  <2>1. NewStream \in StreamRecords
    BY DEF NewStream, StreamRecords
  <2>2. TrackedOK
    BY <2>1, TopologyAssumption DEF Init, TrackedOK, SocketStates
  <2>3. /\ leaked = 0 /\ reconnects = 0 /\ restarts = [s \in Streams |-> 0]
        /\ now = 1 /\ reports = 0 /\ lostWrites = 0
    BY DEF Init
  <2>4. CountersOK
    BY <2>3 DEF CountersOK
  <2> QED BY <2>2, <2>4 DEF TypeOK
<1>2. TypeOK /\ [Next]_vars => TypeOK'
  <2> SUFFICES ASSUME TypeOK, [Next]_vars
               PROVE  TypeOK'
    OBVIOUS
  <2>1. ASSUME NEW r \in Reporters, Report(r)
        PROVE  TypeOK'
    BY <2>1, ReportTracked, ReportCounters DEF TypeOK
  <2>2. ASSUME UNCHANGED inputs
        PROVE  TrackedOK'
    BY <2>2 DEF inputs, tracked, TypeOK, TrackedOK
  <2>3. CASE beat
    BY <2>2, <2>3 DEF beat, inputs, TypeOK, CountersOK
  <2>4. CASE \E w \in Writers : write(w) \/ LoseWrite(w)
    BY <2>2, <2>4 DEF write, LoseWrite, inputs, TypeOK, CountersOK
  <2>5. CASE Tick
    BY <2>2, <2>5 DEF Tick, inputs, TypeOK, CountersOK
  <2>6. CASE UNCHANGED vars
    BY <2>2, <2>6 DEF vars, inputs, TypeOK, CountersOK
  <2> QED BY <2>1, <2>3, <2>4, <2>5, <2>6 DEF Next
<1> QED BY <1>1, <1>2, PTL DEF Spec

-----------------------------------------------------------------------------
\* The three caches are coherent in every reachable state.
LEMMA CoherentInvariant == Spec => []Coherent
<1>1. Init => Coherent
  BY DEF Init, Coherent, StreamsCoherent, InstrumentsCoherent, VenueCoherent
<1>2. TypeOK /\ Coherent /\ [Next]_vars => Coherent'
  <2> SUFFICES ASSUME TypeOK, Coherent, [Next]_vars
               PROVE  Coherent'
    OBVIOUS
  <2>1. ASSUME NEW r \in Reporters, Report(r)
        PROVE  Coherent'
    BY <2>1, ReportCovers
  <2>2. CASE beat
    <3>1. \A s \in Streams : InstrumentOf[s] \in Instruments
      BY TopologyAssumption
    <3> QED BY <2>2, <3>1, RefreshCoherent DEF beat
  <2>3. ASSUME UNCHANGED <<inputs, cached>>, now' = now
        PROVE  Coherent'
    <3>1. \A s \in Streams : Status(s)' = Status(s)
                          /\ StatusAtEngagement(s)' = StatusAtEngagement(s)
      BY <2>3 DEF inputs, tracked, Status, StatusAtEngagement
    <3>2. StreamsCoherent'
      BY <2>3, <3>1 DEF cached, Coherent, StreamsCoherent
    <3>3. \A i \in Instruments : worst(i)' = worst(i)
      BY <2>3 DEF cached, worst, Channels
    <3>4. InstrumentsCoherent'
      BY <2>3, <3>3 DEF cached, Coherent, InstrumentsCoherent
    <3>5. VenueCoherent'
      BY <2>3 DEF inputs, tracked, cached, Coherent, VenueCoherent, computeVenue
    <3> QED BY <3>2, <3>4, <3>5 DEF Coherent
  <2>4. CASE \E w \in Writers : write(w) \/ LoseWrite(w)
    BY <2>3, <2>4 DEF write, LoseWrite
  <2>5. CASE Tick
    <3>1. \A s \in Streams : Status(s) \in {Status(s)', StatusAtEngagement(s)'}
      <4> TAKE s \in Streams
      <4>0. streams[s] \in StreamRecords
        BY DEF TypeOK, TrackedOK
      <4>1. now \in Nat \ {0} /\ now' \in Nat /\ now <= now'
        BY <2>5 DEF TypeOK, CountersOK, Tick
      <4> DEFINE At(t) == compute(streams[s], sockets[SocketOf[s]], metadataOK,
                                  metadataReason, skewMS, t)
      <4>2. At(now) \in {At(now'), At(streams[s].fallbackSince)}
        BY <4>0, <4>1, TimeOnlyCrosses
      <4> QED BY <2>5, <4>2 DEF Tick, inputs, tracked, Status, StatusAtEngagement
    <3>2. \A s \in Streams : StatusAtEngagement(s)' = StatusAtEngagement(s)
      BY <2>5 DEF Tick, inputs, tracked, StatusAtEngagement
    <3>3. StreamsCoherent'
      BY <2>5, <3>1, <3>2 DEF Tick, cached, Coherent, StreamsCoherent
    <3>4. \A i \in Instruments : worst(i)' = worst(i)
      BY <2>5 DEF Tick, cached, worst, Channels
    <3>5. InstrumentsCoherent'
      BY <2>5, <3>4 DEF Tick, cached, Coherent, InstrumentsCoherent
    <3>6. VenueCoherent'
      BY <2>5 DEF Tick, inputs, tracked, cached, Coherent, VenueCoherent, computeVenue
    <3> QED BY <3>3, <3>5, <3>6 DEF Coherent
  <2>6. CASE UNCHANGED vars
    BY <2>3, <2>6 DEF vars
  <2> QED BY <2>1, <2>2, <2>4, <2>5, <2>6 DEF Next
<1> QED BY <1>1, <1>2, TypeCorrect, PTL DEF Spec

\* No report forgets to recompute a stream's status that it moved: only time can
\* make a cached one old.
THEOREM StreamsStayCoherent == Spec => []StreamsCoherent
<1>1. Coherent => StreamsCoherent
  BY DEF Coherent
<1> QED BY <1>1, CoherentInvariant, PTL

\* Every instrument's cached status is the worst of its channels', although a
\* report recomputes only the instruments it touched.
THEOREM InstrumentsStayCoherent == Spec => []InstrumentsCoherent
<1>1. Coherent => InstrumentsCoherent
  BY DEF Coherent
<1> QED BY <1>1, CoherentInvariant, PTL

\* The cached venue status is never older than the last report.
THEOREM VenueStaysCoherent == Spec => []VenueCoherent
<1>1. Coherent => VenueCoherent
  BY DEF Coherent
<1> QED BY <1>1, CoherentInvariant, PTL

-----------------------------------------------------------------------------
\* compute answers one of the three statuses.
LEMMA ComputeStatus ==
    ASSUME NEW stream, NEW socket, NEW ok, NEW why, NEW skew, NEW t
    PROVE  compute(stream, socket, ok, why, skew, t).status \in {HEALTHY, DEGRADED, STALE}
  BY DEF compute, Verdict, HEALTHY, DEGRADED, STALE

\* No verdict is worse than the first of the worst.
LEMMA FirstWorstBounds ==
    ASSUME NEW verdicts,
           \A n \in DOMAIN verdicts : verdicts[n].status \in {HEALTHY, DEGRADED, STALE},
           NEW k \in DOMAIN verdicts
    PROVE  /\ FirstWorst(verdicts).status \in {HEALTHY, DEGRADED, STALE}
           /\ verdicts[k].status <= FirstWorst(verdicts).status
<1> DEFINE found == {HEALTHY} \cup {verdicts[n].status : n \in DOMAIN verdicts}
           Top(status) == \A other \in found : other <= status
<1>1. found \subseteq {1, 2, 3} /\ 1 \in found
  BY DEF HEALTHY, DEGRADED, STALE
<1>2. \E status \in found : Top(status)
  <2> HIDE DEF found
  <2>1. CASE 3 \in found
    BY <1>1, <2>1
  <2>2. CASE 3 \notin found /\ 2 \in found
    BY <1>1, <2>2
  <2>3. CASE 3 \notin found /\ 2 \notin found
    BY <1>1, <2>3
  <2> QED BY <2>1, <2>2, <2>3
<1>3. WorstStatus(verdicts) \in found /\ Top(WorstStatus(verdicts))
  <2>1. WorstStatus(verdicts) = CHOOSE status \in found : Top(status)
    BY DEF WorstStatus
  <2> HIDE DEF found, Top
  <2> QED BY <1>2, <2>1
<1>4. FirstWorst(verdicts).status = WorstStatus(verdicts)
  BY DEF FirstWorst, Verdict
<1>5. verdicts[k].status \in found
  OBVIOUS
<1>6. found \subseteq {HEALTHY, DEGRADED, STALE}
  OBVIOUS
<1> QED
  <2> HIDE DEF found
  <2> QED BY <1>3, <1>4, <1>5, <1>6

\* No stream's cached status is worse than its instrument's.
LEMMA RollupBounds ==
    ASSUME Coherent, NEW s \in Streams
    PROVE  /\ rollup[InstrumentOf[s]].status \in {HEALTHY, DEGRADED, STALE}
           /\ judged[s].status <= rollup[InstrumentOf[s]].status
<1> USE TopologyAssumption
<1> DEFINE i == InstrumentOf[s]
<1>1. \A t \in Streams : judged[t].status \in {HEALTHY, DEGRADED, STALE}
  <2> TAKE t \in Streams
  <2>1. /\ Status(t).status \in {HEALTHY, DEGRADED, STALE}
        /\ StatusAtEngagement(t).status \in {HEALTHY, DEGRADED, STALE}
    BY ComputeStatus DEF Status, StatusAtEngagement
  <2> QED BY <2>1 DEF Coherent, StreamsCoherent
<1>2. \A n \in DOMAIN registered : registered[n] \in Streams
  BY RegistrationAssumption
<1>3. PICK k \in DOMAIN registered : registered[k] = s
  BY RegistrationAssumption
<1>4. DOMAIN Channels(i) = {m \in DOMAIN registered : InstrumentOf[registered[m]] = i}
  BY DEF Channels
<1>5. \A n \in DOMAIN Channels(i) : Channels(i)[n] = judged[registered[n]]
  BY DEF Channels
<1>6. k \in DOMAIN Channels(i) /\ Channels(i)[k] = judged[s]
  BY <1>3, <1>4, <1>5
<1>7. \A n \in DOMAIN Channels(i) : Channels(i)[n].status \in {HEALTHY, DEGRADED, STALE}
  BY <1>1, <1>2, <1>4, <1>5
<1>8. /\ worst(i).status \in {HEALTHY, DEGRADED, STALE}
      /\ Channels(i)[k].status <= worst(i).status
  BY <1>6, <1>7, FirstWorstBounds DEF worst
<1>9. rollup[i] = worst(i)
  BY DEF Coherent, InstrumentsCoherent
<1> QED BY <1>6, <1>8, <1>9

\* A status differs from the one at engagement only for a fallback that ran past
\* its maximum, and that one was not HEALTHY when it began.
LEMMA CrossingOnly ==
    ASSUME NEW stream \in StreamRecords, NEW socket, NEW ok, NEW why, NEW skew, NEW t \in Nat
    PROVE  LET then == compute(stream, socket, ok, why, skew, t)
               engaged == compute(stream, socket, ok, why, skew, stream.fallbackSince)
           IN  \/ then = engaged
               \/ PastMaximum(stream, t) /\ engaged.status # HEALTHY
<1>0. stream.fallbackSince \in Nat
  BY DEF StreamRecords
<1>1. ~PastMaximum(stream, stream.fallbackSince)
  BY <1>0, ThresholdAssumption DEF PastMaximum
<1>2. CASE ~PastMaximum(stream, t)
  BY <1>1, <1>2 DEF compute
<1>3. CASE PastMaximum(stream, t)
  <2> DEFINE engaged == compute(stream, socket, ok, why, skew, stream.fallbackSince)
  <2>1. OnFallback(stream)
    BY <1>3 DEF PastMaximum
  <2>2. engaged.status \in {STALE, DEGRADED}
    BY <1>1, <2>1 DEF compute, Verdict
  <2> QED BY <1>3, <2>2 DEF HEALTHY, DEGRADED, STALE
<1> QED BY <1>2, <1>3

\* What a health message says is never better than what compute answers, but for
\* a fallback whose length no event reported yet.
THEOREM HealthNeverOverstated == Spec => []NeverOverstated
<1>1. TypeOK /\ Coherent => NeverOverstated
  <2> SUFFICES ASSUME TypeOK, Coherent, NEW s \in Streams
               PROVE  /\ rollup[InstrumentOf[s]].status = HEALTHY
                            => Status(s).status = HEALTHY
                      /\ rollup[InstrumentOf[s]].status < STALE /\ Status(s).status = STALE
                            => PastMaximum(streams[s], now)
    BY DEF NeverOverstated
  <2>1. /\ rollup[InstrumentOf[s]].status \in {HEALTHY, DEGRADED, STALE}
        /\ judged[s].status <= rollup[InstrumentOf[s]].status
    BY RollupBounds
  <2>2. judged[s] \in {Status(s), StatusAtEngagement(s)}
    BY DEF Coherent, StreamsCoherent
  <2>3. streams[s] \in StreamRecords /\ now \in Nat
    BY DEF TypeOK, TrackedOK, CountersOK
  <2>4. \/ Status(s) = StatusAtEngagement(s)
        \/ PastMaximum(streams[s], now) /\ StatusAtEngagement(s).status # HEALTHY
    BY <2>3, CrossingOnly DEF Status, StatusAtEngagement
  <2>5. /\ Status(s).status \in {HEALTHY, DEGRADED, STALE}
        /\ StatusAtEngagement(s).status \in {HEALTHY, DEGRADED, STALE}
    BY ComputeStatus DEF Status, StatusAtEngagement
  <2> QED BY <2>1, <2>2, <2>4, <2>5 DEF HEALTHY, DEGRADED, STALE
<1> QED BY <1>1, TypeCorrect, CoherentInvariant, PTL

=============================================================================
