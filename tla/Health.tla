--------------------------------- MODULE Health ---------------------------------
(***************************************************************************)
(* internal/health: the tracker.  Goroutines report events; each report    *)
(* changes the tracked state and recomputes, under one mutex, the venue    *)
(* status and the statuses of the instruments the report says it touched;  *)
(* the health messages that moved are then published outside the mutex, on *)
(* the reporting goroutine, one after another.  A heartbeat recomputes and *)
(* publishes everything.                                                   *)
(*                                                                         *)
(* A step of this module is one critical section or one Redis write.       *)
(***************************************************************************)
EXTENDS HealthStatus, Sequences

CONSTANTS
    Streams, Sockets, Instruments,
    SocketOf,           \* the connection that carries a stream
    InstrumentOf,       \* the instrument whose health key a stream is part of
    registered,         \* the streams in registration order
    order,              \* the instruments in registration order
    MetadataRequired,
    Reporters,          \* goroutines that report into the tracker
    SocketReasons, MetadataReasons, FailReasons, SkewValues,
    MaxLeaked, MaxRestarts, MaxReconnects,  \* bounds on the counters
    MaxNow,             \* bound on the clock
    MaxReports,         \* bound on the number of reports
    MaxLostWrites       \* bound on the number of writes Redis refuses

ASSUME TopologyAssumption ==
    /\ SocketOf \in [Streams -> Sockets]
    /\ InstrumentOf \in [Streams -> Instruments]
    /\ MetadataRequired \in BOOLEAN
    /\ "venue" \notin Instruments
    /\ "heartbeat" \notin Reporters
    /\ SkewValues \subseteq Int
    /\ "" \notin FailReasons

\* The topology New and Register leave behind: every stream once.
ASSUME RegistrationAssumption ==
    /\ registered \in Seq(Streams)
    /\ {registered[n] : n \in DOMAIN registered} = Streams
    /\ {order[n] : n \in DOMAIN order} = Instruments

VARIABLES
    streams,        \* [Streams -> record]
    sockets,        \* [Sockets -> [state, reason]]
    skewMS, leaked, reconnects, restarts,
    metadataOK, metadataReason,
    judged,         \* [Streams -> verdict]: stream.status, stream.reason
    rollup,         \* [Instruments -> verdict]: instrument.status and reason
    venue,          \* verdict: venueStatus, venueReason
    now,
    writing,        \* [goroutine -> snapshots it has still to publish]
    healthKeys,     \* the last-value health keys in Redis
    reports, lostWrites     \* how much of the two bounds is used

tracked == <<streams, sockets, skewMS, metadataOK, metadataReason>>
inputs  == <<tracked, leaked, reconnects, restarts>>
cached  == <<judged, rollup, venue>>
vars    == <<inputs, cached, now, writing, healthKeys, reports, lostWrites>>

Heartbeat == "heartbeat"
Writers   == Reporters \cup {Heartbeat}
Keys      == Instruments \cup {"venue"}
Absent    == Verdict(UNSPECIFIED, "")

-----------------------------------------------------------------------------
(***************************************************************************)
(* Status                                                                  *)
(***************************************************************************)

Status(s) ==
    compute(streams[s], sockets[SocketOf[s]], metadataOK, metadataReason, skewMS, now)

\* The sockets some stream is registered on: the others do not count.
socketIDs == {SocketOf[s] : s \in Streams}

\* The code names the first socket in registration order that is at fault; the
\* reason here is the fault.
computeVenue ==
    IF ~metadataOK THEN Verdict(STALE, metadataReason)
    ELSE IF \E c \in socketIDs : sockets[c].state = SocketCircuitOpen
         THEN Verdict(STALE, "circuit open")
    ELSE IF SkewReaches(skewMS, ClockSkewStaleMS) THEN Verdict(STALE, "clock skew")
    ELSE IF leaked > 0 THEN Verdict(DEGRADED, "leaked goroutines")
    ELSE IF \E c \in socketIDs : sockets[c].state # SocketConnected
         THEN Verdict(DEGRADED, "socket not connected")
    ELSE IF SkewReaches(skewMS, ClockSkewDegradedMS) THEN Verdict(DEGRADED, "clock skew")
    ELSE Verdict(HEALTHY, "")

\* The cached verdicts of an instrument's channels, by place of registration.
Channels(i) ==
    [n \in {m \in DOMAIN registered : InstrumentOf[registered[m]] = i} |->
        judged[registered[n]]]

\* Mutant: each channel overrides the one before it.
LastStatus(verdicts) ==
    LET last == CHOOSE n \in DOMAIN verdicts : \A m \in DOMAIN verdicts : m <= n
    IN  verdicts[last].status

\* The worst status of some verdicts, HEALTHY when there is none.
WorstStatus(verdicts) ==
    LET found == {HEALTHY} \cup {verdicts[n].status : n \in DOMAIN verdicts}
    IN  CHOOSE status \in found : \A other \in found : other <= status

\* The worst status, with the reason of the first verdict that has it.
FirstWorst(verdicts) ==
    LET status == WorstStatus(verdicts)
        causes == {n \in DOMAIN verdicts : verdicts[n].status = status}
        first  == CHOOSE n \in causes : \A m \in causes : n <= m
    IN  Verdict(status, IF status = HEALTHY THEN "" ELSE verdicts[first].reason)

worst(i) == FirstWorst(Channels(i))

instrumentsOn(c) == {InstrumentOf[s] : s \in {t \in Streams : SocketOf[t] = c}}

-----------------------------------------------------------------------------
(***************************************************************************)
(* Transitions                                                             *)
(***************************************************************************)

\* Mutant: the instruments are rolled up before their channels are judged.
refreshRollupFirst(touched) ==
    /\ rollup' = [i \in Instruments |-> IF i \in touched THEN worst(i) ELSE rollup[i]]
    /\ judged' = [s \in Streams |->
                    IF InstrumentOf[s] \in touched THEN Status(s)' ELSE judged[s]]
    /\ venue' = computeVenue'

\* Mutant: a report that touches no instrument leaves the venue alone too.
refreshNothing(touched) ==
    /\ judged' = [s \in Streams |->
                    IF InstrumentOf[s] \in touched THEN Status(s)' ELSE judged[s]]
    /\ rollup' = [i \in Instruments |->
                    IF i \in touched THEN worst(i)' ELSE rollup[i]]
    /\ venue' = IF touched = {} THEN venue ELSE computeVenue'

\* Only the touched instruments are recomputed; the venue always is.
refresh(touched) ==
    /\ judged' = [s \in Streams |->
                    IF InstrumentOf[s] \in touched THEN Status(s)' ELSE judged[s]]
    /\ rollup' = [i \in Instruments |->
                    IF i \in touched THEN worst(i)' ELSE rollup[i]]
    /\ venue' = computeVenue'

snapshotInstrument(i, verdict) == [key |-> i, said |-> verdict]

snapshotVenue == [key |-> "venue", said |-> venue]

\* The snapshots of the instruments of a set, in registration order.
SnapshotsOf(instruments, verdicts) ==
    LET chosen == SelectSeq(order, LAMBDA i : i \in instruments)
    IN  [n \in DOMAIN chosen |-> snapshotInstrument(chosen[n], verdicts[chosen[n]])]

snapshotAll == SnapshotsOf(Instruments, rollup) \o <<snapshotVenue>>

\* The health messages whose content a refresh changed.
moved(touched) ==
    SnapshotsOf({i \in touched : rollup'[i] # rollup[i]}, rollup')
        \o IF venue' # venue THEN <<snapshotVenue'>> ELSE <<>>

\* A goroutine inside write cannot report: the batch is published on its stack.
Free(r) == writing[r] = <<>> /\ reports < MaxReports

\* The common part of every report: refresh what was touched and go on to
\* publish what moved.
update(r, touched) ==
    /\ UNCHANGED <<now, healthKeys, lostWrites>>
    /\ refresh(touched)
    /\ writing' = [writing EXCEPT ![r] = moved(touched)]
    /\ reports' = reports + 1

-----------------------------------------------------------------------------
(***************************************************************************)
(* Reports.  One disjunct per early return, which touches nothing.         *)
(***************************************************************************)

OthersUnchanged ==
    UNCHANGED <<sockets, skewMS, metadataOK, metadataReason, leaked, reconnects, restarts>>

ReportReceived(r, s) ==
    /\ Free(r)
    /\ streams' = [streams EXCEPT ![s] = Received(@)]
    /\ OthersUnchanged
    /\ update(r, {InstrumentOf[s]})

ReportPolled(r, s) ==
    /\ Free(r)
    /\ streams' = [streams EXCEPT ![s] = Polled(@)]
    /\ OthersUnchanged
    /\ update(r, {InstrumentOf[s]})

ReportKeyExpired(r, s) ==
    /\ Free(r)
    /\ streams' = [streams EXCEPT ![s] = KeyExpired(@)]
    /\ OthersUnchanged
    /\ update(r, {InstrumentOf[s]})

\* Every stream of the socket is marked; only the instruments with a stream not
\* marked before are touched.
ReportFrameRejected(r, c) ==
    LET marked == {s \in Streams : SocketOf[s] = c /\ ~streams[s].rejected}
    IN  /\ Free(r)
        /\ streams' = [s \in Streams |->
                         IF s \in marked THEN FrameRejected(streams[s]) ELSE streams[s]]
        /\ OthersUnchanged
        /\ update(r, {InstrumentOf[s] : s \in marked})

ReportStreamRestarted(r, s) ==
    /\ Free(r) /\ restarts[s] < MaxRestarts
    /\ restarts' = [restarts EXCEPT ![s] = @ + 1]
    /\ UNCHANGED <<tracked, leaked, reconnects>>
    /\ update(r, {InstrumentOf[s]})

ReportFallbackEngaged(r, s) ==
    /\ Free(r)
    /\ streams' = [streams EXCEPT ![s] = FallbackEngaged(@, now)]
    /\ OthersUnchanged
    /\ update(r, IF OnFallback(streams[s]) THEN {} ELSE {InstrumentOf[s]})

ReportFallbackFailed(r, s, reason) ==
    /\ Free(r)
    /\ streams' = [streams EXCEPT ![s] = FallbackFailed(@, reason)]
    /\ OthersUnchanged
    /\ update(r, IF streams[s].fallbackFail = reason
                 THEN {} ELSE {InstrumentOf[s]})

ReportFallbackDisengaged(r, s) ==
    /\ Free(r)
    /\ streams' = [streams EXCEPT ![s] = FallbackDisengaged(@)]
    /\ OthersUnchanged
    /\ update(r, IF FallbackDisengaged(streams[s]) = streams[s]
                 THEN {} ELSE {InstrumentOf[s]})

\* Without MetadataRequired the report returns before update.
ReportMetadataState(r, ok, reason) ==
    /\ Free(r) /\ MetadataRequired
    /\ metadataOK' = ok
    /\ metadataReason' = IF ok THEN metadataReason ELSE reason
    /\ UNCHANGED <<streams, sockets, skewMS, leaked, reconnects, restarts>>
    /\ update(r, IF metadataOK = ok /\ (ok \/ metadataReason = reason)
                 THEN {} ELSE Instruments)

\* Mutant: a socket is taken for a fact about the venue alone.
ReportSocketStateOfVenue(r, c, state, reason) ==
    /\ Free(r)
    /\ sockets' = [sockets EXCEPT ![c] = [state |-> state, reason |-> reason]]
    /\ UNCHANGED <<streams, skewMS, metadataOK, metadataReason,
                   leaked, reconnects, restarts>>
    /\ update(r, {})

ReportSocketState(r, c, state, reason) ==
    /\ Free(r)
    /\ sockets' = [sockets EXCEPT ![c] = [state |-> state, reason |-> reason]]
    /\ UNCHANGED <<streams, skewMS, metadataOK, metadataReason,
                   leaked, reconnects, restarts>>
    /\ update(r, IF sockets[c].state = state /\ sockets[c].reason = reason
                 THEN {} ELSE instrumentsOn(c))

ReportReconnected(r) ==
    /\ Free(r) /\ reconnects < MaxReconnects
    /\ reconnects' = reconnects + 1
    /\ UNCHANGED <<tracked, leaked, restarts>>
    /\ update(r, {})

ReportClockSkew(r, milliseconds) ==
    /\ Free(r)
    /\ skewMS' = milliseconds
    /\ UNCHANGED <<streams, sockets, metadataOK, metadataReason,
                   leaked, reconnects, restarts>>
    /\ update(r, IF skewMS = milliseconds THEN {} ELSE Instruments)

\* No instrument is touched: a leak is a fact about the venue.
ReportLeaked(r, n) ==
    /\ Free(r)
    /\ leaked' = n
    /\ UNCHANGED <<tracked, reconnects, restarts>>
    /\ update(r, {})

-----------------------------------------------------------------------------
(***************************************************************************)
(* The heartbeat, the writes and the clock                                 *)
(***************************************************************************)

\* Mutant: the heartbeat republishes without recomputing.
beatStale ==
    /\ writing[Heartbeat] = <<>>
    /\ UNCHANGED <<inputs, now, healthKeys, reports, lostWrites>>
    /\ refresh({})
    /\ writing' = [writing EXCEPT ![Heartbeat] = snapshotAll']

\* Mutant: the heartbeat publishes what moved, like any other report.
beatMovedOnly ==
    /\ writing[Heartbeat] = <<>>
    /\ UNCHANGED <<inputs, now, healthKeys, reports, lostWrites>>
    /\ refresh(Instruments)
    /\ writing' = [writing EXCEPT ![Heartbeat] = moved(Instruments)]

\* The transitions refresh finds are dropped: snapshotAll republishes every key.
beat ==
    /\ writing[Heartbeat] = <<>>
    /\ UNCHANGED <<inputs, now, healthKeys, reports, lostWrites>>
    /\ refresh(Instruments)
    /\ writing' = [writing EXCEPT ![Heartbeat] = snapshotAll']

\* One iteration of write: the next snapshot of the batch is published, or
\* skipped when its status is UNSPECIFIED.
write(w) ==
    /\ writing[w] # <<>>
    /\ LET snapshot == Head(writing[w])
       IN  healthKeys' = IF snapshot.said.status = UNSPECIFIED THEN healthKeys
                         ELSE [healthKeys EXCEPT ![snapshot.key] = snapshot.said]
    /\ writing' = [writing EXCEPT ![w] = Tail(@)]
    /\ UNCHANGED <<inputs, cached, now, reports, lostWrites>>

\* Redis refuses the write: the error is dropped and the batch goes on.
LoseWrite(w) ==
    /\ writing[w] # <<>>
    /\ lostWrites < MaxLostWrites
    /\ lostWrites' = lostWrites + 1
    /\ writing' = [writing EXCEPT ![w] = Tail(@)]
    /\ UNCHANGED <<inputs, cached, now, healthKeys, reports>>

Tick ==
    /\ now < MaxNow
    /\ now' = now + 1
    /\ UNCHANGED <<inputs, cached, writing, healthKeys, reports, lostWrites>>

-----------------------------------------------------------------------------
\* The state Register leaves behind: every status seeded, nothing published.
Init ==
    /\ streams = [s \in Streams |-> NewStream]
    /\ sockets = [c \in Sockets |->
                    [state |-> SocketDialing, reason |-> "not yet connected"]]
    /\ skewMS = 0 /\ leaked = 0 /\ reconnects = 0
    /\ restarts = [s \in Streams |-> 0]
    /\ metadataOK = ~MetadataRequired
    /\ metadataReason = "metadata unavailable"
    /\ now = 1
    /\ judged = [s \in Streams |-> Status(s)]
    /\ rollup = [i \in Instruments |-> worst(i)]
    /\ venue = computeVenue
    /\ writing = [w \in Writers |-> <<>>]
    /\ healthKeys = [k \in Keys |-> Absent]
    /\ reports = 0 /\ lostWrites = 0

Report(r) ==
    \/ \E s \in Streams :
         \/ ReportReceived(r, s)
         \/ ReportPolled(r, s)
         \/ ReportKeyExpired(r, s)
         \/ ReportStreamRestarted(r, s)
         \/ ReportFallbackEngaged(r, s)
         \/ \E reason \in FailReasons : ReportFallbackFailed(r, s, reason)
         \/ ReportFallbackDisengaged(r, s)
    \/ \E c \in Sockets :
         \/ ReportFrameRejected(r, c)
         \/ \E state \in SocketStates, reason \in SocketReasons :
              ReportSocketState(r, c, state, reason)
    \/ \E ok \in BOOLEAN, reason \in MetadataReasons : ReportMetadataState(r, ok, reason)
    \/ \E milliseconds \in SkewValues : ReportClockSkew(r, milliseconds)
    \/ \E n \in 1..MaxLeaked : ReportLeaked(r, n)
    \/ ReportReconnected(r)

Next ==
    \/ \E r \in Reporters : Report(r)
    \/ beat
    \/ \E w \in Writers : write(w) \/ LoseWrite(w)
    \/ Tick

Spec == Init /\ [][Next]_vars

\* The heartbeat ticks for as long as the process runs, and a goroutine inside
\* write goes on with its batch: each Redis call is bounded by the client's
\* timeout.  Nothing obliges a goroutine to report.
Fairness ==
    /\ WF_vars(beat)
    /\ \A w \in Writers : WF_vars(write(w))
    /\ WF_vars(Tick)

FairSpec == Spec /\ Fairness

-----------------------------------------------------------------------------
(***************************************************************************)
(* Properties                                                              *)
(***************************************************************************)

StreamRecords ==
    [expired : BOOLEAN, rejected : BOOLEAN, fallbackSince : Nat,
     fallbackFail : FailReasons \cup {""}]

TrackedOK ==
    /\ streams \in [Streams -> StreamRecords]
    /\ sockets \in [Sockets -> [state : SocketStates,
                                reason : SocketReasons \cup {"not yet connected"}]]
    /\ skewMS \in SkewValues \cup {0}
    /\ metadataOK \in BOOLEAN
    /\ metadataReason \in MetadataReasons \cup {"metadata unavailable"}

CountersOK ==
    /\ leaked \in Nat /\ reconnects \in Nat /\ restarts \in [Streams -> Nat]
    /\ now \in Nat \ {0}
    /\ reports \in Nat /\ lostWrites \in Nat

\* The tracked state and the counters hold what their Go types and the calls
\* that set them allow.
TypeOK == TrackedOK /\ CountersOK

\* The status of a stream as it was when its fallback, if it is on one, began.
StatusAtEngagement(s) ==
    compute(streams[s], sockets[SocketOf[s]], metadataOK, metadataReason, skewMS,
            streams[s].fallbackSince)

\* Each report names the instruments to recompute (health.go:639).  They are
\* always enough: a cached stream status is what compute answers now, but for a
\* fallback that crossed its maximum duration since the last recomputation.
StreamsCoherent ==
    \A s \in Streams : judged[s] \in {Status(s), StatusAtEngagement(s)}

\* An instrument's cached status is the worst of its channels' cached statuses,
\* although a report recomputes only the instruments it touched.
InstrumentsCoherent == \A i \in Instruments : rollup[i] = worst(i)

\* The cached venue status is what computeVenue answers, after every report.
VenueCoherent == venue = computeVenue

Coherent == StreamsCoherent /\ InstrumentsCoherent /\ VenueCoherent

\* What a health message says is never better than the truth under the mutex: an
\* instrument that reads HEALTHY has only healthy channels, and one that reads
\* better than STALE has no channel that is STALE for another reason than the
\* length of its fallback (which no event reports, publish.go:25).
NeverOverstated ==
    \A s \in Streams :
        LET said == rollup[InstrumentOf[s]].status
        IN  /\ said = HEALTHY => Status(s).status = HEALTHY
            /\ said < STALE /\ Status(s).status = STALE => PastMaximum(streams[s], now)

\* What a last-value health key should read.
Current(k) == IF k = "venue" THEN venue ELSE rollup[k]

\* Crossing the maximum fallback duration fires no event: the heartbeat notices
\* (publish.go:25), and the instrument turns STALE unless the fallback ended.
PastMaximumNoticed ==
    \A s \in Streams :
        PastMaximum(streams[s], now)
            ~> \/ rollup[InstrumentOf[s]].status = STALE
               \/ ~PastMaximum(streams[s], now)

\* Once the reports stop, every last-value key comes to read the tracker's
\* status and stays so, whatever order the writes outside the mutex landed in
\* and whichever of them were lost: the heartbeat republishes everything.
KeysCatchUp == <>[](\A k \in Keys : healthKeys[k] = Current(k))

=============================================================================
