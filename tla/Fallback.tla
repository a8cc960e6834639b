-------------------------------- MODULE Fallback --------------------------------
(***************************************************************************)
(* internal/fallback, with what it shares state with: a stream's publish   *)
(* path (internal/supervisor), the tracker's record of each stream         *)
(* (internal/health) and the stream's key in Redis.                        *)
(*                                                                         *)
(* Three kinds of goroutine interleave.  The watcher reacts to a key that  *)
(* expired, from a notification that may be lost or late and from a sweep, *)
(* and starts a poller.  A poller fetches over REST, checks that it still  *)
(* owns its stream and publishes.  A stream goroutine publishes websocket  *)
(* messages and ends the fallback.  A step is one critical section (of the *)
(* watcher's mutex or of the tracker's), or one call to Redis or the venue.*)
(***************************************************************************)
EXTENDS HealthStatus, FiniteSets, Sequences

CONSTANTS
    Streams,
    order,              \* the streams in the order the sweep visits them
    MaxConcurrentPolls,
    reasonCapacity, reasonPoll, reasonEmpty,    \* why a fallback failed
    Notifications,      \* Redis is configured with notify-keyspace-events Ex
    Stoppable,          \* bound: whether the shutdown is considered
    Slots,              \* bound: the poller goroutines of a stream alive at one time
    NoPoller

ASSUME PollAssumption ==
    /\ IsFiniteSet(Streams)
    /\ order \in Seq(Streams)
    /\ {order[n] : n \in DOMAIN order} = Streams
    /\ \A m, n \in DOMAIN order : order[m] = order[n] => m = n
    /\ "" \notin {reasonCapacity, reasonPoll, reasonEmpty}
    /\ Notifications \in BOOLEAN /\ Stoppable \in BOOLEAN
    /\ NoPoller \notin Streams \X Slots

ASSUME CapAssumption == MaxConcurrentPolls \in Nat \ {0}

VARIABLES
    active,     \* [Streams -> Pollers or NoPoller]: watcher.active
    expired,    \* SUBSET Streams: watcher.expired
    watcher,    \* the goroutine of Watcher.Run
    pollers,    \* [Pollers -> the goroutine of poller.run]
    stopped,    \* SUBSET Pollers: the ones whose stop channel is closed
    publishing, \* [Streams -> the stream goroutine inside publish]
    health,     \* [Streams -> the tracker's record]
    key,        \* [Streams -> the value in Redis]
    events,     \* SUBSET Streams: expiry notifications on their way
    cancelled   \* the context of Run has ended

vars == <<active, expired, watcher, pollers, stopped, publishing, health, key, events,
          cancelled>>

\* A poller goroutine is named by the stream it serves and a slot, which is used
\* again once the goroutine has returned and nobody holds a pointer to it.
Pollers   == Streams \X Slots
stream(p) == p[1]

NoGoroutine == [at |-> "none", why |-> "", status |-> UNSPECIFIED]
Unused(p)   == pollers[p].at = "none" /\ publishing[stream(p)].poller # p

Absent  == [source |-> "NONE", status |-> UNSPECIFIED]

\* The status the tracker gives a stream whose socket, clock and metadata are
\* fine.  Time stands still: what a long fallback turns into is in Health.tla.
Now == 1
Status(s) == compute(health[s], [state |-> SocketConnected, reason |-> ""], TRUE, "", 0, Now)

Report(s, record) == health' = [health EXCEPT ![s] = record]

Active == {s \in Streams : active[s] # NoPoller}

-----------------------------------------------------------------------------
(***************************************************************************)
(* Redis                                                                   *)
(***************************************************************************)

\* A key reaches its TTL.  The notification is sent, or never arrives.
KeyExpires(s) ==
    /\ key[s] # Absent
    /\ key' = [key EXCEPT ![s] = Absent]
    /\ events' \in IF Notifications THEN {events, events \cup {s}} ELSE {events}
    /\ UNCHANGED <<active, expired, watcher, pollers, stopped, publishing, health, cancelled>>

-----------------------------------------------------------------------------
(***************************************************************************)
(* The watcher.  at is where Run stands; found is what remains of a sweep, *)
(* the stream being dealt with first.                                      *)
(***************************************************************************)

Watching == watcher.at = "select"

\* Run: a notification names a stream; onExpired goes on to Expired.
onEvent(s) ==
    /\ Watching /\ s \in events
    /\ events' = events \ {s}
    /\ watcher' = [watcher EXCEPT !.at = "expired", !.found = <<s>>]
    /\ UNCHANGED <<active, expired, pollers, stopped, publishing, health, key, cancelled>>

Before(s, t) == \E m, n \in DOMAIN order : m < n /\ order[m] = s /\ order[n] = t

\* Run: the tick.  One pipelined EXISTS, then Expired for every key that was
\* missing when it ran, in order.  A pipeline that errors changes nothing.
sweep ==
    /\ Watching
    /\ LET missing == {s \in Streams : key[s] = Absent}
       IN  \E found \in [1..Cardinality(missing) -> missing] :
             /\ \A m, n \in DOMAIN found : m < n => Before(found[m], found[n])
             /\ watcher' = [watcher EXCEPT !.at = IF missing = {} THEN "select" ELSE "expired",
                                           !.found = found]
    /\ UNCHANGED <<active, expired, pollers, stopped, publishing, health, key, events, cancelled>>

\* Expired, for the stream at the head of found, in three critical sections.
Subject == Head(watcher.found)

\* The rest of the sweep, once Expired has returned.
Onward == [watcher EXCEPT !.at = IF Tail(watcher.found) = <<>> THEN "select" ELSE "expired",
                          !.found = Tail(watcher.found)]

markExpired ==
    /\ watcher.at = "expired"
    /\ expired' = expired \cup {Subject}
    /\ watcher' = [watcher EXCEPT !.at = IF Subject \in expired THEN "engage" ELSE "report"]
    /\ UNCHANGED <<active, pollers, stopped, publishing, health, key, events, cancelled>>

\* Health.KeyExpired, then OnExpired, which is the supervisor's (Socket.tla).
reportExpired ==
    /\ watcher.at = "report"
    /\ Report(Subject, KeyExpired(health[Subject]))
    /\ watcher' = [watcher EXCEPT !.at = "engage"]
    /\ UNCHANGED <<active, expired, pollers, stopped, publishing, key, events, cancelled>>

\* Mutant: the comparison with the cap is off by one.
engageOneMore ==
    /\ watcher.at = "engage"
    /\ \/ /\ Subject \in Active
          /\ watcher' = Onward
          /\ UNCHANGED <<active, pollers, stopped>>
       \/ /\ Subject \notin Active
          /\ Cardinality(Active) <= MaxConcurrentPolls
          /\ \E p \in {Subject} \X Slots :
                /\ Unused(p)
                /\ active' = [active EXCEPT ![Subject] = p]
                /\ pollers' = [pollers EXCEPT ![p] = [NoGoroutine EXCEPT !.at = "created"]]
                /\ stopped' = stopped \ {p}
          /\ watcher' = [watcher EXCEPT !.at = "engaged"]
    /\ UNCHANGED <<expired, publishing, health, key, events, cancelled>>

\* engage under the mutex: already on REST, past the cap, or a new poller.
engage ==
    /\ watcher.at = "engage"
    /\ \/ /\ Subject \in Active
          /\ watcher' = Onward
          /\ UNCHANGED <<active, pollers, stopped>>
       \/ /\ Subject \notin Active
          /\ Cardinality(Active) >= MaxConcurrentPolls
          /\ watcher' = [watcher EXCEPT !.at = "refused"]
          /\ UNCHANGED <<active, pollers, stopped>>
       \/ /\ Subject \notin Active
          /\ Cardinality(Active) < MaxConcurrentPolls
          /\ \E p \in {Subject} \X Slots :
                /\ Unused(p)
                /\ active' = [active EXCEPT ![Subject] = p]
                /\ pollers' = [pollers EXCEPT ![p] = [NoGoroutine EXCEPT !.at = "created"]]
                /\ stopped' = stopped \ {p}
          /\ watcher' = [watcher EXCEPT !.at = "engaged"]
    /\ UNCHANGED <<expired, publishing, health, key, events, cancelled>>

\* Mutant: a stream past the cap is only logged.
reportRefusedInLog ==
    /\ watcher.at = "refused"
    /\ watcher' = Onward
    /\ UNCHANGED <<active, expired, pollers, stopped, publishing, health, key, events, cancelled>>

\* engage after the unlock, past the cap.
reportRefused ==
    /\ watcher.at = "refused"
    /\ Report(Subject, FallbackFailed(health[Subject], reasonCapacity))
    /\ watcher' = Onward
    /\ UNCHANGED <<active, expired, pollers, stopped, publishing, key, events, cancelled>>

\* Mutant: no goroutine is started once the context has ended.
reportEngagedUnlessEnded ==
    /\ watcher.at = "engaged"
    /\ Report(Subject, FallbackEngaged(health[Subject], Now))
    /\ \E p \in {Subject} \X Slots :
          /\ pollers[p].at = "created"
          /\ pollers' = IF cancelled THEN pollers ELSE [pollers EXCEPT ![p].at = "fetch"]
    /\ watcher' = Onward
    /\ UNCHANGED <<active, expired, stopped, publishing, key, events, cancelled>>

\* engage after the unlock: Health.FallbackEngaged, then go poller.run.
reportEngaged ==
    /\ watcher.at = "engaged"
    /\ Report(Subject, FallbackEngaged(health[Subject], Now))
    /\ \E p \in {Subject} \X Slots :
          /\ pollers[p].at = "created"
          /\ pollers' = [pollers EXCEPT ![p].at = "fetch"]
    /\ watcher' = Onward
    /\ UNCHANGED <<active, expired, stopped, publishing, key, events, cancelled>>

\* stop: every poller is taken off, then signalled and waited for, one at a time.
\* (The channel of notifications closes only with the subscription, in Run.)
stop ==
    /\ Watching /\ cancelled
    /\ watcher' = [watcher EXCEPT !.at = "halt", !.halting = {active[s] : s \in Active}]
    /\ active' = [s \in Streams |-> NoPoller]
    /\ UNCHANGED <<expired, pollers, stopped, publishing, health, key, events, cancelled>>

halt(p) ==
    /\ watcher.at = "halt" /\ p \in watcher.halting
    /\ \/ /\ watcher.halting \cap stopped = {}
          /\ stopped' = stopped \cup {p}
          /\ UNCHANGED watcher
       \/ /\ pollers[p].at = "none"
          /\ watcher' = [watcher EXCEPT !.halting = @ \ {p}]
          /\ UNCHANGED stopped
    /\ UNCHANGED <<active, expired, pollers, publishing, health, key, events, cancelled>>

\* Mutant: the pollers are not waited for.
RunReturnsAtOnce ==
    /\ watcher.at = "halt"
    /\ watcher' = [watcher EXCEPT !.at = "returned"]
    /\ UNCHANGED <<active, expired, pollers, stopped, publishing, health, key, events, cancelled>>

RunReturns ==
    /\ watcher.at = "halt" /\ watcher.halting = {}
    /\ watcher' = [watcher EXCEPT !.at = "returned"]
    /\ UNCHANGED <<active, expired, pollers, stopped, publishing, health, key, events, cancelled>>

-----------------------------------------------------------------------------
(***************************************************************************)
(* A poller.  at is where run stands; why is the reason of a failure about *)
(* to be reported, status what the envelope was stamped with.              *)
(***************************************************************************)

\* Everything but the pollers.
PollerOnly == UNCHANGED <<active, expired, watcher, publishing, events, cancelled>>

Goto(p, place) == pollers' = [pollers EXCEPT ![p].at = place]

Fails(p, reason) == pollers' = [pollers EXCEPT ![p].at = "failed", ![p].why = reason]

\* poll: FetchOnce answers the value, answers without it, or errors; an error of
\* a context that ended is not reported.
fetched(p) ==
    /\ pollers[p].at = "fetch"
    /\ \/ Goto(p, "owns")
       \/ Fails(p, reasonEmpty)
       \/ ~cancelled /\ Fails(p, reasonPoll)
       \/ cancelled /\ Goto(p, "wait")
    /\ PollerOnly /\ UNCHANGED <<stopped, health, key>>

\* publish: the ownership test, under the watcher's mutex.  A message without an
\* envelope is a failure of its own.
owns(p) ==
    /\ pollers[p].at = "owns"
    /\ \/ active[stream(p)] # p /\ Goto(p, "wait")
       \/ active[stream(p)] = p /\ Goto(p, "polled")
       \/ active[stream(p)] = p /\ Fails(p, reasonEmpty)
    /\ PollerOnly /\ UNCHANGED <<stopped, health, key>>

\* publish: Health.Polled.
polled(p) ==
    /\ pollers[p].at = "polled"
    /\ Report(stream(p), Polled(health[stream(p)]))
    /\ Goto(p, "stamp")
    /\ PollerOnly /\ UNCHANGED <<stopped, key>>

\* publish: the envelope is stamped with the tracker's status.
stampRest(p) ==
    /\ pollers[p].at = "stamp"
    /\ pollers' = [pollers EXCEPT ![p].at = "write", ![p].status = Status(stream(p)).status]
    /\ PollerOnly /\ UNCHANGED <<stopped, health, key>>

\* publish: the write to Redis.  A write that errors may have landed all the
\* same; the error is reported unless the context ended.
writeRest(p) ==
    /\ pollers[p].at = "write"
    /\ LET landed == [key EXCEPT ![stream(p)] =
                        [source |-> "REST", status |-> pollers[p].status]]
           Leave(place, reason) ==
               pollers' = [pollers EXCEPT ![p] = [@ EXCEPT !.at = place, !.why = reason,
                                                           !.status = UNSPECIFIED]]
       IN  \/ key' = landed /\ Leave("wait", "")
           \/ /\ key' \in {key, landed}
              /\ IF cancelled THEN Leave("wait", "") ELSE Leave("failed", reasonPoll)
    /\ PollerOnly /\ UNCHANGED <<stopped, health>>

\* poll, publish: Health.FallbackFailed.  No path to here asks whether the poller
\* still owns the stream.
reportFailed(p) ==
    /\ pollers[p].at = "failed"
    /\ Report(stream(p), FallbackFailed(health[stream(p)], pollers[p].why))
    /\ pollers' = [pollers EXCEPT ![p].at = "wait", ![p].why = ""]
    /\ PollerOnly /\ UNCHANGED <<stopped, key>>

\* run: the select.  The tick may win over a stop that is ready too.
pollAgain(p) ==
    /\ pollers[p].at = "wait"
    /\ Goto(p, "fetch")
    /\ PollerOnly /\ UNCHANGED <<stopped, health, key>>

runReturns(p) ==
    /\ pollers[p].at = "wait"
    /\ p \in stopped \/ cancelled
    /\ pollers' = [pollers EXCEPT ![p] = NoGoroutine]
    /\ stopped' = stopped \ {p}
    /\ PollerOnly /\ UNCHANGED <<health, key>>

-----------------------------------------------------------------------------
(***************************************************************************)
(* A stream goroutine publishing one websocket message                     *)
(***************************************************************************)

Idle == [at |-> "idle", poller |-> NoPoller, status |-> UNSPECIFIED]

\* Everything but the publish path.
StreamOnly == UNCHANGED <<expired, watcher, events, cancelled>>

\* Mutant: the poller is signalled and stays in active.
NoteKeeps(s) ==
    /\ publishing[s].at = "idle"
    /\ expired' = expired \ {s}
    /\ publishing' = [publishing EXCEPT ![s].at = "disengage", ![s].poller = active[s]]
    /\ UNCHANGED <<active, watcher, pollers, stopped, health, key, events, cancelled>>

\* Mutant: the poller is taken off and not signalled.
NoteForgets(s) ==
    /\ publishing[s].at = "idle"
    /\ active' = [active EXCEPT ![s] = NoPoller]
    /\ expired' = expired \ {s}
    /\ publishing' = [publishing EXCEPT ![s].at = "disengage"]
    /\ UNCHANGED <<watcher, pollers, stopped, health, key, events, cancelled>>

\* publish calls OnMessage, which is Note: under the watcher's mutex the stream's
\* poller and its expiry are forgotten.
Note(s) ==
    /\ publishing[s].at = "idle"
    /\ active' = [active EXCEPT ![s] = NoPoller]
    /\ expired' = expired \ {s}
    /\ publishing' = [publishing EXCEPT
            ![s].at = IF active[s] # NoPoller \/ s \in expired THEN "disengage" ELSE "receive",
            ![s].poller = active[s]]
    /\ UNCHANGED <<watcher, pollers, stopped, health, key, events, cancelled>>

\* Note after the unlock: the poller is signalled, not waited for.
disengage(s) ==
    /\ publishing[s].at = "disengage"
    /\ stopped' = stopped \cup ({publishing[s].poller} \ {NoPoller})
    /\ Report(s, FallbackDisengaged(health[s]))
    /\ publishing' = [publishing EXCEPT ![s].at = "receive", ![s].poller = NoPoller]
    /\ StreamOnly /\ UNCHANGED <<active, pollers, key>>

receive(s) ==
    /\ publishing[s].at = "receive"
    /\ Report(s, Received(health[s]))
    /\ publishing' = [publishing EXCEPT ![s].at = "stamp"]
    /\ StreamOnly /\ UNCHANGED <<active, pollers, stopped, key>>

\* The tracker's status goes into the envelope; a message without one is dropped.
stampSocket(s) ==
    /\ publishing[s].at = "stamp"
    /\ \/ publishing' = [publishing EXCEPT ![s].at = "write", ![s].status = Status(s).status]
       \/ publishing' = [publishing EXCEPT ![s] = Idle]
    /\ StreamOnly /\ UNCHANGED <<active, pollers, stopped, health, key>>

\* The write to Redis; an error is dropped, and the key then expires on its own.
writeSocket(s) ==
    /\ publishing[s].at = "write"
    /\ key' \in {key, [key EXCEPT ![s] =
                        [source |-> "WEBSOCKET", status |-> publishing[s].status]]}
    /\ publishing' = [publishing EXCEPT ![s] = Idle]
    /\ StreamOnly /\ UNCHANGED <<active, pollers, stopped, health>>

Cancel ==
    /\ Stoppable /\ ~cancelled
    /\ cancelled' = TRUE
    /\ UNCHANGED <<active, expired, watcher, pollers, stopped, publishing, health, key, events>>

-----------------------------------------------------------------------------
\* Nothing has been published when the watcher starts.
Init ==
    /\ active = [s \in Streams |-> NoPoller]
    /\ expired = {}
    /\ watcher = [at |-> "select", found |-> <<>>, halting |-> {}]
    /\ pollers = [p \in Pollers |-> NoGoroutine]
    /\ stopped = {}
    /\ publishing = [s \in Streams |-> Idle]
    /\ health = [s \in Streams |-> NewStream]
    /\ key = [s \in Streams |-> Absent]
    /\ events = {}
    /\ cancelled = FALSE

\* What the watcher does next, but for choosing what to react to.
WatcherStep ==
    \/ markExpired \/ reportExpired \/ engage \/ reportRefused \/ reportEngaged
    \/ (\E p \in Pollers : halt(p)) \/ RunReturns

PollerStep(p) ==
    \/ fetched(p) \/ owns(p) \/ polled(p) \/ stampRest(p) \/ writeRest(p)
    \/ reportFailed(p) \/ pollAgain(p) \/ runReturns(p)

\* The rest of a publish that has begun.
PublishStep(s) == disengage(s) \/ receive(s) \/ stampSocket(s) \/ writeSocket(s)

Next ==
    \/ \E s \in Streams : KeyExpires(s) \/ onEvent(s) \/ Note(s) \/ PublishStep(s)
    \/ sweep \/ stop \/ WatcherStep
    \/ \E p \in Pollers : PollerStep(p)
    \/ Cancel

Spec == Init /\ [][Next]_vars

\* Every goroutine goes on, calls to Redis and to the venue return (both clients
\* have timeouts), and a select with several ready cases, which picks one at
\* random, does not pass over the same one for ever.  No message need arrive, no
\* key need expire and no notification need be delivered.  Of some streams or
\* pollers less may be promised.
FairTo(live, ps) ==
    /\ WF_vars(WatcherStep)
    /\ SF_vars(sweep) /\ SF_vars(stop)
    /\ \A p \in ps : WF_vars(PollerStep(p)) /\ SF_vars(runReturns(p))
    /\ \A s \in live : WF_vars(PublishStep(s))

FairSpec == Spec /\ FairTo(Streams, Pollers)

-----------------------------------------------------------------------------
(***************************************************************************)
(* Properties                                                              *)
(***************************************************************************)

Values == [source : {"WEBSOCKET", "REST"}, status : {HEALTHY, DEGRADED, STALE}] \cup {Absent}

Statuses == {UNSPECIFIED, HEALTHY, DEGRADED, STALE}

WatcherOK ==
    /\ active \in [Streams -> Pollers \cup {NoPoller}]
    /\ expired \subseteq Streams
    /\ watcher \in [at : {"select", "expired", "report", "engage", "refused", "engaged",
                          "halt", "returned"},
                    found : Seq(Streams), halting : SUBSET Pollers]
    /\ watcher.at \in {"expired", "report", "engage", "refused", "engaged"}
            => watcher.found # <<>>
    /\ events \subseteq Streams
    /\ cancelled \in BOOLEAN

\* An envelope about to be written has been stamped.
PollersOK ==
    /\ pollers \in [Pollers ->
            [at : {"none", "created", "fetch", "owns", "polled", "stamp", "write",
                   "failed", "wait"},
             why : {"", reasonPoll, reasonEmpty}, status : Statuses]]
    /\ \A p \in Pollers : pollers[p].at = "write" => pollers[p].status # UNSPECIFIED
    /\ stopped \subseteq Pollers

PublishingOK ==
    /\ publishing \in [Streams ->
            [at : {"idle", "disengage", "receive", "stamp", "write"},
             poller : Pollers \cup {NoPoller}, status : Statuses]]
    /\ \A s \in Streams : publishing[s].at = "write" => publishing[s].status # UNSPECIFIED

\* Every variable holds what its Go type and the control flow allow; no value
\* reaches Redis without a status (supervisor.go:628).
TypeOK ==
    /\ WatcherOK /\ PollersOK /\ PublishingOK
    /\ key \in [Streams -> Values]

\* At most MaxConcurrentPolls streams are on REST at once (poller.go:50).
CapHolds == Cardinality(Active) <= MaxConcurrentPolls

\* A stream that is on REST has a goroutine polling for it, or about to: a
\* poller that nobody told to stop.  engage never starts a second one for such a
\* stream (poller.go:46), so an owner that had gone would leave the stream
\* unserved for ever.
OwnerAlive ==
    \A s \in Active :
        /\ active[s] \in {s} \X Slots
        /\ active[s] \notin stopped
        /\ pollers[active[s]].at # "none" \/ cancelled

\* A poller goroutine still running that owns nothing has been told to stop, or
\* is about to be, by Note, which forgets a poller before it signals it
\* (poller.go:79), or by stop.
NoPollerForgotten ==
    \A p \in Pollers :
        pollers[p].at # "none" /\ active[stream(p)] # p
            => \/ p \in stopped
               \/ publishing[stream(p)].poller = p
               \/ p \in watcher.halting

\* Run returns from a shutdown only when every poller it still owned has
\* returned (poller.go:105): one still running is Note's to signal.
ShutdownIsClean ==
    watcher.at = "returned" =>
        /\ Active = {}
        /\ \A p \in Pollers : pollers[p].at # "none" =>
                p \in stopped \/ publishing[stream(p)].poller = p

\* The rule the service exists for: a key that is gone does not stay gone behind
\* a healthy status, even when its expiry notification is lost (poller.go:130), the
\* polls fail, a poller that has been replaced reports beside its successor, or the
\* cap turns the stream away (poller.go:50), which takes two streams and a cap of one.
SilenceIsReported ==
    \A s \in Streams :
        key[s] = Absent ~> \/ key[s] # Absent
                           \/ Status(s).status # HEALTHY
                           \/ cancelled

\* Shutdown waits for pollers (poller.go:146) but never for ever.
ShutdownCompletes == cancelled ~> watcher.at = "returned"

-----------------------------------------------------------------------------
\* A stream at rest on its socket: nobody is in the middle of anything that
\* concerns it, its key is fresh from the socket, and no poller serves it.
OnSocket(s) ==
    /\ publishing[s].at = "idle"
    /\ Watching
    /\ s \notin expired
    /\ \A p \in {s} \X Slots : pollers[p].at = "none"
    /\ key[s].source = "WEBSOCKET"

\* What is told about the fallback agrees with who serves the stream.
\* docs/fallback.md:37: a websocket message ends the fallback, via Note, and the
\* source returns to the socket: a stream at rest on its socket is not recorded as
\* served by REST and carries no failure of a fallback that is over.
\* docs/fallback.md:34: a value from REST is published as DEGRADED (or STALE),
\* never as HEALTHY.
FallbackToldTruly ==
    \A s \in Streams :
        /\ OnSocket(s) => health[s].fallbackFail = "" /\ health[s].fallbackSince = 0
        /\ key[s].source = "REST" => key[s].status # HEALTHY

=============================================================================
