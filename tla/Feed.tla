---------------------------------- MODULE Feed ----------------------------------
(***************************************************************************)
(* cmd/manooch-feed: the life of the process.  main plans, dials Redis,    *)
(* binds the admin port, starts the producers, waits for a signal and      *)
(* shuts down under one deadline.  The producers are the health tracker,   *)
(* the metadata refresher (Metadata.tla) and the gate, which starts the    *)
(* fallback watcher and the socket supervisor once the metadata is there.  *)
(*                                                                         *)
(* What the watcher and the supervisor do while they run is Fallback.tla   *)
(* and Socket.tla: here they run, and return some time after the context   *)
(* ended, or never.  A process may be killed and started again: the        *)
(* metadata keys in Redis outlive it.                                      *)
(***************************************************************************)
EXTENDS Metadata

CONSTANTS
    FallbackEnabled,    \* fallback.enabled
    HTTPEnabled,        \* service.http.enabled
    MaxKills            \* bound on the processes killed and replaced

ASSUME FeedAssumption == FallbackEnabled \in BOOLEAN /\ HTTPEnabled \in BOOLEAN /\ MaxKills \in Nat

VARIABLES
    main,       \* where run is
    redis,      \* the publisher's client: "none", "open" or "closed"
    server,     \* the admin server, likewise
    routines,   \* [tracker, gate, watcher, process -> "none", "running" or "returned"]
    deadline,   \* of the shutdown: "unset", "running" or "passed"
    leaks,      \* LeakedGoroutines, as shutdown counts it
    kills

feedVars == <<main, redis, server, routines, deadline, leaks, kills>>
vars == <<metadataVars, cancelled, feedVars>>

NoRoutines == [r \in {"tracker", "gate", "watcher", "process"} |-> "none"]

-----------------------------------------------------------------------------
(***************************************************************************)
(* main                                                                    *)
(***************************************************************************)

\* parseFlags, Load and planProducers: nothing is open yet, whatever they say.
planProducers ==
    /\ main = "plan"
    /\ main' \in {"dial", "returned"}
    /\ UNCHANGED <<metadataVars, cancelled, redis, server, routines, deadline, leaks, kills>>

\* NewRedis closes its client again when the ping fails.
dialRedis ==
    /\ main = "dial"
    /\ \/ ~cancelled /\ redis' = "open" /\ main' = "admin"
       \/ redis' = "closed" /\ main' = "returned"
    /\ UNCHANGED <<metadataVars, cancelled, server, routines, deadline, leaks, kills>>

\* Mutant: the failed listen returns without closing the publisher.
serveAdminUnclosed ==
    /\ main = "admin"
    /\ \/ server' = (IF HTTPEnabled THEN "open" ELSE "none") /\ main' = "start" /\ UNCHANGED redis
       \/ HTTPEnabled /\ main' = "returned" /\ UNCHANGED <<server, redis>>
    /\ UNCHANGED <<metadataVars, cancelled, routines, deadline, leaks, kills>>

\* The listener is bound, or the publisher is closed and run returns.
serveAdmin ==
    /\ main = "admin"
    /\ \/ server' = (IF HTTPEnabled THEN "open" ELSE "none") /\ main' = "start" /\ UNCHANGED redis
       \/ HTTPEnabled /\ redis' = "closed" /\ main' = "returned" /\ UNCHANGED server
    /\ UNCHANGED <<metadataVars, cancelled, routines, deadline, leaks, kills>>

\* start: every component is built before the first goroutine is launched, so an
\* error leaves none behind and shutdown waits for an empty group.
startProducers ==
    /\ main = "start"
    /\ \/ /\ routines' = [routines EXCEPT !["tracker"] = "running", !["gate"] = "running"]
          /\ Start
          /\ main' = "running"
          /\ UNCHANGED deadline
       \/ main' = "http" /\ deadline' = "running" /\ UNCHANGED <<routines, refresher>>
    /\ UNCHANGED <<ticker, last, ready, told, keys, record, missed,
                   cancelled, redis, server, leaks, kills>>

\* The signal reached the context, and main enters shutdown.
signalled ==
    /\ main = "running" /\ cancelled
    /\ main' = "http" /\ deadline' = "running"
    /\ UNCHANGED <<metadataVars, cancelled, redis, server, routines, leaks, kills>>

\* Shutdown closes the listener and waits for the requests under way, up to the
\* deadline that the producers are waited for under as well.
httpShutdown ==
    /\ main = "http"
    /\ server' = (IF server = "open" THEN "closed" ELSE server)
    /\ main' = "drain"
    /\ UNCHANGED <<metadataVars, cancelled, redis, routines, deadline, leaks, kills>>

\* The WaitGroup: the goroutines start launched by itself.
Drained ==
    /\ routines["tracker"] # "running" /\ routines["gate"] # "running"
    /\ refresher.at \in {"off", "returned"}

\* Mutant: the gate is not in the group.
drainWithoutGate ==
    /\ main = "drain"
    /\ \/ /\ routines["tracker"] # "running" /\ refresher.at \in {"off", "returned"}
          /\ UNCHANGED leaks
       \/ deadline = "passed" /\ leaks' = leaks + 1
    /\ main' = "close"
    /\ UNCHANGED <<metadataVars, cancelled, redis, server, routines, deadline, kills>>

\* Mutant: the producers are waited for without a deadline.
drainForEver ==
    /\ main = "drain" /\ Drained
    /\ main' = "close"
    /\ UNCHANGED <<metadataVars, cancelled, redis, server, routines, deadline, leaks, kills>>

\* The select of shutdown: when both are ready it may count a leak that is none.
drain ==
    /\ main = "drain"
    /\ \/ Drained /\ UNCHANGED leaks
       \/ deadline = "passed" /\ leaks' = leaks + 1
    /\ main' = "close"
    /\ UNCHANGED <<metadataVars, cancelled, redis, server, routines, deadline, kills>>

closeRedis ==
    /\ main = "close"
    /\ redis' = "closed"
    /\ main' = "returned"
    /\ UNCHANGED <<metadataVars, cancelled, server, routines, deadline, leaks, kills>>

-----------------------------------------------------------------------------
(***************************************************************************)
(* The producers                                                           *)
(***************************************************************************)

Routine(r, state) ==
    /\ routines' = [routines EXCEPT ![r] = state]
    /\ UNCHANGED <<metadataVars, cancelled, main, redis, server, deadline, leaks, kills>>

\* tracker.Run, watcher.Run and process.Run return after the context ended.
ProducerReturns(r) ==
    /\ r # "gate" /\ routines[r] = "running" /\ cancelled
    /\ Routine(r, "returned")

\* Mutant: keys that are in Redis already are taken for metadata that has arrived.
WaitReadyTrusting == ready \/ \A i \in Listed : keys[i].left > 0

\* WaitReady.
WaitReady == IF Required THEN ready ELSE ~cancelled

\* WaitReady answered TRUE: the watcher, if there is one, and the supervisor.
gateOpens ==
    /\ routines["gate"] = "running" /\ routines["process"] = "none" /\ WaitReady
    /\ routines' = [routines EXCEPT !["process"] = "running",
                                    !["watcher"] = IF FallbackEnabled THEN "running" ELSE @]
    /\ UNCHANGED <<metadataVars, cancelled, main, redis, server, deadline, leaks, kills>>

\* WaitReady answered FALSE, the context having ended.
gateGivesUp ==
    /\ routines["gate"] = "running" /\ routines["process"] = "none" /\ cancelled
    /\ Routine("gate", "returned")

\* streams.Wait
gateReturns ==
    /\ routines["gate"] = "running" /\ routines["process"] = "returned"
    /\ routines["watcher"] # "running"
    /\ Routine("gate", "returned")

-----------------------------------------------------------------------------

\* A signal, once NotifyContext has been called.
Signal ==
    /\ main \in {"dial", "admin", "start", "running"} /\ ~cancelled
    /\ cancelled' = TRUE
    /\ UNCHANGED <<metadataVars, feedVars>>

DeadlinePasses ==
    /\ deadline = "running" /\ main # "returned"
    /\ deadline' = "passed"
    /\ UNCHANGED <<metadataVars, cancelled, main, redis, server, routines, leaks, kills>>

\* The process is killed and another started: only what is in Redis is left.  The
\* record is of one process's log.
Kill ==
    /\ kills < MaxKills /\ main # "plan"
    /\ kills' = kills + 1
    /\ main' = "plan" /\ redis' = "none" /\ server' = "none"
    /\ routines' = NoRoutines /\ deadline' = "unset" /\ leaks' = 0
    /\ cancelled' = FALSE
    /\ refresher' = NewRefresher
    /\ ticker' = [due |-> Interval, pending |-> FALSE]
    /\ last' = [i \in Listed |-> None] /\ record' = [i \in Listed |-> None]
    /\ ready' = FALSE /\ told' = "nothing" /\ missed' = {}
    /\ UNCHANGED keys

\* A process that has returned runs nothing any more.
Alive == main # "returned"

MainStep == planProducers \/ dialRedis \/ serveAdmin \/ startProducers \/ signalled
              \/ httpShutdown \/ drain \/ closeRedis

GateStep == gateOpens \/ gateGivesUp \/ gateReturns

Returns == \E r \in DOMAIN routines : ProducerReturns(r)

RefresherStep == Alive /\ Run /\ UNCHANGED <<cancelled, feedVars>>

Time == Clock /\ UNCHANGED <<cancelled, feedVars>>

Init ==
    /\ MetadataInit
    /\ cancelled = FALSE
    /\ main = "plan" /\ redis = "none" /\ server = "none"
    /\ routines = NoRoutines
    /\ deadline = "unset" /\ leaks = 0 /\ kills = 0

Next ==
    \/ MainStep \/ RefresherStep \/ Time \/ Signal \/ DeadlinePasses \/ Kill
    \/ Alive /\ (GateStep \/ Returns)

Spec == Init /\ [][Next]_vars

-----------------------------------------------------------------------------
(***************************************************************************)
(* Fairness: a runnable goroutine is scheduled, the deadline passes, and a *)
(* request under way may keep httpShutdown waiting until then.  A producer *)
(* need not ever return.  The venue and Redis may fail again and again,    *)
(* but not each time for ever.                                             *)
(***************************************************************************)
Scheduling ==
    /\ WF_vars(MainStep /\ main # "http")
    /\ WF_vars(httpShutdown /\ (deadline = "passed" \/ server # "open"))
    /\ WF_vars(DeadlinePasses)
    /\ WF_vars(Alive /\ GateStep)
    /\ WF_vars(RefresherStep)

Mostly ==
    /\ SF_vars((\E answer \in Answers : fetched(answer)) /\ Alive /\ UNCHANGED <<cancelled, feedVars>>)
    /\ \A i \in Listed : SF_vars(publish(i) /\ Alive /\ UNCHANGED <<cancelled, feedVars>>)

FairSpec == Spec /\ Scheduling /\ Mostly

-----------------------------------------------------------------------------

\* The variables have the values the code gives them.
TypeOK ==
    /\ MetadataTypeOK
    /\ main \in {"plan", "dial", "admin", "start", "running", "http", "drain", "close", "returned"}
    /\ redis \in {"none", "open", "closed"} /\ server \in {"none", "open", "closed"}
    /\ routines \in [DOMAIN NoRoutines -> {"none", "running", "returned"}]
    /\ deadline \in {"unset", "running", "passed"}
    /\ leaks \in 0..1 /\ kills \in 0..MaxKills

\* Nothing streams before the metadata has landed: with startup_required, the
\* watcher and the supervisor run only in a process that told the tracker so
\* itself, and the gate opens only on a refresh that wrote all it was answered,
\* whatever a process before this one left in Redis.
NothingBeforeMetadata ==
    /\ Required /\ routines["process"] # "none" => ready /\ told = "ok"
    /\ At("open") => \A i \in Listed : refresher.answer[i] # None => last[i] = refresher.answer[i]

\* Redis is closed after the producers have drained, or their deadline passed
\* and the gauge says so.
DrainedOrCounted == main = "returned" => Drained \/ leaks > 0

\* No way out of run leaves the Redis client or the admin port open.
NothingLeftOpen == main = "returned" => redis # "open" /\ server # "open"

\* A signal ends the process, whatever the producers do: the deadline is one for
\* the admin server and the producers together.
SignalEndsProcess == main = "running" /\ cancelled ~> main \in {"returned", "plan"}

\* A process that stays up ends up streaming, and goes on: the first fetch is
\* retried for as long as it takes, and the gate does not miss the opening.
StreamsStart ==
    <>[](main = "running" /\ ~cancelled) => <>[](routines["process"] = "running")

=============================================================================
