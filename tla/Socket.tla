--------------------------------- MODULE Socket ---------------------------------
(***************************************************************************)
(* internal/supervisor: one socket.  The socket loop asks the breaker,     *)
(* dials, runs a session and redials.  A session has a read loop in a      *)
(* goroutine of its own, which may be abandoned when it does not return.   *)
(* The fallback watcher's goroutine calls noteExpiry, which may close the  *)
(* connection and signal the session, outside the mutex it decided under.  *)
(*                                                                         *)
(* A step is one critical section, one select, or one call to the venue.   *)
(* Times are kept as ages that stop counting at the limit they are         *)
(* compared with.  Backoff delays are random from zero (full jitter), so   *)
(* the attempt count, which bounds them from above, is left out, and so    *)
(* are the goroutines of the streams.                                      *)
(***************************************************************************)
EXTENDS Breaker, FiniteSets

CONSTANTS
    Streams,            \* the streams the socket carries
    ConnectGrace, ExpiryWindow,
    ConnMaxAge,         \* whether a maximum age is configured
    Conns,              \* bound: the connections with something left of them
    Wedgeable,          \* bound: the connections whose Read may never return
    MaxLeaked,          \* bound on the read loops given up although not wedged
    Stoppable,          \* bound: whether the shutdown is considered
    None

ASSUME SocketAssumption ==
    /\ IsFiniteSet(Streams) /\ IsFiniteSet(Conns)
    /\ ConnectGrace \in Nat /\ ExpiryWindow \in Nat
    /\ ConnMaxAge \in BOOLEAN /\ Stoppable \in BOOLEAN
    /\ Wedgeable \subseteq Conns /\ None \notin Conns
    /\ MaxLeaked \in Nat

VARIABLES
    breaker,
    run,            \* the socket loop: at, and the connection its session reads
    connection,     \* the current connection, or None
    connectedAge,   \* how long it has been up
    expiredAge,     \* [Streams -> age of the expiry noted, Forgotten when there is none]
    open,           \* the connections not closed
    readers,        \* [Conns -> the read loop of that connection]
    redial,         \* whether the channel redial, of capacity one, is full
    noter,          \* the goroutine inside noteExpiry, past its decision
    socketState,    \* what the tracker was last told
    leaked,
    sinceFailure,   \* history: time since a dial last failed
    cancelled

vars == <<breaker, run, connection, connectedAge, expiredAge, open, readers, redial, noter,
          socketState, leaked, sinceFailure, cancelled>>

\* Half the streams, and at least two.
quorum == LET half == Cardinality(Streams) \div 2 IN IF half < 2 THEN 2 ELSE half

\* noteExpiry deletes the entries older than the window, so one that is past it
\* is as good as absent.
Forgotten == ExpiryWindow + 1

Goto(place) == run' = [run EXCEPT !.at = place]

\* A connection of which nothing is left: its name can be used again.
Unused(k) ==
    /\ k \notin open /\ readers[k] = "none"
    /\ k \notin {connection, run.conn, run.closing, noter.closing}

-----------------------------------------------------------------------------
(***************************************************************************)
(* The socket loop                                                         *)
(***************************************************************************)

\* The loop condition and the breaker: Retry answers a wait, or a dial begins.
top ==
    /\ run.at = "top"
    /\ \/ cancelled /\ Goto("returned") /\ UNCHANGED <<breaker, socketState>>
       \/ /\ ~cancelled /\ Open(breaker)
          /\ socketState' = "circuit_open"
          /\ Goto("wait")
          /\ UNCHANGED breaker
       \/ /\ ~cancelled /\ ~Open(breaker)
          /\ breaker' = Retry(breaker)
          /\ socketState' = "dialing"
          /\ Goto("dial")
    /\ UNCHANGED <<connection, connectedAge, expiredAge, open, readers, redial, noter,
                   leaked, sinceFailure, cancelled>>

\* Wait and Sleep: they end with the context too.  A wait the breaker answered
\* lasts until it closes, a backoff may be over at once.
waited ==
    /\ \/ run.at = "wait" /\ (cancelled \/ ~Open(breaker))
       \/ run.at = "backoff"
    /\ \/ cancelled /\ Goto("returned")
       \/ Goto("top")
    /\ UNCHANGED <<breaker, connection, connectedAge, expiredAge, open, readers, redial,
                   noter, socketState, leaked, sinceFailure, cancelled>>

dialFailed ==
    /\ run.at = "dial"
    /\ \/ cancelled /\ Goto("returned") /\ UNCHANGED <<breaker, sinceFailure>>
       \/ /\ ~cancelled
          /\ breaker' = Fail(breaker)
          /\ sinceFailure' = 0
          /\ Goto("backoff")
    /\ UNCHANGED <<connection, connectedAge, expiredAge, open, readers, redial, noter,
                   socketState, leaked, cancelled>>

\* The dial succeeded: Succeed, then setConn.
setConn(k) ==
    /\ run.at = "dial" /\ Unused(k)
    /\ breaker' = Succeed(breaker)
    /\ open' = open \cup {k}
    /\ connection' = k
    /\ connectedAge' = 0
    /\ expiredAge' = [s \in Streams |-> Forgotten]
    /\ Goto("adopted")
    /\ UNCHANGED <<readers, redial, noter, socketState, leaked, sinceFailure, cancelled>>

reportConnected ==
    /\ run.at = "adopted"
    /\ socketState' = "connected"
    /\ Goto("session")
    /\ UNCHANGED <<breaker, connection, connectedAge, expiredAge, open, readers, redial,
                   noter, leaked, sinceFailure, cancelled>>

\* session: currentConn, and the read loop on what it answered.  A session that
\* finds no connection has a read loop that returns at once.
session ==
    /\ run.at = "session"
    /\ run' = [run EXCEPT !.at = "drain", !.conn = connection]
    /\ readers' = [k \in Conns |-> IF k = connection THEN "reading" ELSE readers[k]]
    /\ UNCHANGED <<breaker, connection, connectedAge, expiredAge, open, redial, noter,
                   socketState, leaked, sinceFailure, cancelled>>

drainRedial ==
    /\ run.at = "drain"
    /\ redial' = FALSE
    /\ Goto("select")
    /\ UNCHANGED <<breaker, connection, connectedAge, expiredAge, open, readers, noter,
                   socketState, leaked, sinceFailure, cancelled>>

ReadLoopDone == run.conn # None => readers[run.conn] = "returned"

\* Mutant: the select has no case for the read loop.
sessionEndsDeaf ==
    /\ run.at = "select"
    /\ \/ redial /\ redial' = FALSE
       \/ cancelled /\ UNCHANGED redial
    /\ Goto("stop")
    /\ UNCHANGED <<breaker, connection, connectedAge, expiredAge, open, readers, noter,
                   socketState, leaked, sinceFailure, cancelled>>

\* The select of session: the read loop returned, an escalation, or the shutdown.
sessionEnds ==
    /\ run.at = "select"
    /\ \/ ReadLoopDone /\ UNCHANGED redial
       \/ redial /\ redial' = FALSE
       \/ cancelled /\ UNCHANGED redial
    /\ Goto("stop")
    /\ UNCHANGED <<breaker, connection, connectedAge, expiredAge, open, readers, noter,
                   socketState, leaked, sinceFailure, cancelled>>

\* The select of session: the connection reached its maximum age.
sessionAged ==
    /\ ConnMaxAge
    /\ run.at = "select"
    /\ Goto("stop")
    /\ UNCHANGED <<breaker, connection, connectedAge, expiredAge, open, readers, redial, noter,
                   socketState, leaked, sinceFailure, cancelled>>

\* Mutant: the connection is dropped and not closed.
takeConnUnclosed ==
    /\ run.at = "stop"
    /\ run' = [run EXCEPT !.at = "close"]
    /\ connection' = None /\ connectedAge' = 0
    /\ UNCHANGED <<breaker, expiredAge, open, readers, redial, noter, socketState, leaked,
                   sinceFailure, cancelled>>

\* StopGoroutine: closeConn, which takes the connection under the mutex ...
takeConn ==
    /\ run.at = "stop"
    /\ run' = [run EXCEPT !.at = "close", !.closing = connection]
    /\ connection' = None /\ connectedAge' = 0
    /\ UNCHANGED <<breaker, expiredAge, open, readers, redial, noter, socketState, leaked,
                   sinceFailure, cancelled>>

\* ... and closes it after the unlock.
Close ==
    /\ run.at = "close"
    /\ open' = open \ {run.closing}
    /\ run' = [run EXCEPT !.at = "await", !.closing = None]
    /\ UNCHANGED <<breaker, connection, connectedAge, expiredAge, readers, redial, noter,
                   socketState, leaked, sinceFailure, cancelled>>

\* Mutant: the goroutine that did not return is not counted.
StopGoroutineSilently ==
    /\ run.at = "await"
    /\ readers' = [k \in Conns |-> IF k = run.conn /\ ReadLoopDone THEN "none"
                                   ELSE readers[k]]
    /\ run' = [run EXCEPT !.at = "ended", !.conn = None]
    /\ UNCHANGED <<breaker, connection, connectedAge, expiredAge, open, redial, noter,
                   socketState, leaked, sinceFailure, cancelled>>

\* Mutant: the wait for the read loop has no timeout.
StopGoroutineForEver ==
    /\ run.at = "await"
    /\ ReadLoopDone
    /\ readers' = [k \in Conns |-> IF k = run.conn THEN "none" ELSE readers[k]]
    /\ run' = [run EXCEPT !.at = "ended", !.conn = None]
    /\ UNCHANGED <<breaker, connection, connectedAge, expiredAge, open, redial, noter,
                   socketState, leaked, sinceFailure, cancelled>>

\* StopGoroutine waits for the read loop, or counts it as leaked.
StopGoroutine ==
    /\ run.at = "await"
    /\ \/ /\ ReadLoopDone
          /\ readers' = [k \in Conns |-> IF k = run.conn THEN "none" ELSE readers[k]]
          /\ UNCHANGED leaked
       \/ /\ ~ReadLoopDone
          /\ run.conn \in Wedgeable \/ leaked < MaxLeaked
          /\ leaked' = leaked + 1
          /\ UNCHANGED readers
    /\ run' = [run EXCEPT !.at = "ended", !.conn = None]
    /\ UNCHANGED <<breaker, connection, connectedAge, expiredAge, open, redial, noter,
                   socketState, sinceFailure, cancelled>>

\* run after session: closeConn again, which finds nothing to close, and the
\* tracker is told.
sessionOver ==
    /\ run.at = "ended"
    /\ \/ cancelled /\ Goto("returned") /\ UNCHANGED socketState
       \/ ~cancelled /\ Goto("backoff") /\ socketState' = "dialing"
    /\ UNCHANGED <<breaker, connection, connectedAge, expiredAge, open, readers, redial,
                   noter, leaked, sinceFailure, cancelled>>

-----------------------------------------------------------------------------
(***************************************************************************)
(* The read loop of a connection                                           *)
(***************************************************************************)

\* Read errors: the venue dropped the connection, it was silent past the read
\* timeout, or it was closed here.  Of a wedgeable connection it returns in its
\* session or never: one that was given up stays.
readLoopReturns(k) ==
    /\ readers[k] = "reading" /\ (k \in Wedgeable => k = run.conn)
    /\ readers' = [readers EXCEPT ![k] = IF k = run.conn THEN "returned" ELSE "none"]
    /\ UNCHANGED <<breaker, run, connection, connectedAge, expiredAge, open, redial, noter,
                   socketState, leaked, sinceFailure, cancelled>>

-----------------------------------------------------------------------------
(***************************************************************************)
(* noteExpiry                                                              *)
(***************************************************************************)

\* The expiries still inside the window once s has been noted.
Recent(s) == {t \in Streams : t = s \/ expiredAge[t] # Forgotten}

\* Under the mutex.  An expiry without a connection, or in its first moments, is
\* not counted.  Short of the quorum the stream's goroutine is restarted.
noteExpiry(s) ==
    /\ noter.at = "idle"
    /\ connection # None /\ connectedAge >= ConnectGrace
    /\ \/ /\ Cardinality(Recent(s)) >= quorum
          /\ expiredAge' = [t \in Streams |-> Forgotten]
          /\ noter' = [noter EXCEPT !.at = "escalate"]
       \/ /\ Cardinality(Recent(s)) < quorum
          /\ expiredAge' = [t \in Streams |-> IF t = s THEN 0
                                              ELSE expiredAge[t]]
          /\ UNCHANGED noter
    /\ UNCHANGED <<breaker, run, connection, connectedAge, open, readers, redial,
                   socketState, leaked, sinceFailure, cancelled>>

\* closeConn, whatever the connection is by now.
escalate ==
    /\ noter.at = "escalate"
    /\ noter' = [at |-> "close", closing |-> connection]
    /\ connection' = None /\ connectedAge' = 0
    /\ UNCHANGED <<breaker, run, expiredAge, open, readers, redial, socketState, leaked,
                   sinceFailure, cancelled>>

closeEscalated ==
    /\ noter.at = "close"
    /\ open' = open \ {noter.closing}
    /\ noter' = [at |-> "signal", closing |-> None]
    /\ UNCHANGED <<breaker, run, connection, connectedAge, expiredAge, readers, redial,
                   socketState, leaked, sinceFailure, cancelled>>

signal ==
    /\ noter.at = "signal"
    /\ redial' = TRUE
    /\ noter' = [noter EXCEPT !.at = "idle"]
    /\ UNCHANGED <<breaker, run, connection, connectedAge, expiredAge, open, readers,
                   socketState, leaked, sinceFailure, cancelled>>

-----------------------------------------------------------------------------
Tick ==
    /\ breaker' = Older(breaker)
    /\ connectedAge' = IF connection = None THEN 0 ELSE UpTo(ConnectGrace, connectedAge + 1)
    /\ expiredAge' = [s \in Streams |-> UpTo(Forgotten, expiredAge[s] + 1)]
    /\ sinceFailure' = UpTo(OpenDuration, sinceFailure + 1)
    /\ UNCHANGED <<run, connection, open, readers, redial, noter, socketState, leaked,
                   cancelled>>

Cancel ==
    /\ Stoppable /\ ~cancelled
    /\ cancelled' = TRUE
    /\ UNCHANGED <<breaker, run, connection, connectedAge, expiredAge, open, readers, redial,
                   noter, socketState, leaked, sinceFailure>>

Init ==
    /\ breaker = NewBreaker
    /\ run = [at |-> "top", conn |-> None, closing |-> None]
    /\ connection = None /\ connectedAge = 0
    /\ expiredAge = [s \in Streams |-> Forgotten]
    /\ open = {}
    /\ readers = [k \in Conns |-> "none"]
    /\ redial = FALSE
    /\ noter = [at |-> "idle", closing |-> None]
    /\ socketState = "dialing"
    /\ leaked = 0
    /\ sinceFailure = OpenDuration
    /\ cancelled = FALSE

RunStep ==
    \/ top \/ waited \/ dialFailed \/ (\E k \in Conns : setConn(k)) \/ reportConnected
    \/ session \/ drainRedial \/ takeConn \/ Close \/ StopGoroutine \/ sessionOver

NoterStep == escalate \/ closeEscalated \/ signal

Next ==
    \/ RunStep \/ sessionEnds \/ sessionAged \/ NoterStep
    \/ \E s \in Streams : noteExpiry(s)
    \/ \E k \in Conns : readLoopReturns(k)
    \/ Tick \/ Cancel

Spec == Init /\ [][Next]_vars

\* Goroutines go on, a dial returns, time passes, and a Read of a closed connection
\* returns unless the connection is wedgeable.  A session need not end while its
\* connection is up, and no key need expire.  Nothing relies on the maximum age, of a
\* day.
Fairness ==
    /\ WF_vars(RunStep) /\ WF_vars(sessionEnds) /\ WF_vars(NoterStep) /\ WF_vars(Tick)
    /\ \A k \in Conns \ Wedgeable : WF_vars(readLoopReturns(k) /\ k \notin open)

FairSpec == Spec /\ Fairness

-----------------------------------------------------------------------------
(***************************************************************************)
(* Properties                                                              *)
(***************************************************************************)

Ages(limit) == 0..limit

Breakers == [failures : 0..ConsecutiveFailures, opened : BOOLEAN,
             age : Ages(OpenDuration), probing : BOOLEAN]

Maybe == Conns \cup {None}

\* A connection is held for closing only between the unlock and its Close.
LoopOK ==
    /\ run \in [at : {"top", "wait", "backoff", "dial", "adopted", "session", "drain",
                      "select", "stop", "close", "await", "ended", "returned"},
                conn : Maybe, closing : Maybe]
    /\ run.closing # None => run.at = "close"
    /\ connection \in Maybe
    /\ open \subseteq Conns
    /\ readers \in [Conns -> {"none", "reading", "returned"}]

NoterOK ==
    /\ noter \in [at : {"idle", "escalate", "close", "signal"}, closing : Maybe]
    /\ noter.closing # None => noter.at = "close"

\* connectedAt is zero without a connection (supervisor.go:486).
ClocksOK ==
    /\ breaker \in Breakers
    /\ connectedAge \in Ages(ConnectGrace)
    /\ connection = None => connectedAge = 0
    /\ expiredAge \in [Streams -> Ages(Forgotten)]
    /\ sinceFailure \in Ages(OpenDuration)
    /\ leaked \in Nat

\* Every variable holds what its Go type and the control flow allow.
TypeOK ==
    /\ LoopOK /\ NoterOK /\ ClocksOK
    /\ redial \in BOOLEAN /\ cancelled \in BOOLEAN
    /\ socketState \in {"connected", "dialing", "circuit_open"}

\* However an escalation and the end of a session race, a connection that is
\* still open is the current one or somebody is about to close it: closeConn is
\* called from two goroutines and takes it under the mutex (supervisor.go:482).
NoConnectionForgotten ==
    \A k \in open : k \in {connection, run.closing, noter.closing}

\* A read loop that is still running and is not the session's has been counted:
\* a leak can be found in the venue's status (supervisor.go:334).
LeaksCounted ==
    Cardinality({k \in Conns : readers[k] = "reading" /\ k # run.conn}) <= leaked

\* Once ConsecutiveFailures dials in a row failed, no dial begins within
\* OpenDuration of the last failure, the probe's included (supervisor.go:227).
BreakerRespected ==
    [][enabled /\ run'.at = "dial" /\ run.at # "dial"
            /\ breaker.failures >= ConsecutiveFailures => sinceFailure >= OpenDuration]_vars

\* The socket loop returns from a shutdown, even behind a read that never
\* returns (supervisor.go:286).
ShutdownReturns == cancelled ~> run.at = "returned"

\* A session whose connection was closed under it ends: the socket is redialled
\* and not left silent with its state reported as connected (supervisor.go:448:
\* "a read that does not come back is abandoned rather than leaving the socket
\* wedged forever").
ClosedSessionEnds ==
    run.at = "select" /\ connection = None ~> run.at # "select"

\* What holds of that: the session ends when its read returns once the connection
\* is closed, whether the escalation's signal reaches it or is drained.
FreedSessionEnds ==
    run.at = "select" /\ connection = None /\ run.conn \notin Wedgeable ~> run.at # "select"

=============================================================================
