------------------------------ MODULE SocketProofs ------------------------------
(***************************************************************************)
(* One socket, for any number of streams and connections, any thresholds   *)
(* and any reads that never return: connections are closed, leaks counted  *)
(* and the breaker obeyed in every interleaving.                           *)
(***************************************************************************)
EXTENDS Socket, FiniteSetTheorems, TLAPS

\* Ages that stop counting stay in range.
LEMMA UpToAge ==
    ASSUME NEW limit \in Nat, NEW age \in 0..limit
    PROVE  UpTo(limit, age + 1) \in 0..limit
BY DEF UpTo

\* The breaker's calls answer a breaker's record.
LEMMA BreakerCalls ==
    ASSUME NEW b \in Breakers
    PROVE  /\ NewBreaker \in Breakers
           /\ Retry(b) \in Breakers
           /\ Fail(b) \in Breakers
           /\ Succeed(b) \in Breakers
           /\ Older(b) \in Breakers
<1> USE BreakerAssumption
<1>1. 0 \in 0..ConsecutiveFailures /\ 0 \in Ages(OpenDuration)
  BY DEF Ages
<1>2. UpTo(ConsecutiveFailures, b.failures + 1) \in 0..ConsecutiveFailures
  BY UpToAge DEF Breakers
<1>3. UpTo(OpenDuration, b.age + 1) \in Ages(OpenDuration)
  BY UpToAge DEF Breakers, Ages
<1>4. NewBreaker \in Breakers
  BY <1>1 DEF NewBreaker, Breakers
<1>5. Retry(b) \in Breakers
  BY <1>1 DEF Retry, Breakers
<1>6. Fail(b) \in Breakers
  BY <1>1, <1>2 DEF Fail, Breakers
<1>7. Older(b) \in Breakers
  BY <1>3 DEF Older, Breakers
<1> QED BY <1>4, <1>5, <1>6, <1>7 DEF Succeed

\* The steps of the socket loop that leave every clock alone.
LEMMA ClocksKept ==
    ASSUME ClocksOK, UNCHANGED <<breaker, connection, connectedAge, expiredAge, sinceFailure,
                                 leaked>>
    PROVE  ClocksOK'
BY DEF ClocksOK

\* Every step leaves the clocks and counters in range.
LEMMA ClocksStep ==
    ASSUME TypeOK, [Next]_vars
    PROVE  ClocksOK'
<1> USE BreakerAssumption, SocketAssumption
<1>0. /\ ClocksOK
      /\ breaker \in Breakers /\ leaked \in Nat
      /\ expiredAge \in [Streams -> Ages(Forgotten)]
      /\ connectedAge \in Ages(ConnectGrace) /\ sinceFailure \in Ages(OpenDuration)
  BY DEF TypeOK, ClocksOK
<1>z. /\ 0 \in Ages(ConnectGrace) /\ 0 \in Ages(OpenDuration) /\ 0 \in Ages(Forgotten)
      /\ Forgotten \in Ages(Forgotten) /\ Forgotten \in Nat
  BY DEF Ages, Forgotten
<1>1. CASE top
  BY <1>0, <1>1, BreakerCalls DEF top, ClocksOK
<1>2. CASE waited
  BY <1>0, <1>2, ClocksKept DEF waited
<1>3. CASE dialFailed
  BY <1>0, <1>z, <1>3, BreakerCalls DEF dialFailed, ClocksOK
<1>4. CASE \E k \in Conns : setConn(k)
  BY <1>0, <1>z, <1>4, BreakerCalls DEF setConn, ClocksOK
<1>5. CASE reportConnected \/ session \/ drainRedial \/ sessionEnds \/ sessionAged \/ Close
            \/ sessionOver
  BY <1>0, <1>5, ClocksKept
     DEF reportConnected, session, drainRedial, sessionEnds, sessionAged, Close, sessionOver
<1>6. CASE takeConn
  BY <1>0, <1>z, <1>6 DEF takeConn, ClocksOK
<1>7. CASE StopGoroutine
  BY <1>0, <1>7 DEF StopGoroutine, ClocksOK
<1>8. CASE escalate
  BY <1>0, <1>z, <1>8 DEF escalate, ClocksOK
<1>9. CASE closeEscalated \/ signal \/ Cancel
  BY <1>0, <1>9, ClocksKept DEF closeEscalated, signal, Cancel
<1>10. CASE \E k \in Conns : readLoopReturns(k)
  BY <1>0, <1>10, ClocksKept DEF readLoopReturns
<1>11. CASE \E s \in Streams : noteExpiry(s)
  <2>1. PICK s \in Streams : noteExpiry(s)
    BY <1>11
  <2>2. expiredAge' \in [Streams -> Ages(Forgotten)]
    BY <1>0, <1>z, <2>1 DEF noteExpiry
  <2> QED BY <1>0, <2>1, <2>2 DEF noteExpiry, ClocksOK
<1>12. CASE Tick
  <2>1. breaker' \in Breakers
    BY <1>0, <1>12, BreakerCalls DEF Tick
  <2>2. UpTo(ConnectGrace, connectedAge + 1) \in Ages(ConnectGrace)
    BY <1>0, UpToAge DEF Ages
  <2>3. \A s \in Streams : UpTo(Forgotten, expiredAge[s] + 1) \in Ages(Forgotten)
    BY <1>0, <1>z, UpToAge DEF Ages
  <2>4. UpTo(OpenDuration, sinceFailure + 1) \in Ages(OpenDuration)
    BY <1>0, UpToAge DEF Ages
  <2>5. connectedAge' \in Ages(ConnectGrace) /\ (connection' = None => connectedAge' = 0)
    BY <1>z, <1>12, <2>2 DEF Tick
  <2>6. expiredAge' \in [Streams -> Ages(Forgotten)]
    BY <1>12, <2>3 DEF Tick
  <2>7. sinceFailure' \in Ages(OpenDuration) /\ leaked' = leaked
    BY <1>12, <2>4 DEF Tick
  <2> QED BY <1>0, <2>1, <2>5, <2>6, <2>7 DEF ClocksOK
<1>13. CASE UNCHANGED vars
  BY <1>0, <1>13, ClocksKept DEF vars
<1> QED BY <1>1, <1>2, <1>3, <1>4, <1>5, <1>6, <1>7, <1>8, <1>9, <1>10, <1>11, <1>12, <1>13
        DEF Next, RunStep, NoterStep

\* Every step leaves the socket loop, the connections and the read loops well
\* formed.
LEMMA LoopStep ==
    ASSUME TypeOK, [Next]_vars
    PROVE  LoopOK'
<1> USE SocketAssumption DEF LoopOK, Maybe
<1>0. LoopOK
  BY DEF TypeOK
<1>1. CASE top
  BY <1>0, <1>1 DEF top, Goto
<1>2. CASE waited
  BY <1>0, <1>2 DEF waited, Goto
<1>3. CASE dialFailed
  BY <1>0, <1>3 DEF dialFailed, Goto
<1>4. CASE \E k \in Conns : setConn(k)
  BY <1>0, <1>4 DEF setConn, Goto
<1>5. CASE reportConnected
  BY <1>0, <1>5 DEF reportConnected, Goto
<1>6. CASE session
  BY <1>0, <1>6 DEF session
<1>7. CASE drainRedial
  BY <1>0, <1>7 DEF drainRedial, Goto
<1>8. CASE sessionEnds \/ sessionAged
  BY <1>0, <1>8 DEF sessionEnds, sessionAged, Goto
<1>9. CASE takeConn
  BY <1>0, <1>9 DEF takeConn
<1>10. CASE Close
  BY <1>0, <1>10 DEF Close
<1>11. CASE StopGoroutine
  BY <1>0, <1>11 DEF StopGoroutine
<1>12. CASE sessionOver
  BY <1>0, <1>12 DEF sessionOver, Goto
<1>13. CASE \E k \in Conns : readLoopReturns(k)
  BY <1>0, <1>13 DEF readLoopReturns
<1>14. CASE \E s \in Streams : noteExpiry(s)
  BY <1>0, <1>14 DEF noteExpiry
<1>15. CASE escalate
  BY <1>0, <1>15 DEF escalate
<1>16. CASE closeEscalated
  BY <1>0, <1>16 DEF closeEscalated
<1>17. CASE signal
  BY <1>0, <1>17 DEF signal
<1>18. CASE Tick \/ Cancel \/ UNCHANGED vars
  BY <1>0, <1>18 DEF Tick, Cancel, vars
<1> QED BY <1>1, <1>2, <1>3, <1>4, <1>5, <1>6, <1>7, <1>8, <1>9, <1>10, <1>11, <1>12,
           <1>13, <1>14, <1>15, <1>16, <1>17, <1>18
        DEF Next, RunStep, NoterStep

\* Every step leaves the goroutine inside noteExpiry well formed.
LEMMA NoterSteps ==
    ASSUME TypeOK, [Next]_vars
    PROVE  NoterOK'
<1> USE SocketAssumption DEF NoterOK, Maybe
<1>0. NoterOK /\ connection \in Maybe
  BY DEF TypeOK, LoopOK
<1>1. CASE UNCHANGED noter
  BY <1>0, <1>1
<1>2. CASE \E s \in Streams : noteExpiry(s)
  BY <1>0, <1>2 DEF noteExpiry
<1>3. CASE escalate
  BY <1>0, <1>3 DEF escalate
<1>4. CASE closeEscalated
  BY <1>0, <1>4 DEF closeEscalated
<1>5. CASE signal
  BY <1>0, <1>5 DEF signal
<1>6. CASE RunStep \/ sessionEnds \/ sessionAged
  BY <1>1, <1>6 DEF RunStep, top, waited, dialFailed, setConn, reportConnected, session,
                    drainRedial, sessionEnds, sessionAged, takeConn, Close, StopGoroutine,
                    sessionOver
<1>7. CASE (\E k \in Conns : readLoopReturns(k)) \/ Tick \/ Cancel \/ UNCHANGED vars
  BY <1>1, <1>7 DEF readLoopReturns, Tick, Cancel, vars
<1> QED BY <1>2, <1>3, <1>4, <1>5, <1>6, <1>7 DEF Next, NoterStep

\* Every step leaves the two flags and the reported state well typed.
LEMMA FlagsStep ==
    ASSUME TypeOK, [Next]_vars
    PROVE  /\ redial' \in BOOLEAN /\ cancelled' \in BOOLEAN
           /\ socketState' \in {"connected", "dialing", "circuit_open"}
<1>0. /\ redial \in BOOLEAN /\ cancelled \in BOOLEAN
      /\ socketState \in {"connected", "dialing", "circuit_open"}
  BY DEF TypeOK
<1>1. CASE top
  BY <1>0, <1>1 DEF top
<1>2. CASE waited \/ dialFailed \/ (\E k \in Conns : setConn(k)) \/ session
  BY <1>0, <1>2 DEF waited, dialFailed, setConn, session
<1>3. CASE reportConnected
  BY <1>0, <1>3 DEF reportConnected
<1>4. CASE drainRedial
  BY <1>0, <1>4 DEF drainRedial
<1>5. CASE sessionEnds \/ sessionAged
  BY <1>0, <1>5 DEF sessionEnds, sessionAged
<1>6. CASE takeConn \/ Close \/ StopGoroutine
  BY <1>0, <1>6 DEF takeConn, Close, StopGoroutine
<1>7. CASE sessionOver
  BY <1>0, <1>7 DEF sessionOver
<1>8. CASE \E k \in Conns : readLoopReturns(k)
  BY <1>0, <1>8 DEF readLoopReturns
<1>9. CASE \E s \in Streams : noteExpiry(s)
  BY <1>0, <1>9 DEF noteExpiry
<1>10. CASE escalate \/ closeEscalated \/ Tick
  BY <1>0, <1>10 DEF escalate, closeEscalated, Tick
<1>11. CASE signal
  BY <1>0, <1>11 DEF signal
<1>12. CASE Cancel
  BY <1>0, <1>12 DEF Cancel
<1>13. CASE UNCHANGED vars
  BY <1>0, <1>13 DEF vars
<1> QED BY <1>1, <1>2, <1>3, <1>4, <1>5, <1>6, <1>7, <1>8, <1>9, <1>10, <1>11, <1>12, <1>13
        DEF Next, RunStep, NoterStep

\* The type invariant.
THEOREM TypeCorrect == Spec => []TypeOK
<1>1. Init => TypeOK
  <2> SUFFICES ASSUME Init PROVE TypeOK
    OBVIOUS
  <2>1. LoopOK
    BY SocketAssumption DEF Init, LoopOK, Maybe
  <2>2. NoterOK
    BY DEF Init, NoterOK, Maybe
  <2>3. /\ 0 \in Ages(ConnectGrace) /\ Forgotten \in Ages(Forgotten)
        /\ OpenDuration \in Ages(OpenDuration)
        /\ 0 \in 0..ConsecutiveFailures /\ 0 \in Ages(OpenDuration)
    BY BreakerAssumption, SocketAssumption DEF Ages, Forgotten
  <2>4. NewBreaker \in Breakers
    BY <2>3 DEF NewBreaker, Breakers
  <2>5. ClocksOK
    BY <2>3, <2>4 DEF Init, ClocksOK
  <2>6. /\ redial \in BOOLEAN /\ cancelled \in BOOLEAN
        /\ socketState \in {"connected", "dialing", "circuit_open"}
    BY DEF Init
  <2> QED BY <2>1, <2>2, <2>5, <2>6 DEF TypeOK
<1>2. TypeOK /\ [Next]_vars => TypeOK'
  BY LoopStep, NoterSteps, ClocksStep, FlagsStep DEF TypeOK
<1> QED BY <1>1, <1>2, PTL DEF Spec

-----------------------------------------------------------------------------
(***************************************************************************)
(* Connections.  setConn overwrites the field, so it must be empty by      *)
(* then: only the places before closeConn has run have a connection.       *)
(***************************************************************************)

HeldBySession ==
    connection # None => run.at \in {"adopted", "session", "drain", "select", "stop"}

Owned == NoConnectionForgotten /\ HeldBySession

\* Every step keeps each open connection current or about to be closed.
LEMMA OwnedStep ==
    ASSUME TypeOK, Owned, [Next]_vars
    PROVE  Owned'
<1> USE SocketAssumption DEF Owned, NoConnectionForgotten, HeldBySession
<1>0. LoopOK /\ NoterOK
  BY DEF TypeOK
<1>1. CASE top
  BY <1>0, <1>1 DEF top, Goto, LoopOK
<1>2. CASE waited
  BY <1>0, <1>2 DEF waited, Goto, LoopOK
<1>3. CASE dialFailed
  BY <1>0, <1>3 DEF dialFailed, Goto, LoopOK
<1>4. CASE \E k \in Conns : setConn(k)
  BY <1>0, <1>4 DEF setConn, Goto, LoopOK
<1>5. CASE reportConnected
  BY <1>0, <1>5 DEF reportConnected, Goto, LoopOK
<1>6. CASE session
  BY <1>0, <1>6 DEF session, LoopOK
<1>7. CASE drainRedial
  BY <1>0, <1>7 DEF drainRedial, Goto, LoopOK
<1>8. CASE sessionEnds \/ sessionAged
  BY <1>0, <1>8 DEF sessionEnds, sessionAged, Goto, LoopOK
<1>9. CASE takeConn
  BY <1>0, <1>9 DEF takeConn, LoopOK
<1>10. CASE Close
  BY <1>0, <1>10 DEF Close, LoopOK
<1>11. CASE StopGoroutine
  BY <1>0, <1>11 DEF StopGoroutine, LoopOK
<1>12. CASE sessionOver
  BY <1>0, <1>12 DEF sessionOver, Goto, LoopOK
<1>13. CASE \E k \in Conns : readLoopReturns(k)
  BY <1>13 DEF readLoopReturns
<1>14. CASE \E s \in Streams : noteExpiry(s)
  BY <1>0, <1>14 DEF noteExpiry, NoterOK
<1>15. CASE escalate
  BY <1>0, <1>15 DEF escalate, NoterOK
<1>16. CASE closeEscalated
  BY <1>0, <1>16 DEF closeEscalated, NoterOK
<1>17. CASE signal
  BY <1>0, <1>17 DEF signal, NoterOK
<1>18. CASE Tick \/ Cancel \/ UNCHANGED vars
  BY <1>18 DEF Tick, Cancel, vars
<1> QED BY <1>1, <1>2, <1>3, <1>4, <1>5, <1>6, <1>7, <1>8, <1>9, <1>10, <1>11, <1>12,
           <1>13, <1>14, <1>15, <1>16, <1>17, <1>18
        DEF Next, RunStep, NoterStep

\* However escalations and the end of sessions race, no connection is left open
\* that is neither the current one nor in the hands of a closeConn.
THEOREM ConnectionsAccounted == Spec => []NoConnectionForgotten
<1>1. Init => Owned
  BY DEF Init, Owned, NoConnectionForgotten, HeldBySession
<1>2. Owned => NoConnectionForgotten
  BY DEF Owned
<1> QED BY <1>1, <1>2, OwnedStep, TypeCorrect, PTL DEF Spec

-----------------------------------------------------------------------------
(***************************************************************************)
(* Leaks.  A session has a read loop of its own only between its start and *)
(* the end of StopGoroutine.                                               *)
(***************************************************************************)

Abandoned == {k \in Conns : readers[k] = "reading" /\ k # run.conn}

InSession == run.conn # None => run.at \in {"drain", "select", "stop", "close", "await"}

Counted == LeaksCounted /\ InSession

\* One more element raises a cardinality by at most one.
LEMMA AtMostOneMore ==
    ASSUME NEW S, NEW x, IsFiniteSet(S)
    PROVE  IsFiniteSet(S \cup {x}) /\ Cardinality(S \cup {x}) <= Cardinality(S) + 1
<1>1. Cardinality(S) \in Nat
  BY FS_CardinalityType
<1>2. /\ IsFiniteSet(S \cup {x})
      /\ Cardinality(S \cup {x}) = IF x \in S THEN Cardinality(S) ELSE Cardinality(S) + 1
  BY FS_AddElement
<1> QED BY <1>1, <1>2

\* Fewer abandoned read loops need no larger count.
LEMMA FewerAbandoned ==
    ASSUME TypeOK, LeaksCounted, Abandoned' \subseteq Abandoned, leaked' = leaked
    PROVE  LeaksCounted'
<1>1. IsFiniteSet(Abandoned)
  BY SocketAssumption, FS_Subset DEF Abandoned
<1>2. Cardinality(Abandoned') <= Cardinality(Abandoned) /\ Cardinality(Abandoned') \in Nat
  BY <1>1, FS_Subset, FS_CardinalityType
<1>3. Cardinality(Abandoned) \in Nat /\ leaked \in Nat
  BY <1>1, FS_CardinalityType DEF TypeOK, ClocksOK
<1>4. Cardinality(Abandoned) <= leaked
  BY DEF LeaksCounted, Abandoned
<1>5. Cardinality(Abandoned') <= leaked'
  BY <1>2, <1>3, <1>4
<1> QED BY <1>5 DEF LeaksCounted, Abandoned

\* Every step keeps the abandoned read loops counted.
LEMMA CountedStep ==
    ASSUME TypeOK, Counted, [Next]_vars
    PROVE  Counted'
<1> USE SocketAssumption
<1>0. LoopOK /\ LeaksCounted /\ InSession
  BY DEF TypeOK, Counted
<1>1. CASE session
  <2>1. Abandoned' \subseteq Abandoned
    BY <1>0, <1>1 DEF session, Abandoned, InSession, LoopOK
  <2>2. InSession' /\ leaked' = leaked
    BY <1>0, <1>1 DEF session, InSession, LoopOK
  <2> QED BY <1>0, <2>1, <2>2, FewerAbandoned DEF Counted
<1>2. CASE StopGoroutine
  <2>1. InSession'
    BY <1>0, <1>2 DEF StopGoroutine, InSession, LoopOK
  <2>2. CASE ReadLoopDone
    <3>1. Abandoned' \subseteq Abandoned /\ leaked' = leaked
      BY <1>0, <1>2, <2>2 DEF StopGoroutine, ReadLoopDone, Abandoned, LoopOK
    <3> QED BY <1>0, <2>1, <3>1, FewerAbandoned DEF Counted
  <2>3. CASE ~ReadLoopDone
    <3>1. leaked' = leaked + 1
      BY <1>2, <2>3 DEF StopGoroutine
    <3>2. Abandoned' \subseteq Abandoned \cup {run.conn}
      BY <1>0, <1>2, <2>3 DEF StopGoroutine, Abandoned, LoopOK
    <3>3. IsFiniteSet(Abandoned)
      BY FS_Subset DEF Abandoned
    <3>4. /\ IsFiniteSet(Abandoned \cup {run.conn})
          /\ Cardinality(Abandoned \cup {run.conn}) <= Cardinality(Abandoned) + 1
      BY <3>3, AtMostOneMore
    <3>5. /\ Cardinality(Abandoned') <= Cardinality(Abandoned \cup {run.conn})
          /\ Cardinality(Abandoned') \in Nat
      BY <3>2, <3>4, FS_Subset, FS_CardinalityType
    <3>6. /\ Cardinality(Abandoned) \in Nat /\ leaked \in Nat
          /\ Cardinality(Abandoned \cup {run.conn}) \in Nat
      BY <3>3, <3>4, FS_CardinalityType DEF TypeOK, ClocksOK
    <3>7. Cardinality(Abandoned) <= leaked
      BY <1>0 DEF LeaksCounted, Abandoned
    <3>8. Cardinality(Abandoned') <= leaked'
      BY <3>1, <3>4, <3>5, <3>6, <3>7
    <3> QED BY <2>1, <3>8 DEF Counted, LeaksCounted, Abandoned
  <2> QED BY <2>2, <2>3
<1>3. CASE \E k \in Conns : readLoopReturns(k)
  <2>1. Abandoned' \subseteq Abandoned
    BY <1>0, <1>3 DEF readLoopReturns, Abandoned, LoopOK
  <2>2. InSession' /\ leaked' = leaked
    BY <1>0, <1>3 DEF readLoopReturns, InSession
  <2> QED BY <1>0, <2>1, <2>2, FewerAbandoned DEF Counted
<1>4. ASSUME UNCHANGED readers, leaked' = leaked, run'.conn = run.conn, InSession'
      PROVE  Counted'
  <2>1. Abandoned' \subseteq Abandoned
    BY <1>4 DEF Abandoned
  <2> QED BY <1>0, <1>4, <2>1, FewerAbandoned DEF Counted
<1>5. CASE top \/ waited \/ dialFailed \/ sessionOver
  <2>1. UNCHANGED readers /\ leaked' = leaked /\ run'.conn = run.conn /\ InSession'
    BY <1>0, <1>5 DEF top, waited, dialFailed, sessionOver, Goto, InSession, LoopOK
  <2> QED BY <1>4, <2>1
<1>6. CASE (\E k \in Conns : setConn(k)) \/ reportConnected \/ drainRedial \/ sessionEnds
  <2>1. UNCHANGED readers /\ leaked' = leaked /\ run'.conn = run.conn /\ InSession'
    BY <1>0, <1>6 DEF setConn, reportConnected, drainRedial, sessionEnds, Goto, InSession,
                      LoopOK
  <2> QED BY <1>4, <2>1
<1>7. CASE sessionAged \/ takeConn \/ Close
  <2>1. UNCHANGED readers /\ leaked' = leaked /\ run'.conn = run.conn /\ InSession'
    BY <1>0, <1>7 DEF sessionAged, takeConn, Close, Goto, InSession, LoopOK
  <2> QED BY <1>4, <2>1
<1>8. CASE NoterStep \/ (\E s \in Streams : noteExpiry(s)) \/ Tick \/ Cancel \/ UNCHANGED vars
  <2>1. UNCHANGED readers /\ leaked' = leaked /\ run' = run
    BY <1>8 DEF NoterStep, escalate, closeEscalated, signal, noteExpiry, Tick, Cancel, vars
  <2>2. InSession'
    BY <1>0, <2>1 DEF InSession
  <2> QED BY <1>4, <2>1, <2>2
<1> QED BY <1>1, <1>2, <1>3, <1>5, <1>6, <1>7, <1>8 DEF Next, RunStep

\* Every read loop that outlives its session is in the count the venue's status
\* is computed from, however many do and in whatever order they return.
THEOREM LeaksStayCounted == Spec => []LeaksCounted
<1>1. Init => Counted
  <2> SUFFICES ASSUME Init PROVE Counted
    OBVIOUS
  <2>1. Abandoned = {} /\ leaked = 0 /\ InSession
    BY DEF Init, Abandoned, InSession
  <2>2. Cardinality(Abandoned) <= leaked
    BY <2>1, FS_EmptySet
  <2> QED BY <2>1, <2>2 DEF Counted, LeaksCounted, Abandoned
<1>2. Counted => LeaksCounted
  BY DEF Counted
<1> QED BY <1>1, <1>2, CountedStep, TypeCorrect, PTL DEF Spec

-----------------------------------------------------------------------------
(***************************************************************************)
(* The breaker.  Outside a dial, a breaker that has seen enough failures   *)
(* is open, and has been since the last of them; the probe is handed out   *)
(* with the dial, whose outcome opens it again or forgets the failures.    *)
(***************************************************************************)

Tripped == enabled /\ breaker.failures >= ConsecutiveFailures

Obeyed ==
    run.at \notin {"dial", "returned"} /\ Tripped
        => breaker.opened /\ breaker.age = sinceFailure

\* A failure that reaches the threshold opens the breaker.
LEMMA FailTrips ==
    ASSUME NEW b \in Breakers, enabled, Fail(b).failures >= ConsecutiveFailures
    PROVE  Fail(b).opened /\ Fail(b).age = 0
<1>1. CASE b.probing \/ UpTo(ConsecutiveFailures, b.failures + 1) >= ConsecutiveFailures
  BY <1>1 DEF Fail
<1>2. CASE ~(b.probing \/ UpTo(ConsecutiveFailures, b.failures + 1) >= ConsecutiveFailures)
  <2>1. Fail(b) = [b EXCEPT !.failures = UpTo(ConsecutiveFailures, b.failures + 1)]
    BY <1>2 DEF Fail
  <2>2. Fail(b).failures = UpTo(ConsecutiveFailures, b.failures + 1)
    BY <2>1 DEF Breakers
  <2> QED BY <1>2, <2>2
<1> QED BY <1>1, <1>2

\* A success leaves no failures to count.
LEMMA SucceedResets ==
    ASSUME NEW b \in Breakers, enabled
    PROVE  ~(Succeed(b).failures >= ConsecutiveFailures)
<1>1. ConsecutiveFailures \in Nat /\ ConsecutiveFailures >= 1
  BY BreakerAssumption DEF enabled
<1>2. Succeed(b).failures = 0
  BY DEF Succeed, NewBreaker
<1> QED BY <1>1, <1>2

\* Every step keeps a tripped breaker open since the last failure.
LEMMA ObeyedStep ==
    ASSUME TypeOK, Obeyed, [Next]_vars
    PROVE  Obeyed'
<1>0. breaker \in Breakers /\ sinceFailure \in Ages(OpenDuration) /\ LoopOK
  BY DEF TypeOK, ClocksOK
<1>1. CASE top
  <2>1. CASE run'.at \in {"dial", "returned"}
    BY <2>1 DEF Obeyed
  <2>2. CASE run'.at \notin {"dial", "returned"}
    <3>1. UNCHANGED <<breaker, sinceFailure>> /\ run.at = "top"
      BY <1>0, <1>1, <2>2 DEF top, Goto, LoopOK
    <3> QED BY <3>1 DEF Obeyed, Tripped
  <2> QED BY <2>1, <2>2
<1>2. CASE dialFailed
  <2>1. CASE cancelled
    BY <1>0, <1>2, <2>1 DEF dialFailed, Goto, LoopOK, Obeyed
  <2>2. CASE ~cancelled
    <3>1. breaker' = Fail(breaker) /\ sinceFailure' = 0
      BY <1>2, <2>2 DEF dialFailed
    <3>2. Tripped' => breaker'.opened /\ breaker'.age = sinceFailure'
      BY <1>0, <3>1, FailTrips DEF Tripped, enabled
    <3> QED BY <3>2 DEF Obeyed
  <2> QED BY <2>1, <2>2
<1>3. CASE \E k \in Conns : setConn(k)
  <2>1. breaker' = Succeed(breaker)
    BY <1>3 DEF setConn
  <2>2. ~Tripped'
    BY <1>0, <2>1, SucceedResets DEF Tripped, enabled
  <2> QED BY <2>2 DEF Obeyed
<1>4. CASE Tick
  <2>1. UNCHANGED run
    BY <1>4 DEF Tick
  <2>2. /\ breaker' = Older(breaker)
        /\ sinceFailure' = UpTo(OpenDuration, sinceFailure + 1)
    BY <1>4 DEF Tick
  <2>3. breaker'.failures = breaker.failures
    BY <1>0, <2>2 DEF Older, Breakers
  <2>4. breaker.opened => /\ breaker'.opened
                          /\ breaker'.age = UpTo(OpenDuration, breaker.age + 1)
    BY <1>0, <2>2 DEF Older, Breakers
  <2> QED BY <2>1, <2>2, <2>3, <2>4 DEF Obeyed, Tripped, enabled
<1>5. ASSUME UNCHANGED <<breaker, sinceFailure>>,
             run'.at \in {"dial", "returned"} \/ run.at \notin {"dial", "returned"}
      PROVE  Obeyed'
  BY <1>5 DEF Obeyed, Tripped, enabled
<1>6. CASE waited \/ reportConnected \/ drainRedial \/ sessionEnds \/ sessionOver
  <2>1. UNCHANGED <<breaker, sinceFailure>> /\ run.at \notin {"dial", "returned"}
    BY <1>6 DEF waited, reportConnected, drainRedial, sessionEnds, sessionOver
  <2> QED BY <1>5, <2>1
<1>7. CASE session \/ sessionAged \/ takeConn \/ Close \/ StopGoroutine
  <2>1. UNCHANGED <<breaker, sinceFailure>> /\ run.at \notin {"dial", "returned"}
    BY <1>7 DEF session, sessionAged, takeConn, Close, StopGoroutine
  <2> QED BY <1>5, <2>1
<1>8. CASE \/ NoterStep \/ (\E s \in Streams : noteExpiry(s))
           \/ (\E k \in Conns : readLoopReturns(k)) \/ Cancel \/ UNCHANGED vars
  <2>1. UNCHANGED <<breaker, sinceFailure, run>>
    BY <1>8 DEF NoterStep, escalate, closeEscalated, signal, noteExpiry, readLoopReturns,
                Cancel, vars
  <2> QED BY <1>5, <2>1
<1> QED BY <1>1, <1>2, <1>3, <1>4, <1>6, <1>7, <1>8 DEF Next, RunStep

\* A dial begins at the top of the loop only, when the breaker is not open.
LEMMA DialFromTop ==
    ASSUME TypeOK, [Next]_vars, run'.at = "dial", run.at # "dial"
    PROVE  run.at = "top" /\ ~Open(breaker)
<1>0. LoopOK
  BY DEF TypeOK
<1>1. CASE top
  BY <1>0, <1>1 DEF top, Goto, LoopOK
<1>2. CASE waited \/ dialFailed \/ sessionEnds \/ sessionOver
  BY <1>0, <1>2 DEF waited, dialFailed, sessionEnds, sessionOver, Goto, LoopOK
<1>3. CASE (\E k \in Conns : setConn(k)) \/ reportConnected \/ drainRedial
  BY <1>0, <1>3 DEF setConn, reportConnected, drainRedial, Goto, LoopOK
<1>4. CASE session \/ sessionAged \/ takeConn \/ Close \/ StopGoroutine
  BY <1>0, <1>4 DEF session, sessionAged, takeConn, Close, StopGoroutine, Goto, LoopOK
<1>5. CASE \/ NoterStep \/ (\E s \in Streams : noteExpiry(s))
           \/ (\E k \in Conns : readLoopReturns(k)) \/ Tick \/ Cancel \/ UNCHANGED vars
  BY <1>5 DEF NoterStep, escalate, closeEscalated, signal, noteExpiry, readLoopReturns,
              Tick, Cancel, vars
<1> QED BY <1>1, <1>2, <1>3, <1>4, <1>5 DEF Next, RunStep

\* Once enough dials in a row have failed, none begins within OpenDuration of
\* the last failure, for any threshold and any duration.
THEOREM BreakerObeyed == Spec => BreakerRespected
<1>1. Init => Obeyed
  <2> SUFFICES ASSUME Init, enabled PROVE ~(breaker.failures >= ConsecutiveFailures)
    BY DEF Obeyed, Tripped
  <2>1. breaker.failures = 0
    BY DEF Init, NewBreaker
  <2>2. ConsecutiveFailures \in Nat /\ ConsecutiveFailures >= 1
    BY BreakerAssumption DEF enabled
  <2> QED BY <2>1, <2>2
<1>2. ASSUME TypeOK, Obeyed, [Next]_vars
      PROVE  [enabled /\ run'.at = "dial" /\ run.at # "dial"
                /\ breaker.failures >= ConsecutiveFailures
                    => sinceFailure >= OpenDuration]_vars
  <2> SUFFICES ASSUME Tripped, run'.at = "dial", run.at # "dial"
               PROVE  sinceFailure >= OpenDuration
    BY DEF Tripped
  <2>1. run.at = "top" /\ ~Open(breaker)
    BY <1>2, DialFromTop
  <2>2. breaker.opened /\ breaker.age = sinceFailure
    BY <1>2, <2>1 DEF Obeyed
  <2>3. sinceFailure \in Nat /\ OpenDuration \in Nat
    BY <1>2, BreakerAssumption DEF TypeOK, ClocksOK, Ages
  <2>4. ~(sinceFailure < OpenDuration)
    BY <2>1, <2>2 DEF Open
  <2> QED BY <2>3, <2>4
<1> QED BY <1>1, <1>2, ObeyedStep, TypeCorrect, PTL DEF Spec, BreakerRespected

=============================================================================
