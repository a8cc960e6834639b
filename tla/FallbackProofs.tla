----------------------------- MODULE FallbackProofs -----------------------------
(***************************************************************************)
(* Who serves a stream, for any number of streams and poller goroutines    *)
(* and any cap: the interleavings of the watcher, the pollers and the      *)
(* publish paths never lose a poller and never pass the cap.               *)
(***************************************************************************)
EXTENDS Fallback, FiniteSetTheorems, TLAPS

\* A poller that Note took off its stream and has still to signal serves nothing.
Orphaned ==
    \A s \in Streams :
        publishing[s].poller # NoPoller =>
            /\ publishing[s].at = "disengage"
            /\ publishing[s].poller \in {s} \X Slots
            /\ active[s] # publishing[s].poller

\* stop empties active and nobody engages afterwards.
Halting ==
    /\ watcher.at \in {"halt", "returned"} => \A s \in Streams : active[s] = NoPoller
    /\ watcher.at # "halt" => watcher.halting = {}

Ownership == OwnerAlive /\ Orphaned /\ Halting /\ NoPollerForgotten

-----------------------------------------------------------------------------
(***************************************************************************)
(* Types                                                                   *)
(***************************************************************************)

\* A verdict is never UNSPECIFIED.
LEMMA StatusIsSpecified ==
    ASSUME NEW s \in Streams
    PROVE  Status(s).status \in {HEALTHY, DEGRADED, STALE}
BY DEF Status, compute, Verdict

\* Inside Expired the watcher names a stream, and what remains of its sweep names
\* streams.
LEMMA SubjectIsStream ==
    ASSUME WatcherOK,
           watcher.at \in {"expired", "report", "engage", "refused", "engaged"}
    PROVE  /\ Subject \in Streams
           /\ Tail(watcher.found) \in Seq(Streams)
BY DEF WatcherOK, Subject

\* What remains of a sweep is a sweep.
LEMMA OnwardOK ==
    ASSUME WatcherOK,
           watcher.at \in {"expired", "report", "engage", "refused", "engaged"},
           active' \in [Streams -> Pollers \cup {NoPoller}],
           expired' \subseteq Streams, events' \subseteq Streams, cancelled' \in BOOLEAN,
           watcher' = Onward
    PROVE  WatcherOK'
BY SubjectIsStream DEF WatcherOK, Onward

\* A poller's record may be replaced by any other of its type.
LEMMA PollerReplaced ==
    ASSUME PollersOK, NEW p \in Pollers,
           NEW record \in [at : {"none", "created", "fetch", "owns", "polled", "stamp", "write",
                                "failed", "wait"},
                           why : {"", reasonPoll, reasonEmpty}, status : Statuses],
           record.at = "write" => record.status # UNSPECIFIED,
           pollers' = [pollers EXCEPT ![p] = record],
           stopped' \subseteq Pollers
    PROVE  PollersOK'
BY DEF PollersOK

\* Every step of the watcher, the pollers and the streams keeps the types.
LEMMA TypeStep ==
    ASSUME TypeOK, [Next]_vars
    PROVE  TypeOK'
<1> USE DEF TypeOK
<1>1. ASSUME NEW s \in Streams, KeyExpires(s) PROVE TypeOK'
  <2>1. Absent \in Values
    BY DEF Values
  <2>4. key' \in [Streams -> Values]
    BY <1>1, <2>1 DEF KeyExpires
  <2>2. WatcherOK'
    BY <1>1 DEF KeyExpires, WatcherOK
  <2>3. PollersOK' /\ PublishingOK'
    BY <1>1 DEF KeyExpires, PollersOK, PublishingOK
  <2> QED BY <2>4, <2>2, <2>3
<1>2. ASSUME NEW s \in Streams, onEvent(s) PROVE TypeOK'
  <2>1. <<s>> \in Seq(Streams) /\ <<s>> # <<>>
    OBVIOUS
  <2>2. WatcherOK'
    BY <1>2, <2>1 DEF onEvent, WatcherOK, Watching
  <2> QED BY <1>2, <2>2 DEF onEvent, PollersOK, PublishingOK
<1>3. ASSUME sweep PROVE TypeOK'
  <2> DEFINE missing == {s \in Streams : key[s] = Absent}
  <2>1. IsFiniteSet(missing)
    BY PollAssumption, FS_Subset
  <2>2. Cardinality(missing) \in Nat /\ (Cardinality(missing) = 0 <=> missing = {})
    BY <2>1, FS_CardinalityType, FS_EmptySet
  <2>3. PICK found \in [1..Cardinality(missing) -> missing] :
            watcher' = [watcher EXCEPT !.at = IF missing = {} THEN "select" ELSE "expired",
                                       !.found = found]
    BY <1>3 DEF sweep
  <2>4. missing \subseteq Streams
    OBVIOUS
  <2> HIDE DEF missing
  <2>5. found \in Seq(Streams) /\ (missing # {} => found # <<>>)
    BY <2>2, <2>4
  <2>6. WatcherOK'
    BY <1>3, <2>3, <2>5 DEF sweep, WatcherOK, Watching
  <2> QED BY <1>3, <2>6 DEF sweep, PollersOK, PublishingOK
<1>4. ASSUME markExpired PROVE TypeOK'
  <2>1. WatcherOK'
    BY <1>4, SubjectIsStream DEF markExpired, WatcherOK
  <2> QED BY <1>4, <2>1 DEF markExpired, PollersOK, PublishingOK
<1>5. ASSUME reportExpired PROVE TypeOK'
  <2>1. WatcherOK'
    BY <1>5 DEF reportExpired, WatcherOK
  <2> QED BY <1>5, <2>1 DEF reportExpired, PollersOK, PublishingOK
<1>6. ASSUME engage PROVE TypeOK'
  <2>1. Subject \in Streams
    BY <1>6, SubjectIsStream DEF engage
  <2>2. CASE watcher' = Onward /\ UNCHANGED <<active, pollers, stopped>>
    <3>1. WatcherOK'
      BY <1>6, <2>2, OnwardOK DEF engage, WatcherOK
    <3> QED BY <1>6, <2>2, <3>1 DEF engage, PollersOK, PublishingOK
  <2>3. CASE watcher' = [watcher EXCEPT !.at = "refused"] /\ UNCHANGED <<active, pollers, stopped>>
    <3>1. WatcherOK'
      BY <1>6, <2>3 DEF engage, WatcherOK
    <3> QED BY <1>6, <2>3, <3>1 DEF engage, PollersOK, PublishingOK
  <2>4. ASSUME NEW p \in {Subject} \X Slots,
               active' = [active EXCEPT ![Subject] = p],
               pollers' = [pollers EXCEPT ![p] = [NoGoroutine EXCEPT !.at = "created"]],
               stopped' = stopped \ {p},
               watcher' = [watcher EXCEPT !.at = "engaged"]
        PROVE  TypeOK'
    <3>1. p \in Pollers
      BY <2>1 DEF Pollers
    <3>2. WatcherOK'
      BY <1>6, <2>1, <2>4, <3>1 DEF engage, WatcherOK
    <3>3. PollersOK'
      BY <2>4, <3>1 DEF PollersOK, NoGoroutine, Statuses
    <3> QED BY <1>6, <3>2, <3>3 DEF engage, PublishingOK
  <2> QED BY <1>6, <2>2, <2>3, <2>4 DEF engage
<1>7. ASSUME reportRefused PROVE TypeOK'
  <2>1. WatcherOK'
    BY <1>7, OnwardOK DEF reportRefused, WatcherOK
  <2> QED BY <1>7, <2>1 DEF reportRefused, PollersOK, PublishingOK
<1>8. ASSUME reportEngaged PROVE TypeOK'
  <2>1. WatcherOK'
    BY <1>8, OnwardOK DEF reportEngaged, WatcherOK
  <2>2. PICK p \in {Subject} \X Slots : pollers' = [pollers EXCEPT ![p].at = "fetch"]
    BY <1>8 DEF reportEngaged
  <2>3. PollersOK'
    <3>1. p \in Pollers
      BY <1>8, SubjectIsStream DEF reportEngaged, Pollers
    <3>2. stopped' = stopped
      BY <1>8 DEF reportEngaged
    <3> QED BY <2>2, <3>1, <3>2 DEF PollersOK
  <2> QED BY <1>8, <2>1, <2>3 DEF reportEngaged, PublishingOK
<1>9. ASSUME stop PROVE TypeOK'
  <2>1. {active[s] : s \in Active} \subseteq Pollers
    BY DEF WatcherOK, Active
  <2>2. WatcherOK'
    BY <1>9, <2>1 DEF stop, WatcherOK, Watching
  <2> QED BY <1>9, <2>2 DEF stop, PollersOK, PublishingOK
<1>10. ASSUME NEW p \in Pollers, halt(p) PROVE TypeOK'
  <2>1. WatcherOK'
    BY <1>10 DEF halt, WatcherOK
  <2>2. PollersOK'
    BY <1>10 DEF halt, PollersOK
  <2> QED BY <1>10, <2>1, <2>2 DEF halt, PublishingOK
<1>11. ASSUME RunReturns PROVE TypeOK'
  <2>1. WatcherOK'
    BY <1>11 DEF RunReturns, WatcherOK
  <2> QED BY <1>11, <2>1 DEF RunReturns, PollersOK, PublishingOK
<1>12. ASSUME NEW p \in Pollers, PollerStep(p) PROVE TypeOK'
  <2>1. stream(p) \in Streams
    BY DEF Pollers, stream
  <2>2. WatcherOK' /\ PublishingOK'
    BY <1>12 DEF PollerStep, PollerOnly, fetched, owns, polled, stampRest, writeRest,
                 reportFailed, pollAgain, runReturns, WatcherOK, PublishingOK
  <2>3. ASSUME NEW place \in {"owns", "wait", "polled", "stamp", "fetch"},
               Goto(p, place), UNCHANGED <<stopped, key>>
        PROVE  TypeOK'
    BY <2>2, <2>3 DEF PollersOK, Goto
  <2>4. ASSUME NEW reason \in {reasonPoll, reasonEmpty},
               Fails(p, reason), UNCHANGED <<stopped, key>>
        PROVE  TypeOK'
    BY <2>2, <2>4 DEF PollersOK, Fails
  <2>5. CASE fetched(p) \/ owns(p) \/ polled(p) \/ pollAgain(p)
    BY <2>3, <2>4, <2>5 DEF fetched, owns, polled, pollAgain
  <2>6. CASE reportFailed(p)
    BY <2>2, <2>6 DEF PollersOK, reportFailed
  <2>7. CASE stampRest(p)
    <3>1. /\ Status(stream(p)).status \in Statuses
          /\ Status(stream(p)).status # UNSPECIFIED
      BY <2>1, StatusIsSpecified DEF Statuses, UNSPECIFIED, HEALTHY, DEGRADED, STALE
    <3>2. PollersOK'
      BY <2>7, <3>1 DEF PollersOK, stampRest
    <3> QED BY <2>2, <2>7, <3>2 DEF stampRest
  <2>8. CASE writeRest(p)
    <3>1. PICK place \in {"wait", "failed"}, reason \in {"", reasonPoll} :
              pollers' = [pollers EXCEPT ![p] = [@ EXCEPT !.at = place, !.why = reason,
                                                          !.status = UNSPECIFIED]]
      BY <2>8 DEF writeRest
    <3>2. PollersOK'
      <4> DEFINE record == [pollers[p] EXCEPT !.at = place, !.why = reason,
                                              !.status = UNSPECIFIED]
      <4>1. pollers' = [pollers EXCEPT ![p] = record]
        BY <3>1
      <4>2. UNSPECIFIED \in Statuses
        BY DEF Statuses
      <4>3. /\ record \in [at : {"none", "created", "fetch", "owns", "polled", "stamp",
                                "write", "failed", "wait"},
                          why : {"", reasonPoll, reasonEmpty}, status : Statuses]
            /\ record.at # "write"
        BY <4>2 DEF PollersOK
      <4>4. stopped' \subseteq Pollers
        BY <2>8 DEF writeRest, PollersOK
      <4> HIDE DEF record
      <4> QED BY <4>1, <4>3, <4>4, PollerReplaced
    <3>3. [source |-> "REST", status |-> pollers[p].status] \in Values
      BY <2>8 DEF PollersOK, writeRest, Statuses, Values
    <3>4. key' \in [Streams -> Values]
      BY <2>1, <2>8, <3>3 DEF writeRest
    <3> QED BY <2>2, <3>2, <3>4
  <2>9. CASE runReturns(p)
    <3>1. PollersOK'
      BY <2>9 DEF PollersOK, runReturns, NoGoroutine, Statuses
    <3> QED BY <2>2, <2>9, <3>1 DEF runReturns
  <2> QED BY <1>12, <2>5, <2>6, <2>7, <2>8, <2>9 DEF PollerStep
<1>13. ASSUME NEW s \in Streams, Note(s) PROVE TypeOK'
  <2>1. WatcherOK'
    BY <1>13 DEF Note, WatcherOK
  <2>2. PICK place \in {"disengage", "receive"} :
            publishing' = [publishing EXCEPT ![s].at = place, ![s].poller = active[s]]
    BY <1>13 DEF Note
  <2>3. PublishingOK'
    <3> DEFINE record == [publishing[s] EXCEPT !.at = place, !.poller = active[s]]
    <3>1. publishing' = [publishing EXCEPT ![s] = record]
      BY <2>2
    <3>2. active[s] \in Pollers \cup {NoPoller}
      BY DEF WatcherOK
    <3>3. /\ record \in [at : {"idle", "disengage", "receive", "stamp", "write"},
                          poller : Pollers \cup {NoPoller}, status : Statuses]
          /\ record.at # "write"
      BY <3>2 DEF PublishingOK
    <3> HIDE DEF record
    <3> QED BY <3>1, <3>3 DEF PublishingOK
  <2> QED BY <1>13, <2>1, <2>3 DEF Note, PollersOK
<1>14. ASSUME NEW s \in Streams, PublishStep(s) PROVE TypeOK'
  <2>1. WatcherOK'
    BY <1>14 DEF PublishStep, disengage, receive, stampSocket, writeSocket, StreamOnly,
                 WatcherOK
  <2>2. PollersOK'
    BY <1>14 DEF PublishStep, disengage, receive, stampSocket, writeSocket,
                 PollersOK, PublishingOK
  <2>3. CASE disengage(s) \/ receive(s)
    <3>1. PublishingOK'
      BY <2>3 DEF PublishingOK, disengage, receive
    <3> QED BY <2>1, <2>2, <2>3, <3>1 DEF disengage, receive
  <2>4. CASE stampSocket(s)
    <3>1. PublishingOK'
      BY <2>4, StatusIsSpecified
      DEF PublishingOK, stampSocket, Idle, Statuses, UNSPECIFIED, HEALTHY, DEGRADED, STALE
    <3> QED BY <2>1, <2>2, <2>4, <3>1 DEF stampSocket
  <2>5. CASE writeSocket(s)
    <3>1. PublishingOK'
      BY <2>5 DEF PublishingOK, writeSocket, Idle, Statuses
    <3>2. [source |-> "WEBSOCKET", status |-> publishing[s].status] \in Values
      BY <2>5 DEF PublishingOK, writeSocket, Statuses, Values
    <3>3. key' \in [Streams -> Values]
      BY <2>5, <3>2 DEF writeSocket
    <3> QED BY <2>1, <2>2, <3>1, <3>3
  <2> QED BY <1>14, <2>3, <2>4, <2>5 DEF PublishStep
<1>15. ASSUME Cancel PROVE TypeOK'
  BY <1>15 DEF Cancel, WatcherOK, PollersOK, PublishingOK
<1>16. ASSUME UNCHANGED vars PROVE TypeOK'
  BY <1>16 DEF vars, WatcherOK, PollersOK, PublishingOK
<1> QED BY <1>1, <1>2, <1>3, <1>4, <1>5, <1>6, <1>7, <1>8, <1>9, <1>10, <1>11, <1>12,
           <1>13, <1>14, <1>15, <1>16 DEF Next, WatcherStep

\* The goroutines of the fallback and the publish path keep every variable within
\* its type, and never write a value without a status.
THEOREM TypeCorrect == Spec => []TypeOK
<1>1. ASSUME Init PROVE TypeOK
  <2>1. WatcherOK
    <3>1. active \in [Streams -> Pollers \cup {NoPoller}]
      BY <1>1 DEF Init
    <3>2. <<>> \in Seq(Streams) /\ {} \in SUBSET Pollers
      OBVIOUS
    <3>3. /\ watcher.at = "select"
          /\ watcher \in [at : {"select", "expired", "report", "engage", "refused", "engaged",
                                "halt", "returned"},
                          found : Seq(Streams), halting : SUBSET Pollers]
      BY <1>1, <3>2 DEF Init
    <3>4. expired = {} /\ events = {} /\ cancelled = FALSE
      BY <1>1 DEF Init
    <3> QED BY <3>1, <3>3, <3>4 DEF WatcherOK
  <2>2. PollersOK
    BY <1>1 DEF Init, PollersOK, NoGoroutine, Statuses
  <2>3. PublishingOK
    BY <1>1 DEF Init, PublishingOK, Idle, Statuses
  <2>4. key \in [Streams -> Values]
    BY <1>1 DEF Init, Values
  <2> QED BY <2>1, <2>2, <2>3, <2>4 DEF TypeOK
<1> QED BY <1>1, TypeStep, PTL DEF Spec

-----------------------------------------------------------------------------
(***************************************************************************)
(* Ownership                                                               *)
(***************************************************************************)

\* A step that changes none of the variables the ownership is about, and starts
\* and ends no goroutine.
LEMMA OwnershipKept ==
    ASSUME TypeOK, Ownership,
           UNCHANGED <<active, stopped, publishing, watcher>>,
           cancelled => cancelled',
           \A p \in Pollers : pollers'[p].at = "none" <=> pollers[p].at = "none"
    PROVE  Ownership'
<1>1. OwnerAlive'
  BY DEF Ownership, OwnerAlive, Active, TypeOK, WatcherOK
<1>2. Orphaned' /\ Halting'
  BY DEF Ownership, Orphaned, Halting
<1>3. NoPollerForgotten'
  BY DEF Ownership, NoPollerForgotten
<1> QED BY <1>1, <1>2, <1>3 DEF Ownership

\* The watcher going on, without stopping.
LEMMA OwnershipOfWatcher ==
    ASSUME TypeOK, Ownership,
           UNCHANGED <<active, stopped, publishing, cancelled>>,
           watcher.at \notin {"halt", "returned"},
           watcher'.at \notin {"halt", "returned"},
           watcher'.halting = watcher.halting,
           \A p \in Pollers : pollers'[p].at = "none" <=> pollers[p].at = "none"
    PROVE  Ownership'
<1>1. OwnerAlive'
  BY DEF Ownership, OwnerAlive, Active, TypeOK, WatcherOK
<1>2. Orphaned' /\ Halting'
  BY DEF Ownership, Orphaned, Halting
<1>3. NoPollerForgotten'
  BY DEF Ownership, NoPollerForgotten
<1> QED BY <1>1, <1>2, <1>3 DEF Ownership

\* Every step keeps what is known of owners, orphans and the shutdown.
LEMMA OwnershipStep ==
    ASSUME TypeOK, TypeOK', Ownership, [Next]_vars
    PROVE  Ownership'
<1>1. ASSUME NEW s \in Streams, KeyExpires(s) PROVE Ownership'
  BY <1>1, OwnershipKept DEF KeyExpires
<1>2. ASSUME (\E s \in Streams : onEvent(s)) \/ sweep \/ markExpired \/ reportExpired
             \/ reportRefused
      PROVE  Ownership'
  <2>1. /\ watcher.at \notin {"halt", "returned"}
        /\ watcher'.at \notin {"halt", "returned"}
        /\ watcher'.halting = watcher.halting
    BY <1>2 DEF onEvent, sweep, markExpired, reportExpired, reportRefused, Onward,
                Watching, TypeOK, WatcherOK
  <2> QED BY <1>2, <2>1, OwnershipOfWatcher
          DEF onEvent, sweep, markExpired, reportExpired, reportRefused
<1>3. ASSUME reportEngaged PROVE Ownership'
  <2>1. /\ watcher.at \notin {"halt", "returned"}
        /\ watcher'.at \notin {"halt", "returned"}
        /\ watcher'.halting = watcher.halting
    BY <1>3 DEF reportEngaged, Onward, TypeOK, WatcherOK
  <2>2. PICK p \in {Subject} \X Slots :
            pollers[p].at = "created" /\ pollers' = [pollers EXCEPT ![p].at = "fetch"]
    BY <1>3 DEF reportEngaged
  <2>3. \A q \in Pollers : pollers'[q].at = "none" <=> pollers[q].at = "none"
    BY <2>2 DEF TypeOK, PollersOK
  <2> QED BY <1>3, <2>1, <2>3, OwnershipOfWatcher DEF reportEngaged
<1>4. ASSUME engage PROVE Ownership'
  <2>1. /\ watcher.at \notin {"halt", "returned"}
        /\ watcher'.at \notin {"halt", "returned"}
        /\ watcher'.halting = watcher.halting
    BY <1>4 DEF engage, Onward, TypeOK, WatcherOK
  <2>2. CASE UNCHANGED <<active, pollers, stopped>>
    BY <1>4, <2>1, <2>2, OwnershipOfWatcher DEF engage
  <2>3. ASSUME NEW p \in {Subject} \X Slots, Unused(p), Subject \notin Active,
               active' = [active EXCEPT ![Subject] = p],
               pollers' = [pollers EXCEPT ![p] = [NoGoroutine EXCEPT !.at = "created"]],
               stopped' = stopped \ {p}
        PROVE  Ownership'
    <3>1. Subject \in Streams /\ p \in Pollers /\ stream(p) = Subject
      BY <1>4, SubjectIsStream DEF engage, TypeOK, Pollers, stream
    <3>2. active[Subject] = NoPoller
      BY <2>3, <3>1 DEF Active
    <3>3. pollers'[p].at = "created"
      BY <2>3, <3>1 DEF TypeOK, PollersOK, NoGoroutine
    <3>4. \A q \in Pollers : q # p => pollers'[q] = pollers[q]
      BY <2>3, <3>1 DEF TypeOK, PollersOK
    <3>5. \A s \in Streams : active'[s] = IF s = Subject THEN p ELSE active[s]
      BY <2>3, <3>1 DEF TypeOK, WatcherOK
    <3>6. publishing' = publishing /\ cancelled' = cancelled
      BY <1>4 DEF engage
    <3>7. OwnerAlive'
      <4> SUFFICES ASSUME NEW s \in Streams, active'[s] # NoPoller
                   PROVE  /\ active'[s] \in {s} \X Slots
                          /\ active'[s] \notin stopped'
                          /\ pollers'[active'[s]].at # "none" \/ cancelled'
        BY DEF OwnerAlive, Active
      <4>1. CASE s = Subject
        BY <2>3, <3>1, <3>3, <3>5, <4>1
      <4>2. CASE s # Subject
        <5>1. active[s] \in {s} \X Slots /\ active[s] \notin stopped
              /\ (pollers[active[s]].at # "none" \/ cancelled)
          BY <3>5, <4>2 DEF Ownership, OwnerAlive, Active
        <5>2. active[s] # p /\ active[s] \in Pollers
          BY <4>2, <5>1 DEF Pollers
        <5> QED BY <2>3, <3>4, <3>5, <3>6, <4>2, <5>1, <5>2
      <4> QED BY <4>1, <4>2
    <3>8. Orphaned'
      <4> SUFFICES ASSUME NEW s \in Streams, publishing[s].poller # NoPoller
                   PROVE  /\ publishing[s].at = "disengage"
                          /\ publishing[s].poller \in {s} \X Slots
                          /\ active'[s] # publishing[s].poller
        BY <3>6 DEF Orphaned
      <4> QED BY <2>3, <3>1, <3>5 DEF Ownership, Orphaned, Unused
    <3>9. Halting'
      BY <2>1 DEF Ownership, Halting
    <3>10. NoPollerForgotten'
      <4> SUFFICES ASSUME NEW q \in Pollers, pollers'[q].at # "none", active'[stream(q)] # q
                   PROVE  \/ q \in stopped'
                          \/ publishing'[stream(q)].poller = q
                          \/ q \in watcher'.halting
        BY DEF NoPollerForgotten
      <4>1. q # p /\ stream(q) \in Streams
        BY <3>1, <3>5 DEF Pollers, stream
      <4>2. pollers[q].at # "none"
        BY <3>4, <4>1
      <4>3. active[stream(q)] # q
        BY <3>2, <3>5, <4>1, PollAssumption DEF Pollers
      <4> QED BY <2>1, <2>3, <3>6, <4>1, <4>2, <4>3 DEF Ownership, NoPollerForgotten
    <3> QED BY <3>7, <3>8, <3>9, <3>10 DEF Ownership
  <2> QED BY <1>4, <2>2, <2>3 DEF engage
<1>5. ASSUME stop PROVE Ownership'
  <2>1. active' = [s \in Streams |-> NoPoller]
    BY <1>5 DEF stop
  <2>2. OwnerAlive' /\ Orphaned' /\ Halting'
    <3>1. \A s \in Streams : active'[s] = NoPoller
      BY <2>1
    <3>2. watcher'.at = "halt" /\ publishing' = publishing
      BY <1>5 DEF stop, TypeOK, WatcherOK
    <3>3. OwnerAlive'
      BY <3>1 DEF OwnerAlive, Active
    <3>4. Orphaned'
      BY <3>1, <3>2, PollAssumption DEF Ownership, Orphaned, Pollers
    <3>5. Halting'
      BY <3>1, <3>2 DEF Halting
    <3> QED BY <3>3, <3>4, <3>5
  <2>3. NoPollerForgotten'
    <3> SUFFICES ASSUME NEW q \in Pollers, pollers[q].at # "none"
                 PROVE  \/ q \in stopped
                        \/ publishing[stream(q)].poller = q
                        \/ q \in watcher'.halting
      BY <1>5 DEF NoPollerForgotten, stop
    <3>1. watcher'.halting = {active[s] : s \in Active} /\ watcher.halting = {}
      BY <1>5 DEF stop, Watching, Ownership, Halting, TypeOK, WatcherOK
    <3>2. stream(q) \in Streams
      BY DEF Pollers, stream
    <3>3. CASE active[stream(q)] = q
      BY <3>1, <3>2, <3>3, PollAssumption DEF Active, Pollers
    <3>4. CASE active[stream(q)] # q
      BY <3>1, <3>4 DEF Ownership, NoPollerForgotten
    <3> QED BY <3>3, <3>4
  <2> QED BY <2>2, <2>3 DEF Ownership
<1>6. ASSUME NEW p \in Pollers, halt(p) PROVE Ownership'
  <2>1. \A s \in Streams : active[s] = NoPoller
    BY <1>6 DEF halt, Ownership, Halting
  <2>2. watcher'.at = "halt"
    BY <1>6 DEF halt, TypeOK, WatcherOK
  <2>3. UNCHANGED <<active, pollers, publishing, cancelled>>
    BY <1>6 DEF halt
  <2>4. OwnerAlive' /\ Orphaned' /\ Halting'
    BY <2>1, <2>2, <2>3 DEF OwnerAlive, Active, Ownership, Orphaned, Halting
  <2>5. NoPollerForgotten'
    <3>1. \A q \in Pollers : q \in watcher.halting /\ pollers[q].at # "none"
                                => q \in watcher'.halting
      BY <1>6 DEF halt, TypeOK, WatcherOK
    <3>2. stopped \subseteq stopped'
      BY <1>6 DEF halt
    <3> QED BY <2>3, <3>1, <3>2 DEF Ownership, NoPollerForgotten
  <2> QED BY <2>4, <2>5 DEF Ownership
<1>7. ASSUME RunReturns PROVE Ownership'
  <2>1. watcher'.at = "returned" /\ watcher'.halting = {} /\ watcher.halting = {}
    BY <1>7 DEF RunReturns, TypeOK, WatcherOK
  <2> QED BY <1>7, <2>1 DEF RunReturns, Ownership, OwnerAlive, Active, Orphaned, Halting,
                            NoPollerForgotten
<1>8. ASSUME NEW p \in Pollers, PollerStep(p) PROVE Ownership'
  <2>1. UNCHANGED <<active, watcher, publishing, cancelled>>
    BY <1>8 DEF PollerStep, PollerOnly, fetched, owns, polled, stampRest, writeRest,
                reportFailed, pollAgain, runReturns
  <2>2. CASE ~runReturns(p)
    <3>1. stopped' = stopped
      BY <1>8, <2>2 DEF PollerStep, fetched, owns, polled, stampRest, writeRest,
                        reportFailed, pollAgain
    <3>2. /\ pollers[p].at # "none" /\ pollers'[p].at # "none"
          /\ \A q \in Pollers : q # p => pollers'[q] = pollers[q]
      <4>1. ASSUME NEW record, record.at # "none", pollers[p].at # "none",
                   pollers' = [pollers EXCEPT ![p] = record]
            PROVE  /\ pollers[p].at # "none" /\ pollers'[p].at # "none"
                   /\ \A q \in Pollers : q # p => pollers'[q] = pollers[q]
        BY <4>1 DEF TypeOK, PollersOK
      <4>2. CASE fetched(p) \/ owns(p) \/ polled(p) \/ pollAgain(p)
        <5>1. PICK place \in {"owns", "wait", "polled", "stamp", "fetch", "failed"} :
                 Goto(p, place) \/ \E reason : Fails(p, reason) /\ place = "failed"
          BY <4>2 DEF fetched, owns, polled, pollAgain
        <5>2. pollers[p].at # "none" /\ pollers[p] = [at |-> pollers[p].at, why |-> pollers[p].why,
                                                     status |-> pollers[p].status]
          BY <4>2 DEF fetched, owns, polled, pollAgain, TypeOK, PollersOK
        <5>3. CASE Goto(p, place)
          BY <4>1, <5>2, <5>3 DEF Goto
        <5>4. ASSUME NEW reason, Fails(p, reason)
              PROVE  /\ pollers[p].at # "none" /\ pollers'[p].at # "none"
                     /\ \A q \in Pollers : q # p => pollers'[q] = pollers[q]
          BY <4>1, <5>2, <5>4 DEF Fails
        <5> QED BY <5>1, <5>3, <5>4
      <4>3. CASE stampRest(p)
        BY <4>3 DEF stampRest, TypeOK, PollersOK
      <4>4. CASE reportFailed(p)
        BY <4>4 DEF reportFailed, TypeOK, PollersOK
      <4>5. CASE writeRest(p)
        <5>1. PICK place \in {"wait", "failed"}, reason \in {"", reasonPoll} :
                  pollers' = [pollers EXCEPT ![p] = [@ EXCEPT !.at = place, !.why = reason,
                                                              !.status = UNSPECIFIED]]
          BY <4>5 DEF writeRest
        <5>2. pollers[p].at = "write"
          BY <4>5 DEF writeRest
        <5> DEFINE record == [pollers[p] EXCEPT !.at = place, !.why = reason,
                                                !.status = UNSPECIFIED]
        <5>3. pollers' = [pollers EXCEPT ![p] = record]
          BY <5>1
        <5>4. record.at # "none"
          BY DEF TypeOK, PollersOK
        <5> HIDE DEF record
        <5> QED BY <4>1, <5>2, <5>3, <5>4
      <4> QED BY <1>8, <2>2, <4>2, <4>3, <4>4, <4>5 DEF PollerStep
    <3> QED BY <2>1, <3>1, <3>2, OwnershipKept
  <2>3. CASE runReturns(p)
    <3>1. /\ pollers' = [pollers EXCEPT ![p] = NoGoroutine]
          /\ stopped' = stopped \ {p}
          /\ p \in stopped \/ cancelled
      BY <2>3 DEF runReturns
    <3>2. \A q \in Pollers : q # p => pollers'[q] = pollers[q]
      BY <3>1 DEF TypeOK, PollersOK
    <3>3. pollers'[p].at = "none"
      BY <3>1 DEF TypeOK, PollersOK, NoGoroutine
    <3>4. OwnerAlive'
      BY <2>1, <3>1, <3>2 DEF Ownership, OwnerAlive, Active, TypeOK, WatcherOK
    <3>5. NoPollerForgotten'
      BY <2>1, <3>1, <3>2, <3>3 DEF Ownership, NoPollerForgotten
    <3> QED BY <2>1, <3>4, <3>5 DEF Ownership, Orphaned, Halting
  <2> QED BY <2>2, <2>3
<1>9. ASSUME NEW s \in Streams, Note(s) PROVE Ownership'
  <2>1. UNCHANGED <<watcher, pollers, stopped, cancelled>>
    BY <1>9 DEF Note
  <2>2. \A t \in Streams : active'[t] = IF t = s THEN NoPoller ELSE active[t]
    BY <1>9 DEF Note, TypeOK, WatcherOK
  <2>3. \A t \in Streams : t # s => publishing'[t] = publishing[t]
    BY <1>9 DEF Note, TypeOK, PublishingOK
  <2>4. /\ publishing'[s].poller = active[s]
        /\ active[s] # NoPoller => publishing'[s].at = "disengage"
    BY <1>9 DEF Note, TypeOK, PublishingOK
  <2>5. OwnerAlive'
    BY <2>1, <2>2 DEF Ownership, OwnerAlive, Active
  <2>6. Orphaned'
    BY <2>2, <2>3, <2>4 DEF Ownership, OwnerAlive, Active, Orphaned
  <2>7. Halting'
    BY <2>1, <2>2 DEF Ownership, Halting
  <2>8. NoPollerForgotten'
    <3> SUFFICES ASSUME NEW q \in Pollers, pollers[q].at # "none", active'[stream(q)] # q
                 PROVE  \/ q \in stopped
                        \/ publishing'[stream(q)].poller = q
                        \/ q \in watcher.halting
      BY <2>1 DEF NoPollerForgotten
    <3>1. stream(q) \in Streams
      BY DEF Pollers, stream
    <3>2. CASE active[stream(q)] = q
      BY <2>2, <2>4, <3>1, <3>2
    <3>3. CASE active[stream(q)] # q
      <4>1. stream(q) = s => publishing[s].poller = NoPoller
        BY <1>9 DEF Note, Ownership, Orphaned
      <4> QED BY <2>3, <3>1, <3>3, <4>1, PollAssumption
              DEF Ownership, NoPollerForgotten, Pollers
    <3> QED BY <3>2, <3>3
  <2> QED BY <2>5, <2>6, <2>7, <2>8 DEF Ownership
<1>10. ASSUME NEW s \in Streams, disengage(s) PROVE Ownership'
  <2>1. UNCHANGED <<active, watcher, pollers, cancelled>>
    BY <1>10 DEF disengage, StreamOnly
  <2>2. stopped' = stopped \cup ({publishing[s].poller} \ {NoPoller})
    BY <1>10 DEF disengage
  <2>3. /\ publishing'[s].poller = NoPoller
        /\ \A t \in Streams : t # s => publishing'[t] = publishing[t]
    BY <1>10 DEF disengage, TypeOK, PublishingOK
  <2>4. OwnerAlive'
    <3> SUFFICES ASSUME NEW t \in Streams, active[t] # NoPoller
                 PROVE  active[t] \notin stopped'
      BY <2>1 DEF Ownership, OwnerAlive, Active
    <3>1. active[t] \in {t} \X Slots /\ active[t] \notin stopped
      BY DEF Ownership, OwnerAlive, Active
    <3>2. publishing[s].poller # NoPoller =>
             publishing[s].poller \in {s} \X Slots /\ active[s] # publishing[s].poller
      BY DEF Ownership, Orphaned
    <3> QED BY <2>2, <3>1, <3>2
  <2>5. Orphaned' /\ Halting'
    BY <2>1, <2>3 DEF Ownership, Orphaned, Halting
  <2>6. NoPollerForgotten'
    <3>1. \A q \in Pollers : stream(q) \in Streams
      BY DEF Pollers, stream
    <3>2. NoPoller \notin Pollers
      BY PollAssumption DEF Pollers
    <3> QED BY <2>1, <2>2, <2>3, <3>1, <3>2 DEF Ownership, NoPollerForgotten
  <2> QED BY <2>4, <2>5, <2>6 DEF Ownership
<1>11. ASSUME NEW s \in Streams, receive(s) \/ stampSocket(s) \/ writeSocket(s)
       PROVE  Ownership'
  <2>1. UNCHANGED <<active, watcher, pollers, stopped, cancelled>>
    BY <1>11 DEF receive, stampSocket, writeSocket, StreamOnly
  <2>2. /\ publishing[s].poller = NoPoller /\ publishing'[s].poller = NoPoller
        /\ \A t \in Streams : t # s => publishing'[t] = publishing[t]
    <3>1. publishing[s].poller = NoPoller
      BY <1>11 DEF receive, stampSocket, writeSocket, Ownership, Orphaned
    <3>2. CASE receive(s) \/ stampSocket(s)
      BY <3>1, <3>2 DEF receive, stampSocket, Idle, TypeOK, PublishingOK
    <3>3. CASE writeSocket(s)
      BY <3>1, <3>3 DEF writeSocket, Idle, TypeOK, PublishingOK
    <3> QED BY <1>11, <3>1, <3>2, <3>3
  <2>3. OwnerAlive' /\ Orphaned' /\ Halting'
    BY <2>1, <2>2 DEF Ownership, OwnerAlive, Active, Orphaned, Halting
  <2>4. NoPollerForgotten'
    <3>1. \A q \in Pollers : stream(q) \in Streams
      BY DEF Pollers, stream
    <3> QED BY <2>1, <2>2, <3>1 DEF Ownership, NoPollerForgotten
  <2> QED BY <2>3, <2>4 DEF Ownership
<1>12. ASSUME Cancel PROVE Ownership'
  BY <1>12, OwnershipKept DEF Cancel
<1>13. ASSUME UNCHANGED vars PROVE Ownership'
  BY <1>13, OwnershipKept DEF vars
<1> QED BY <1>1, <1>2, <1>3, <1>4, <1>5, <1>6, <1>7, <1>8, <1>9, <1>10, <1>11, <1>12,
           <1>13 DEF Next, WatcherStep, PublishStep

\* The inductive invariant behind the theorems on pollers.
LEMMA OwnershipInvariant == Spec => []Ownership
<1>1. ASSUME Init PROVE Ownership
  <2>1. OwnerAlive /\ Orphaned
    BY <1>1 DEF Init, OwnerAlive, Active, Orphaned, Idle
  <2>2. Halting
    BY <1>1 DEF Init, Halting
  <2>3. NoPollerForgotten
    BY <1>1 DEF Init, NoPollerForgotten, NoGoroutine
  <2> QED BY <2>1, <2>2, <2>3 DEF Ownership
<1> QED BY <1>1, OwnershipStep, TypeCorrect, PTL DEF Spec

\* Whatever the interleaving of engage, Note and the pollers, a stream on REST
\* has a poller that nobody has told to stop and that has not returned.
THEOREM OwnersAlive == Spec => []OwnerAlive
<1>1. Ownership => OwnerAlive
  BY DEF Ownership
<1> QED BY <1>1, OwnershipInvariant, PTL

\* Whatever the interleaving, a poller that lost its stream is stopped or has
\* somebody left who will stop it: no goroutine polls for ever unseen.
THEOREM NoneForgotten == Spec => []NoPollerForgotten
<1>1. Ownership => NoPollerForgotten
  BY DEF Ownership
<1> QED BY <1>1, OwnershipInvariant, PTL

\* When Run has returned nothing is on REST, and a poller still running is one
\* that a websocket message took off its stream.
THEOREM CleanShutdown == Spec => []ShutdownIsClean
<1>1. Ownership => ShutdownIsClean
  <2> SUFFICES ASSUME Ownership, watcher.at = "returned"
               PROVE  /\ Active = {}
                      /\ \A p \in Pollers : pollers[p].at # "none" =>
                             p \in stopped \/ publishing[stream(p)].poller = p
    BY DEF ShutdownIsClean
  <2>1. \A s \in Streams : active[s] = NoPoller
    BY DEF Ownership, Halting
  <2>2. \A p \in Pollers : active[stream(p)] # p
    BY <2>1, PollAssumption DEF Pollers, stream
  <2>3. watcher.halting = {}
    BY DEF Ownership, Halting
  <2> QED BY <2>1, <2>2, <2>3 DEF Ownership, NoPollerForgotten, Active
<1> QED BY <1>1, OwnershipInvariant, PTL

-----------------------------------------------------------------------------
(***************************************************************************)
(* The cap                                                                 *)
(***************************************************************************)

\* The streams on REST can be counted.
LEMMA ActiveFinite == IsFiniteSet(Active) /\ Cardinality(Active) \in Nat
BY PollAssumption, FS_Subset, FS_CardinalityType DEF Active

\* A step that takes streams off REST, or leaves them.
LEMMA CapKept ==
    ASSUME CapHolds, Active' \subseteq Active
    PROVE  CapHolds'
<1>1. Cardinality(Active') <= Cardinality(Active) /\ Cardinality(Active') \in Nat
  BY ActiveFinite, FS_Subset, FS_CardinalityType
<1> QED BY <1>1, ActiveFinite, CapAssumption DEF CapHolds

\* Only engage puts a stream on REST, and only below the cap.
LEMMA CapStep ==
    ASSUME WatcherOK, CapHolds, [Next]_vars
    PROVE  CapHolds'
<1>1. CASE engage
  <2>1. CASE active' = active
    BY <2>1, CapKept DEF Active
  <2>2. ASSUME NEW p, Subject \notin Active, Cardinality(Active) < MaxConcurrentPolls,
               active' = [active EXCEPT ![Subject] = p]
        PROVE  CapHolds'
    <3>1. Active' \subseteq Active \cup {Subject}
      BY <2>2 DEF Active, WatcherOK
    <3>2. /\ IsFiniteSet(Active \cup {Subject})
          /\ Cardinality(Active \cup {Subject}) = Cardinality(Active) + 1
      BY <2>2, ActiveFinite, FS_AddElement
    <3>3. Cardinality(Active') <= Cardinality(Active) + 1 /\ Cardinality(Active') \in Nat
      BY <3>1, <3>2, FS_Subset, FS_CardinalityType
    <3> QED BY <2>2, <3>3, ActiveFinite, CapAssumption DEF CapHolds
  <2> QED BY <1>1, <2>1, <2>2 DEF engage
<1>2. CASE stop
  BY <1>2, CapKept DEF stop, Active
<1>3. ASSUME NEW s \in Streams, Note(s) PROVE CapHolds'
  <2>1. Active' \subseteq Active
    BY <1>3 DEF Note, Active, WatcherOK
  <2> QED BY <2>1, CapKept
<1>4. CASE active' = active
  BY <1>4, CapKept DEF Active
<1>5. engage \/ stop \/ (\E s \in Streams : Note(s)) \/ active' = active
  BY DEF Next, vars, KeyExpires, onEvent, PublishStep, disengage, receive, stampSocket,
         writeSocket, sweep, WatcherStep, markExpired, reportExpired, reportRefused,
         reportEngaged, halt, RunReturns, PollerStep, PollerOnly, fetched, owns, polled,
         stampRest, writeRest, reportFailed, pollAgain, runReturns, Cancel
<1> QED BY <1>1, <1>2, <1>3, <1>4, <1>5

\* The cap of engage is never passed, although the watcher releases its mutex
\* between two streams of a sweep and Note frees places at any time.
THEOREM CapNeverPassed == Spec => []CapHolds
<1>1. ASSUME Init PROVE CapHolds
  <2>1. Active = {}
    BY <1>1 DEF Init, Active
  <2> QED BY <2>1, FS_EmptySet, CapAssumption DEF CapHolds
<1>2. TypeOK => WatcherOK
  BY DEF TypeOK
<1> QED BY <1>1, <1>2, CapStep, TypeCorrect, PTL DEF Spec

=============================================================================
