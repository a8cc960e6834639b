------------------------------ MODULE StreamProofs ------------------------------
(***************************************************************************)
(* Proofs of the invariants of a stream, for any number of frames, of      *)
(* sessions and of goroutines given up.                                    *)
(***************************************************************************)
EXTENDS Stream, FiniteSetTheorems, TLAPS

\* The type invariant holds initially and every step keeps it.
LEMMA TypeInductive ==
    /\ Init => TypeOK
    /\ TypeOK /\ [Next]_vars => TypeOK'
<1>1. ASSUME Init PROVE TypeOK
    <2>1. SessionOK
        BY <1>1 DEF Init, NoReader, SessionOK
    <2>2. TaskOK
        BY <1>1 DEF Init, TaskOK
    <2>3. PublishOK
        BY <1>1 DEF Init, NoGoroutine, PublishOK
    <2>4. QED
        BY <2>1, <2>2, <2>3 DEF TypeOK
<1> USE DEF TypeOK, SessionOK, TaskOK, PublishOK
<1>2. ASSUME TypeOK, [Next]_vars PROVE TypeOK'
    <2>1. ASSUME NEW r \in Readers, start(r) PROVE TypeOK'
        BY <1>2, <2>1, StreamAssumption DEF start
    <2>2. CASE cancel
        BY <1>2, <2>2 DEF cancel
    <2>3. CASE stopReader
        BY <1>2, <2>3, BoundAssumption DEF stopReader
    <2>4. CASE stopStreams
        BY <1>2, <2>4 DEF stopStreams
    <2>5. ASSUME NEW r \in Readers, handleFrame(r) PROVE TypeOK'
        BY <1>2, <2>5 DEF handleFrame
    <2>6. ASSUME NEW r \in Readers, deliver(r) PROVE TypeOK'
        BY <1>2, <2>6 DEF deliver
    <2>7. ASSUME NEW r \in Readers, signal(r) PROVE TypeOK'
        BY <1>2, <2>7 DEF signal
    <2>8. ASSUME NEW r \in Readers, readLoopReturns(r) PROVE TypeOK'
        BY <1>2, <2>8 DEF readLoopReturns, NoReader
    <2>9. ASSUME NEW g \in Slots, launch(g) PROVE TypeOK'
        BY <1>2, <2>9, StreamAssumption DEF launch, NoGoroutine
    <2>10. CASE stop
        BY <1>2, <2>10 DEF stop
    <2>11. CASE report
        BY <1>2, <2>11 DEF report, NoGoroutine
    <2>12. CASE holdTask
        BY <1>2, <2>12 DEF holdTask
    <2>13. CASE Restart
        BY <1>2, <2>13 DEF Restart
    <2>14. ASSUME NEW g \in Slots, woken(g) PROVE TypeOK'
        BY <1>2, <2>14 DEF woken, Goroutine
    <2>15. ASSUME NEW g \in Slots, runReturns(g) PROVE TypeOK'
        BY <1>2, <2>15 DEF runReturns, NoGoroutine
    <2>16. ASSUME NEW g \in Slots, take(g) PROVE TypeOK'
        BY <1>2, <2>16 DEF take, Goroutine
    <2>17. ASSUME NEW g \in Slots, publish(g) PROVE TypeOK'
        BY <1>2, <2>17 DEF publish, Goroutine
    <2>18. ASSUME NEW g \in Slots, write(g) PROVE TypeOK'
        BY <1>2, <2>18 DEF write, Goroutine
    <2>19. CASE UNCHANGED vars
        BY <1>2, <2>19 DEF vars
    <2>20. QED
        BY <1>2, <2>1, <2>2, <2>3, <2>4, <2>5, <2>6, <2>7, <2>8, <2>9, <2>10, <2>11, <2>12,
           <2>13, <2>14, <2>15, <2>16, <2>17, <2>18, <2>19
        DEF Next, SessionStep, ReaderStep, TaskStep, GoroutineStep
<1>3. QED
    BY <1>1, <1>2

\* The read loops, the Task and the goroutine stay well formed, for any number of
\* each (streamRunner, Task.loop).
THEOREM TypeCorrect == Spec => []TypeOK
<1>1. QED
    BY TypeInductive, PTL DEF Spec

-----------------------------------------------------------------------------
\* The wake-up of a message is kept by every step.
LEMMA WakeupInductive ==
    /\ Init => NoLostWakeup
    /\ TypeOK /\ NoLostWakeup /\ [Next]_vars => NoLostWakeup'
<1>1. Init => NoLostWakeup
    BY DEF Init, NoLostWakeup
<1>2. ASSUME TypeOK, NoLostWakeup, [Next]_vars PROVE NoLostWakeup'
    <2> USE <1>2 DEF TypeOK, SessionOK, PublishOK, NoLostWakeup
    <2>1. ASSUME NEW r \in Readers, start(r) PROVE NoLostWakeup'
        BY <2>1 DEF start
    <2>2. CASE cancel \/ stopReader \/ stopStreams \/ stop \/ holdTask \/ Restart
        BY <2>2 DEF cancel, stopReader, stopStreams, stop, holdTask, Restart
    <2>3. ASSUME NEW r \in Readers, handleFrame(r) PROVE NoLostWakeup'
        BY <2>3 DEF handleFrame
    <2>4. ASSUME NEW r \in Readers, deliver(r) PROVE NoLostWakeup'
        BY <2>4 DEF deliver
    <2>5. ASSUME NEW r \in Readers, signal(r) PROVE NoLostWakeup'
        BY <2>5 DEF signal
    <2>6. ASSUME NEW r \in Readers, readLoopReturns(r) PROVE NoLostWakeup'
        BY <2>6 DEF readLoopReturns
    <2>7. ASSUME NEW g \in Slots, launch(g) PROVE NoLostWakeup'
        BY <2>7 DEF launch
    <2>8. CASE report
        BY <2>8 DEF report, TaskOK
    <2>9. ASSUME NEW g \in Slots, woken(g) PROVE NoLostWakeup'
        BY <2>9 DEF woken, Goroutine
    <2>10. ASSUME NEW g \in Slots, runReturns(g) PROVE NoLostWakeup'
        BY <2>10 DEF runReturns
    <2>11. ASSUME NEW g \in Slots, take(g) PROVE NoLostWakeup'
        BY <2>11 DEF take
    <2>12. ASSUME NEW g \in Slots, publish(g) PROVE NoLostWakeup'
        BY <2>12 DEF publish, Goroutine
    <2>13. ASSUME NEW g \in Slots, write(g) PROVE NoLostWakeup'
        BY <2>13 DEF write, Goroutine
    <2>14. CASE UNCHANGED vars
        BY <2>14 DEF vars
    <2>15. QED
        BY <2>1, <2>2, <2>3, <2>4, <2>5, <2>6, <2>7, <2>8, <2>9, <2>10, <2>11, <2>12, <2>13,
           <2>14
        DEF Next, SessionStep, ReaderStep, TaskStep, GoroutineStep
<1>3. QED
    BY <1>1, <1>2

\* No interleaving of deliver, take, restarts and reconnects loses the wake-up of
\* a message (streamRunner.deliver, run and take).
THEOREM WakeupsKept == Spec => []NoLostWakeup
<1>1. QED
    BY TypeInductive, WakeupInductive, PTL DEF Spec

-----------------------------------------------------------------------------
\* A Task that is about to run a goroutine, or runs one, holds no request made
\* before the launch.
RestartFresh == task \in {"first", "running"} => restart # "between"

\* Every step keeps it, and a step that acts on a request acts on a fresh one.
LEMMA RestartInductive ==
    /\ Init => RestartFresh
    /\ RestartFresh /\ [Next]_vars => RestartFresh'
<1>1. RestartFresh /\ UNCHANGED <<task, restart>> => RestartFresh'
    BY DEF RestartFresh
\* The session's end, the read loops and the goroutines do not touch the Task.
<1>2. UNCHANGED vars \/ cancel \/ stopReader \/ stopStreams \/ holdTask
        => UNCHANGED <<task, restart>>
    BY DEF vars, cancel, stopReader, stopStreams, holdTask
<1>3. \A r \in Readers : handleFrame(r) \/ ReaderStep(r) \/ readLoopReturns(r)
                            => UNCHANGED <<task, restart>>
    BY DEF ReaderStep, handleFrame, deliver, signal, readLoopReturns
<1>4. \A g \in Slots : GoroutineStep(g) => UNCHANGED <<task, restart>>
    BY DEF GoroutineStep, woken, runReturns, take, publish, write
\* A new Task has no request, a relaunch drops the one it finds, and a Task that
\* waits to be relaunched may hold any.
<1>5. \A r \in Readers : start(r) => RestartFresh'
    BY DEF start, RestartFresh
<1>6. RestartFresh /\ TaskStep => RestartFresh'
    BY DEF RestartFresh, TaskStep, launch, stop, report
\* A request is "between" only when no run is on or about to start.
<1>7. RestartFresh /\ Restart => RestartFresh'
    BY DEF RestartFresh, Restart
<1>8. RestartFresh /\ [Next]_vars => RestartFresh'
    BY <1>7, <1>6, <1>5, <1>1, <1>2, <1>3, <1>4 DEF Next, SessionStep
<1> QED
    BY <1>8 DEF Init, RestartFresh

\* A request made during a stop or the backoff is never applied to the next run
\* (Task.loop, task.go:115).
THEOREM StaleRestartsDropped == Spec => StaleRestartDropped
<1> DEFINE Fresh == task = "running" /\ task' = "stopping" /\ restart # "empty"
                        /\ restart' = "empty" => restart = "running"
<1>1. TypeOK /\ RestartFresh => Fresh
    BY DEF TypeOK, TaskOK, RestartFresh
<1>2. QED
    BY <1>1, TypeInductive, RestartInductive, PTL DEF Spec, StaleRestartDropped

-----------------------------------------------------------------------------
\* Both sets of strays are finite.
LEMMA StraysFinite ==
    /\ IsFiniteSet(StrayReaders) /\ Cardinality(StrayReaders) \in Nat
    /\ IsFiniteSet(StrayGoroutines) /\ Cardinality(StrayGoroutines) \in Nat
<1>1. StrayReaders \subseteq Readers /\ StrayGoroutines \subseteq Slots
    BY DEF StrayReaders, StrayGoroutines
<1>2. QED
    BY <1>1, FS_Subset, FS_CardinalityType, StreamAssumption

\* One more element is at most one more.
LEMMA OneMore ==
    ASSUME NEW S, IsFiniteSet(S), NEW x
    PROVE  /\ Cardinality(S \cup {x}) \in Nat /\ Cardinality(S) \in Nat
           /\ Cardinality(S \cup {x}) <= Cardinality(S) + 1
<1>1. IsFiniteSet(S \cup {x})
      /\ Cardinality(S \cup {x}) = IF x \in S THEN Cardinality(S) ELSE Cardinality(S) + 1
    BY FS_AddElement
<1>2. Cardinality(S) \in Nat
    BY FS_CardinalityType
<1>3. QED
    BY <1>1, <1>2

\* A subset has no more elements.
LEMMA NoMore ==
    ASSUME NEW S, IsFiniteSet(S), NEW T, T \subseteq S
    PROVE  Cardinality(T) \in Nat /\ Cardinality(S) \in Nat
           /\ Cardinality(T) <= Cardinality(S)
<1>1. QED
    BY FS_Subset, FS_CardinalityType

\* The sets of strays grow only when one is given up.
LEMMA StraysGrow ==
    ASSUME TypeOK, [Next]_vars
    PROVE  \/ /\ StrayReaders' \subseteq StrayReaders
              /\ StrayGoroutines' \subseteq StrayGoroutines
              /\ leaked' = leaked
           \/ /\ StrayReaders' \subseteq StrayReaders \cup {reader}
              /\ StrayGoroutines' \subseteq StrayGoroutines
              /\ leaked' = leaked + 1
           \/ /\ StrayReaders' \subseteq StrayReaders
              /\ StrayGoroutines' \subseteq StrayGoroutines \cup {current}
              /\ leaked' = leaked + 1
<1> DEFINE Same == /\ StrayReaders' \subseteq StrayReaders
                   /\ StrayGoroutines' \subseteq StrayGoroutines
                   /\ leaked' = leaked
<1> USE DEF TypeOK, SessionOK, TaskOK, PublishOK, StrayReaders, StrayGoroutines
<1>1. ASSUME NEW r \in Readers, start(r) PROVE Same
    BY <1>1, StreamAssumption DEF start
<1>2. CASE cancel \/ stopStreams \/ stop \/ holdTask \/ Restart
    BY <1>2 DEF cancel, stopStreams, stop, holdTask, Restart
<1>3. CASE stopReader
    BY <1>3 DEF stopReader
<1>4. ASSUME NEW r \in Readers, handleFrame(r) \/ ReaderStep(r) \/ readLoopReturns(r)
      PROVE  Same
    BY <1>4 DEF ReaderStep, handleFrame, deliver, signal, readLoopReturns, NoReader
<1>5. ASSUME NEW g \in Slots, launch(g) PROVE Same
    BY <1>5, StreamAssumption DEF launch, NoGoroutine
<1>6. CASE report
    BY <1>6 DEF report, NoGoroutine
<1>7. ASSUME NEW g \in Slots, woken(g) \/ take(g) \/ publish(g) \/ write(g) PROVE Same
    BY <1>7 DEF woken, take, publish, write, Goroutine
<1>8. ASSUME NEW g \in Slots, runReturns(g) PROVE Same
    BY <1>8 DEF runReturns, NoGoroutine
<1>9. CASE UNCHANGED vars
    BY <1>9 DEF vars
<1>10. QED
    BY <1>1, <1>2, <1>3, <1>4, <1>5, <1>6, <1>7, <1>8, <1>9
    DEF Next, SessionStep, TaskStep, GoroutineStep

\* Every step keeps the count of strays within the count of leaks.
LEMMA StraysInductive ==
    /\ Init => StraysCounted
    /\ TypeOK /\ StraysCounted /\ [Next]_vars => StraysCounted'
<1>1. ASSUME Init PROVE StraysCounted
    <2>1. StrayReaders = {} /\ StrayGoroutines = {}
        BY <1>1 DEF Init, StrayReaders, StrayGoroutines, NoReader, NoGoroutine
    <2>2. Cardinality({}) = 0
        BY FS_EmptySet
    <2>3. leaked = 0
        BY <1>1 DEF Init
    <2>4. QED
        BY <2>1, <2>2, <2>3 DEF StraysCounted
<1>2. ASSUME TypeOK, StraysCounted, [Next]_vars PROVE StraysCounted'
    <2> DEFINE R == Cardinality(StrayReaders)
               G == Cardinality(StrayGoroutines)
               R1 == Cardinality(StrayReaders')
               G1 == Cardinality(StrayGoroutines')
    <2>1. R + G <= leaked /\ R \in Nat /\ G \in Nat /\ leaked \in Nat
        BY <1>2, StraysFinite DEF StraysCounted, TypeOK, PublishOK
    <2>2. R1 + G1 <= leaked'
        <3>1. ASSUME StrayReaders' \subseteq StrayReaders PROVE R1 \in Nat /\ R1 <= R
            BY <3>1, StraysFinite, NoMore
        <3>2. ASSUME StrayGoroutines' \subseteq StrayGoroutines PROVE G1 \in Nat /\ G1 <= G
            BY <3>2, StraysFinite, NoMore
        <3>3. ASSUME StrayReaders' \subseteq StrayReaders \cup {reader}
              PROVE  R1 \in Nat /\ R1 <= R + 1
            <4>1. IsFiniteSet(StrayReaders \cup {reader})
                BY StraysFinite, FS_AddElement
            <4>2. R1 \in Nat /\ R1 <= Cardinality(StrayReaders \cup {reader})
                BY <3>3, <4>1, NoMore
            <4>3. Cardinality(StrayReaders \cup {reader}) \in Nat
                  /\ Cardinality(StrayReaders \cup {reader}) <= R + 1
                BY StraysFinite, OneMore
            <4> HIDE DEF R, R1
            <4>4. QED
                BY <2>1, <4>2, <4>3
        <3>4. ASSUME StrayGoroutines' \subseteq StrayGoroutines \cup {current}
              PROVE  G1 \in Nat /\ G1 <= G + 1
            <4>1. IsFiniteSet(StrayGoroutines \cup {current})
                BY StraysFinite, FS_AddElement
            <4>2. G1 \in Nat /\ G1 <= Cardinality(StrayGoroutines \cup {current})
                BY <3>4, <4>1, NoMore
            <4>3. Cardinality(StrayGoroutines \cup {current}) \in Nat
                  /\ Cardinality(StrayGoroutines \cup {current}) <= G + 1
                BY StraysFinite, OneMore
            <4> HIDE DEF G, G1
            <4>4. QED
                BY <2>1, <4>2, <4>3
        <3> HIDE DEF R, R1, G, G1
        <3>5. QED
            BY <1>2, <2>1, <3>1, <3>2, <3>3, <3>4, StraysGrow
    <2>3. QED
        BY <2>2 DEF StraysCounted
<1>3. QED
    BY <1>1, <1>2

\* Every goroutine and read loop that outlives its run or its session has been
\* counted, for any number of restarts and reconnects (Task.stop, countLeak).
THEOREM StraysStayCounted == Spec => []StraysCounted
<1>1. QED
    BY TypeInductive, StraysInductive, PTL DEF Spec

-----------------------------------------------------------------------------
\* While nobody has been given up, what is on its way to the key is newer than
\* what is in it, and the further away it is the newer.
InHand(g) == goroutines[g].at \in {"publish", "write"}

KeyBehind ==
    /\ key.message <= received /\ key.seq <= sequence
    /\ pending <= received /\ (pending # 0 => key.message < pending)

HandBehind ==
    \A g \in Slots :
        /\ InHand(g) => /\ key.message < goroutines[g].message
                        /\ goroutines[g].message <= received
                        /\ pending # 0 => goroutines[g].message < pending
        /\ goroutines[g].at = "write" => /\ key.seq < goroutines[g].seq
                                         /\ goroutines[g].seq <= sequence

ReaderAhead ==
    \A r \in Readers : readers[r].at = "deliver" =>
        /\ key.message < readers[r].message /\ pending < readers[r].message
        /\ readers[r].message <= received
        /\ \A g \in Slots : InHand(g) => goroutines[g].message < readers[r].message

Ordered == leaked = 0 => KeyBehind /\ HandBehind /\ ReaderAhead

\* While nobody has been given up there is one goroutine and one read loop.
LEMMA Alone ==
    ASSUME TypeOK, StraysCounted, leaked = 0
    PROVE  /\ \A g \in Slots : goroutines[g].at # "none" => g = current
           /\ \A r \in Readers : readers[r].at # "none" => r = reader
<1> DEFINE R == Cardinality(StrayReaders)
           G == Cardinality(StrayGoroutines)
<1>1. R \in Nat /\ G \in Nat /\ R + G <= 0
    BY StraysFinite DEF StraysCounted
<1>2. R = 0 /\ G = 0
    <2> HIDE DEF R, G
    <2>1. QED
        BY <1>1
<1>3. StrayReaders = {} /\ StrayGoroutines = {}
    BY <1>2, StraysFinite, FS_EmptySet
<1>4. QED
    BY <1>3 DEF StrayReaders, StrayGoroutines

\* Every step keeps the order, and a write that lands moves the key forward.
LEMMA OrderInductive ==
    /\ Init => Ordered
    /\ TypeOK /\ StraysCounted /\ Ordered /\ [Next]_vars =>
         /\ Ordered'
         /\ leaked = 0 /\ key' # key => key'.message > key.message /\ key'.seq > key.seq
<1>1. Init => Ordered
    BY DEF Init, Ordered, KeyBehind, HandBehind, ReaderAhead, InHand, NoReader, NoGoroutine
<1>2. ASSUME TypeOK, StraysCounted, Ordered, [Next]_vars
      PROVE  /\ Ordered'
             /\ leaked = 0 /\ key' # key => key'.message > key.message /\ key'.seq > key.seq
    <2> DEFINE Forward == key' # key => key'.message > key.message /\ key'.seq > key.seq
    <2>1. leaked' = 0 => leaked = 0
        BY <1>2, StraysGrow DEF TypeOK, PublishOK
    <2>2. SUFFICES ASSUME leaked = 0
                   PROVE  KeyBehind' /\ HandBehind' /\ ReaderAhead' /\ Forward
        BY <2>1, <2>2 DEF Ordered
    <2>3. KeyBehind /\ HandBehind /\ ReaderAhead
        BY <1>2, <2>2 DEF Ordered
    <2>4. /\ \A g \in Slots : goroutines[g].at # "none" => g = current
          /\ \A r \in Readers : readers[r].at # "none" => r = reader
        BY <1>2, <2>2, Alone
    <2>5. received \in Nat /\ pending \in Nat /\ sequence \in Nat
          /\ key \in [message : Nat, seq : Nat]
          /\ readers \in [Readers -> [at : {"none", "reading", "deliver", "signal"}, message : Nat]]
          /\ goroutines \in [Slots -> [at : {"none", "select", "take", "publish", "write",
                                             "returned"}, message : Nat, seq : Nat]]
        BY <1>2 DEF TypeOK, SessionOK, PublishOK
    <2> USE <2>3, <2>5 DEF KeyBehind, HandBehind, ReaderAhead, InHand
    <2>6. ASSUME NEW r \in Readers, start(r) \/ signal(r) \/ readLoopReturns(r)
          PROVE  KeyBehind' /\ HandBehind' /\ ReaderAhead' /\ Forward
        BY <2>6 DEF start, signal, readLoopReturns, NoReader
    <2>7. CASE cancel \/ stopReader \/ stopStreams \/ stop \/ holdTask \/ Restart
        BY <2>7 DEF cancel, stopReader, stopStreams, stop, holdTask, Restart
    <2>8. ASSUME NEW r \in Readers, handleFrame(r)
          PROVE  KeyBehind' /\ HandBehind' /\ ReaderAhead' /\ Forward
        BY <2>8 DEF handleFrame
    <2>9. ASSUME NEW r \in Readers, deliver(r)
          PROVE  KeyBehind' /\ HandBehind' /\ ReaderAhead' /\ Forward
        BY <2>4, <2>9 DEF deliver
    <2>10. ASSUME NEW g \in Slots, launch(g) \/ woken(g) \/ runReturns(g)
           PROVE  KeyBehind' /\ HandBehind' /\ ReaderAhead' /\ Forward
        BY <2>10 DEF launch, woken, runReturns, Goroutine, NoGoroutine
    <2>11. CASE report
        BY <1>2, <2>11 DEF report, NoGoroutine, TypeOK, TaskOK
    <2>12. ASSUME NEW g \in Slots, take(g)
           PROVE  KeyBehind' /\ HandBehind' /\ ReaderAhead' /\ Forward
        BY <2>4, <2>12 DEF take, Goroutine
    <2>13. ASSUME NEW g \in Slots, publish(g)
           PROVE  KeyBehind' /\ HandBehind' /\ ReaderAhead' /\ Forward
        BY <2>4, <2>13 DEF publish, Goroutine
    <2>14. ASSUME NEW g \in Slots, write(g)
           PROVE  KeyBehind' /\ HandBehind' /\ ReaderAhead' /\ Forward
        BY <2>4, <2>14 DEF write, Goroutine
    <2>15. CASE UNCHANGED vars
        BY <2>15 DEF vars
    <2> HIDE DEF KeyBehind, HandBehind, ReaderAhead, InHand, Forward
    <2>16. QED
        BY <1>2, <2>6, <2>7, <2>8, <2>9, <2>10, <2>11, <2>12, <2>13, <2>14, <2>15
        DEF Next, SessionStep, ReaderStep, TaskStep, GoroutineStep
<1>3. QED
    BY <1>1, <1>2

\* Until a goroutine has been given up the key only moves forward, to newer
\* messages with higher numbers, across restarts and reconnects
\* (streamRunner.publish, RedisPublisher.Publish).
THEOREM KeyMovesForward == Spec => KeyNeverGoesBack
<1> DEFINE Forward == leaked = 0 /\ key' # key =>
                        key'.message > key.message /\ key'.seq > key.seq
<1>1. TypeOK /\ StraysCounted /\ Ordered /\ [Next]_vars => Ordered' /\ Forward
    BY OrderInductive
<1>2. Init => Ordered
    BY OrderInductive
<1>3. KeyNeverGoesBack <=> [][Forward]_vars
    BY DEF KeyNeverGoesBack
<1>4. QED
    BY <1>1, <1>2, <1>3, TypeInductive, StraysInductive, PTL DEF Spec

-----------------------------------------------------------------------------
\* Nothing is on its way that did not arrive, and nothing has a number that was
\* not given out, whoever has been given up.
Arrived ==
    /\ pending <= received /\ key.message <= received /\ key.seq <= sequence
    /\ \A r \in Readers :
           readers[r].at = "deliver" => readers[r].message \in 1..received
    /\ \A g \in Slots :
           /\ InHand(g) => goroutines[g].message \in 1..received
           /\ goroutines[g].at = "write" => goroutines[g].seq \in 1..sequence

\* Every step keeps it.
LEMMA ArrivedInductive ==
    /\ Init => Arrived
    /\ TypeOK /\ Arrived /\ [Next]_vars => Arrived'
<1>1. Init => Arrived
    BY DEF Init, Arrived, InHand, NoReader, NoGoroutine
<1>2. ASSUME TypeOK, Arrived, [Next]_vars PROVE Arrived'
    <2>1. received \in Nat /\ pending \in Nat /\ sequence \in Nat
          /\ key \in [message : Nat, seq : Nat]
          /\ readers \in [Readers -> [at : {"none", "reading", "deliver", "signal"}, message : Nat]]
          /\ goroutines \in [Slots -> [at : {"none", "select", "take", "publish", "write",
                                             "returned"}, message : Nat, seq : Nat]]
        BY <1>2 DEF TypeOK, SessionOK, PublishOK
    <2> USE <1>2, <2>1 DEF Arrived, InHand
    <2>2. ASSUME NEW r \in Readers, start(r) \/ signal(r) \/ readLoopReturns(r) PROVE Arrived'
        BY <2>2 DEF start, signal, readLoopReturns, NoReader
    <2>3. CASE cancel \/ stopReader \/ stopStreams \/ stop \/ holdTask \/ Restart
        BY <2>3 DEF cancel, stopReader, stopStreams, stop, holdTask, Restart
    <2>4. ASSUME NEW r \in Readers, handleFrame(r) PROVE Arrived'
        BY <2>4 DEF handleFrame
    <2>5. ASSUME NEW r \in Readers, deliver(r) PROVE Arrived'
        BY <2>5 DEF deliver
    <2>6. ASSUME NEW g \in Slots, launch(g) \/ woken(g) \/ runReturns(g) PROVE Arrived'
        BY <2>6 DEF launch, woken, runReturns, Goroutine, NoGoroutine
    <2>7. CASE report
        BY <2>7 DEF report, NoGoroutine, TypeOK, TaskOK
    <2>8. ASSUME NEW g \in Slots, take(g) PROVE Arrived'
        BY <2>8 DEF take, Goroutine
    <2>9. ASSUME NEW g \in Slots, publish(g) PROVE Arrived'
        BY <2>9 DEF publish, Goroutine
    <2>10. ASSUME NEW g \in Slots, write(g) PROVE Arrived'
        BY <2>10 DEF write, Goroutine
    <2>11. CASE UNCHANGED vars
        BY <2>11 DEF vars
    <2> HIDE DEF Arrived, InHand
    <2>12. QED
        BY <2>2, <2>3, <2>4, <2>5, <2>6, <2>7, <2>8, <2>9, <2>10, <2>11
        DEF Next, SessionStep, ReaderStep, TaskStep, GoroutineStep
<1>3. QED
    BY <1>1, <1>2

\* A step of the stream is a step of the register or leaves it alone.
LEMMA StepKeepsRegister ==
    ASSUME TypeOK, StraysCounted, Ordered, Arrived, [Next]_vars
    PROVE  [Register!Next]_(Register!registerVars)
<1> DEFINE Same == UNCHANGED <<received, pending, sequence, key, leaked>>
<1>1. received \in Nat /\ pending \in Nat /\ sequence \in Nat /\ leaked \in Nat
      /\ key \in [message : Nat, seq : Nat]
      /\ readers \in [Readers -> [at : {"none", "reading", "deliver", "signal"}, message : Nat]]
      /\ goroutines \in [Slots -> [at : {"none", "select", "take", "publish", "write",
                                         "returned"}, message : Nat, seq : Nat]]
    BY DEF TypeOK, SessionOK, PublishOK
<1>2. Same => UNCHANGED Register!registerVars
    BY DEF Register!registerVars
<1>3. leaked > 0 \/ (KeyBehind /\ HandBehind /\ ReaderAhead)
    BY <1>1 DEF Ordered
<1> USE DEF Register!Next
<1>4. ASSUME NEW r \in Readers, start(r) \/ signal(r) \/ readLoopReturns(r) PROVE Same
    BY <1>4 DEF start, signal, readLoopReturns
<1>5. CASE cancel \/ stopStreams \/ stop \/ holdTask \/ Restart
    BY <1>2, <1>5 DEF cancel, stopStreams, stop, holdTask, Restart
<1>6. CASE stopReader \/ report
    <2>1. Same \/ (leaked' = leaked + 1 /\ UNCHANGED <<received, pending, sequence, key>>)
        BY <1>6 DEF stopReader, report
    <2>2. ASSUME leaked' = leaked + 1, UNCHANGED <<received, pending, sequence, key>>
          PROVE  Register!GiveUp
        BY <1>1, <2>2 DEF Register!GiveUp
    <2>3. QED
        BY <1>2, <2>1, <2>2
<1>7. ASSUME NEW r \in Readers, handleFrame(r) PROVE Register!Arrive
    BY <1>7 DEF handleFrame, Register!Arrive
<1>8. ASSUME NEW r \in Readers, deliver(r) PROVE Register!Offer
    <2>1. pending' = readers[r].message /\ UNCHANGED <<received, sequence, key, leaked>>
        BY <1>8 DEF deliver
    <2>2. pending' \in 1..received
        BY <1>8, <2>1 DEF Arrived, deliver
    <2>3. leaked > 0 \/ (pending' > pending /\ pending' > key.message)
        BY <1>1, <1>3, <1>8, <2>1 DEF ReaderAhead, deliver
    <2>4. QED
        BY <2>1, <2>2, <2>3 DEF Register!Offer
<1>9. ASSUME NEW g \in Slots, launch(g) \/ woken(g) \/ runReturns(g) PROVE Same
    BY <1>9 DEF launch, woken, runReturns
<1>10. ASSUME NEW g \in Slots, take(g) PROVE Register!Take \/ Same
    BY <1>10 DEF take, Register!Take
<1>11. ASSUME NEW g \in Slots, publish(g) PROVE Register!Number \/ Same
    BY <1>11 DEF publish, Register!Number
<1>12. ASSUME NEW g \in Slots, write(g) PROVE Register!Store \/ Same
    <2> DEFINE m == goroutines[g].message
               n == goroutines[g].seq
    <2>1. UNCHANGED <<received, pending, sequence, leaked>>
          /\ (key' = key \/ key' = [message |-> m, seq |-> n])
        BY <1>12 DEF write
    <2>2. m \in 1..received /\ n \in 1..sequence
        BY <1>12 DEF Arrived, InHand, write
    <2>3. leaked > 0 \/ /\ m > key.message /\ n > key.seq
                        /\ pending = 0 \/ m < pending
        BY <1>1, <1>3, <1>12 DEF HandBehind, InHand, write
    <2>4. QED
        BY <2>1, <2>2, <2>3 DEF Register!Store
<1>13. CASE UNCHANGED vars
    BY <1>2, <1>13 DEF vars
<1>14. QED
    BY <1>2, <1>4, <1>5, <1>6, <1>7, <1>8, <1>9, <1>10, <1>11, <1>12, <1>13
    DEF Next, SessionStep, ReaderStep, TaskStep, GoroutineStep

\* The stream implements the register LastValue describes: for any number of
\* frames, restarts, sessions and goroutines given up (streamRunner, Task.loop,
\* RedisPublisher.Publish).
THEOREM StreamKeepsRegister == Spec => KeepsRegister
<1>1. Init => Register!Init
    BY DEF Init, Register!Init
<1>2. TypeOK /\ StraysCounted /\ Ordered /\ Arrived /\ [Next]_vars
      => [Register!Next]_(Register!registerVars)
    BY StepKeepsRegister
<1>3. QED
    BY <1>1, <1>2, TypeInductive, StraysInductive, OrderInductive, ArrivedInductive, PTL
    DEF Spec, KeepsRegister, Register!Spec

=============================================================================
