--------------------------------- MODULE Stream ---------------------------------
(***************************************************************************)
(* internal/supervisor: one stream of a socket, from the frames its read   *)
(* loop parses to the write of its key.  The read loop hands over the      *)
(* newest message and signals; the stream's goroutine takes it and         *)
(* publishes it; a Task keeps that goroutine running, stops and relaunches *)
(* it when the watcher asks, and gives up one that does not return.  Each  *)
(* session of the socket has a read loop and a Task of its own, while the  *)
(* streamRunner with pending and wake outlives them.                       *)
(*                                                                         *)
(* Messages are numbered in the order Read answered them, 0 for none.      *)
(* What publish tells the watcher and the tracker before it writes is in   *)
(* Fallback.tla, how a session comes about and ends in Socket.tla.         *)
(***************************************************************************)
EXTENDS Integers, FiniteSets

CONSTANTS
    Slots,          \* bound: the goroutines of the stream alive at one time
    Readers,        \* bound: the read loops alive at one time
    MaxFrames,      \* bound on the frames read
    MaxLeaked,      \* bound on the goroutines given up
    None

ASSUME StreamAssumption ==
    /\ IsFiniteSet(Slots) /\ IsFiniteSet(Readers)
    /\ None \notin Slots /\ None \notin Readers

ASSUME BoundAssumption == MaxFrames \in Nat /\ MaxLeaked \in Nat

VARIABLES
    session,    \* the socket loop: "down", "up", or ending: "reader", "streams"
    reader,     \* the read loop of the session, None once it returned or was given up
    readers,    \* [Readers -> a read loop and the message it is handing over]
    received,   \* how many frames have been read
    pending,    \* streamRunner.pending
    wake,       \* whether the channel wake, of capacity one, is full
    task,       \* where Task.loop stands
    restart,    \* the channel restart, of capacity one, and when it was filled
    current,    \* the goroutine the Task runs, None when it has none
    goroutines, \* [Slots -> streamRunner.run, the message in hand and its number]
    ended,      \* the goroutines whose context has ended
    noter,      \* the watcher's goroutine inside streamRunner.restart
    leaked,     \* Process.leaked
    sequence,   \* publisher.sequence of the key
    key         \* the message in Redis and its publish_seq

vars == <<session, reader, readers, received, pending, wake, task, restart, current,
          goroutines, ended, noter, leaked, sequence, key>>

NoGoroutine == [at |-> "none", message |-> 0, seq |-> 0]
NoReader    == [at |-> "none", message |-> 0]

-----------------------------------------------------------------------------
(***************************************************************************)
(* The session                                                             *)
(***************************************************************************)

\* Mutant: a session begins with an empty channel.
startDrained(r) ==
    /\ session = "down" /\ readers[r].at = "none"
    /\ session' = "up"
    /\ reader' = r
    /\ readers' = [readers EXCEPT ![r].at = "reading"]
    /\ wake' = FALSE
    /\ task' = "first" /\ restart' = "empty"
    /\ noter' = IF noter = "holding" THEN "late" ELSE noter
    /\ UNCHANGED <<received, pending, current, goroutines, ended, leaked, sequence, key>>

\* session: streamRunner.start makes a new Task, then the read loop starts.  A
\* restart that holds the previous Task will reach nobody.
start(r) ==
    /\ session = "down" /\ readers[r].at = "none"
    /\ session' = "up"
    /\ reader' = r
    /\ readers' = [readers EXCEPT ![r].at = "reading"]
    /\ task' = "first" /\ restart' = "empty"
    /\ noter' = IF noter = "holding" THEN "late" ELSE noter
    /\ UNCHANGED <<received, pending, wake, current, goroutines, ended, leaked, sequence, key>>

\* session's select, whatever ended it, and the cancel of StopGoroutine, which
\* reaches the stream's goroutine through its Task's context.
cancel ==
    /\ session = "up"
    /\ session' = "reader"
    /\ ended' = ended \cup ({current} \ {None})
    /\ UNCHANGED <<reader, readers, received, pending, wake, task, restart, current,
                   goroutines, noter, leaked, sequence, key>>

\* The rest of StopGoroutine: the read loop has returned, or is given up.
stopReader ==
    /\ session = "reader"
    /\ \/ readers[reader].at = "none" /\ UNCHANGED leaked
       \/ /\ readers[reader].at # "none" /\ leaked < MaxLeaked
          /\ leaked' = leaked + 1
    /\ session' = "streams" /\ reader' = None
    /\ UNCHANGED <<readers, received, pending, wake, task, restart, current, goroutines,
                   ended, noter, sequence, key>>

stopStreams ==
    /\ session = "streams" /\ task = "done"
    /\ session' = "down"
    /\ UNCHANGED <<reader, readers, received, pending, wake, task, restart, current,
                   goroutines, ended, noter, leaked, sequence, key>>

-----------------------------------------------------------------------------
(***************************************************************************)
(* A read loop                                                             *)
(***************************************************************************)

\* Read answers a frame, and handleFrame finds a message of this stream in it.
\* A read loop that was given up may get one more.
handleFrame(r) ==
    /\ readers[r].at = "reading" /\ received < MaxFrames
    /\ received' = received + 1
    /\ readers' = [readers EXCEPT ![r] = [at |-> "deliver", message |-> received + 1]]
    /\ UNCHANGED <<session, reader, pending, wake, task, restart, current, goroutines, ended,
                   noter, leaked, sequence, key>>

\* deliver: the newest message replaces one not taken yet ...
deliver(r) ==
    /\ readers[r].at = "deliver"
    /\ pending' = readers[r].message
    /\ readers' = [readers EXCEPT ![r] = [at |-> "signal", message |-> 0]]
    /\ UNCHANGED <<session, reader, received, wake, task, restart, current, goroutines, ended,
                   noter, leaked, sequence, key>>

\* ... and the goroutine is woken, after the unlock and without blocking.
signal(r) ==
    /\ readers[r].at = "signal"
    /\ wake' = TRUE
    /\ readers' = [readers EXCEPT ![r].at = "reading"]
    /\ UNCHANGED <<session, reader, received, pending, task, restart, current, goroutines,
                   ended, noter, leaked, sequence, key>>

\* Read errors.
readLoopReturns(r) ==
    /\ readers[r].at = "reading"
    /\ readers' = [readers EXCEPT ![r] = NoReader]
    /\ UNCHANGED <<session, reader, received, pending, wake, task, restart, current,
                   goroutines, ended, noter, leaked, sequence, key>>

-----------------------------------------------------------------------------
(***************************************************************************)
(* The Task                                                                *)
(***************************************************************************)

\* Mutant: a request made since the previous run was stopped is kept.
launchUndrained(g) ==
    /\ task \in {"first", "again"}
    /\ \/ session # "up" /\ task' = "done" /\ UNCHANGED <<restart, current, goroutines, ended>>
       \/ /\ session = "up" /\ goroutines[g].at = "none"
          /\ goroutines' = [goroutines EXCEPT ![g] = [NoGoroutine EXCEPT !.at = "select"]]
          /\ ended' = ended \ {g}
          /\ current' = g
          /\ task' = "running"
          /\ UNCHANGED restart
    /\ UNCHANGED <<session, reader, readers, received, pending, wake, noter, leaked, sequence,
                   key>>

\* The top of the loop.  Before every launch but the first, a request made since
\* the previous run was being stopped is thrown away.
launch(g) ==
    /\ task \in {"first", "again"}
    /\ \/ session # "up" /\ task' = "done" /\ UNCHANGED <<restart, current, goroutines, ended>>
       \/ /\ session = "up" /\ goroutines[g].at = "none"
          /\ restart' = IF task = "again" THEN "empty" ELSE restart
          /\ goroutines' = [goroutines EXCEPT ![g] = [NoGoroutine EXCEPT !.at = "select"]]
          /\ ended' = ended \ {g}
          /\ current' = g
          /\ task' = "running"
    /\ UNCHANGED <<session, reader, readers, received, pending, wake, noter, leaked, sequence,
                   key>>

\* loop's select: a restart was asked for, or the session ended.  Either way the
\* goroutine's context is cancelled.
stop ==
    /\ task = "running"
    /\ \/ restart # "empty" /\ restart' = "empty"
       \/ session # "up" /\ UNCHANGED restart
    /\ ended' = ended \cup {current}
    /\ task' = "stopping"
    /\ UNCHANGED <<session, reader, readers, received, pending, wake, current, goroutines,
                   noter, leaked, sequence, key>>

\* Mutant: a goroutine that does not return is not counted.
reportSilently ==
    /\ task = "stopping"
    /\ goroutines' = IF goroutines[current].at = "returned"
                     THEN [goroutines EXCEPT ![current] = NoGoroutine] ELSE goroutines
    /\ current' = None
    /\ task' = IF session = "up" THEN "again" ELSE "done"
    /\ UNCHANGED <<session, reader, readers, received, pending, wake, restart, ended, noter,
                   leaked, sequence, key>>

\* Mutant: no relaunch after a goroutine that did not return.
reportRefuses ==
    /\ task \in {"running", "stopping"}
    /\ \/ /\ goroutines[current].at = "returned"
          /\ goroutines' = [goroutines EXCEPT ![current] = NoGoroutine]
          /\ task' = IF session = "up" THEN "again" ELSE "done"
          /\ UNCHANGED leaked
       \/ /\ task = "stopping" /\ goroutines[current].at # "returned"
          /\ leaked < MaxLeaked
          /\ leaked' = leaked + 1
          /\ task' = "done"
          /\ UNCHANGED goroutines
    /\ current' = None
    /\ UNCHANGED <<session, reader, readers, received, pending, wake, restart, ended, noter,
                   sequence, key>>

\* The goroutine returned, in loop's select or to StopGoroutine, or it did not in
\* time: report counts it.  Then the backoff, or the end with the session.
report ==
    /\ task \in {"running", "stopping"}
    /\ \/ /\ goroutines[current].at = "returned"
          /\ goroutines' = [goroutines EXCEPT ![current] = NoGoroutine]
          /\ UNCHANGED leaked
       \/ /\ task = "stopping" /\ goroutines[current].at # "returned"
          /\ leaked < MaxLeaked
          /\ leaked' = leaked + 1
          /\ UNCHANGED goroutines
    /\ current' = None
    /\ task' = IF session = "up" THEN "again" ELSE "done"
    /\ UNCHANGED <<session, reader, readers, received, pending, wake, restart, ended, noter,
                   sequence, key>>

-----------------------------------------------------------------------------
(***************************************************************************)
(* streamRunner.restart, called by noteExpiry on the watcher's goroutine   *)
(***************************************************************************)

\* The Task is read under the mutex ...
holdTask ==
    /\ noter = "idle" /\ task # "none"
    /\ noter' = "holding"
    /\ UNCHANGED <<session, reader, readers, received, pending, wake, task, restart, current,
                   goroutines, ended, leaked, sequence, key>>

\* ... and asked to restart after the unlock, unless a request is waiting.
Restart ==
    /\ noter \in {"holding", "late"}
    /\ restart' = IF noter = "holding" /\ restart = "empty"
                  THEN IF task \in {"first", "running"} THEN "running" ELSE "between"
                  ELSE restart
    /\ noter' = "idle"
    /\ UNCHANGED <<session, reader, readers, received, pending, wake, task, current,
                   goroutines, ended, leaked, sequence, key>>

-----------------------------------------------------------------------------
(***************************************************************************)
(* The stream's goroutine                                                  *)
(***************************************************************************)

Goroutine(g, place, message, seq) ==
    goroutines' = [goroutines EXCEPT ![g] = [at |-> place, message |-> message, seq |-> seq]]

\* run's select, with wake ready.
woken(g) ==
    /\ goroutines[g].at = "select"
    /\ wake /\ wake' = FALSE
    /\ Goroutine(g, "take", 0, 0)
    /\ UNCHANGED <<session, reader, readers, received, pending, task, restart, current, ended,
                   noter, leaked, sequence, key>>

\* run's select, with the context ended.  Nobody receives from one given up.
runReturns(g) ==
    /\ goroutines[g].at = "select" /\ g \in ended
    /\ goroutines' = [goroutines EXCEPT ![g] = [NoGoroutine EXCEPT
                            !.at = IF g = current THEN "returned" ELSE "none"]]
    /\ UNCHANGED <<session, reader, readers, received, pending, wake, task, restart, current,
                   ended, noter, leaked, sequence, key>>

take(g) ==
    /\ goroutines[g].at = "take"
    /\ IF pending = 0 THEN Goroutine(g, "select", 0, 0) ELSE Goroutine(g, "publish", pending, 0)
    /\ pending' = 0
    /\ UNCHANGED <<session, reader, readers, received, wake, task, restart, current, ended,
                   noter, leaked, sequence, key>>

\* publish up to the critical section of Publisher.Publish, which numbers the
\* message.  A message without an envelope is dropped.
publish(g) ==
    /\ goroutines[g].at = "publish"
    /\ \/ /\ sequence' = sequence + 1
          /\ Goroutine(g, "write", goroutines[g].message, sequence + 1)
       \/ Goroutine(g, "select", 0, 0) /\ UNCHANGED sequence
    /\ UNCHANGED <<session, reader, readers, received, pending, wake, task, restart, current,
                   ended, noter, leaked, key>>

\* Mutant: the number of a write that failed is used again.
writeRollsBack(g) ==
    /\ goroutines[g].at = "write"
    /\ LET landed == [message |-> goroutines[g].message, seq |-> goroutines[g].seq]
       IN  \/ key' = landed /\ UNCHANGED sequence
           \/ key' \in {key, landed} /\ sequence' = sequence - 1
    /\ Goroutine(g, "select", 0, 0)
    /\ UNCHANGED <<session, reader, readers, received, pending, wake, task, restart, current,
                   ended, noter, leaked>>

\* The pipelined write.  It lands, or fails and the message is lost; one that
\* fails may have landed.  The number is not given back.
write(g) ==
    /\ goroutines[g].at = "write"
    /\ key' \in {key, [message |-> goroutines[g].message, seq |-> goroutines[g].seq]}
    /\ Goroutine(g, "select", 0, 0)
    /\ UNCHANGED <<session, reader, readers, received, pending, wake, task, restart, current,
                   ended, noter, leaked, sequence>>

-----------------------------------------------------------------------------
Init ==
    /\ session = "down"
    /\ reader = None /\ readers = [r \in Readers |-> NoReader]
    /\ received = 0 /\ pending = 0 /\ wake = FALSE
    /\ task = "none" /\ restart = "empty" /\ current = None
    /\ goroutines = [g \in Slots |-> NoGoroutine] /\ ended = {}
    /\ noter = "idle"
    /\ leaked = 0 /\ sequence = 0
    /\ key = [message |-> 0, seq |-> 0]

SessionStep == (\E r \in Readers : start(r)) \/ stopReader \/ stopStreams

ReaderStep(r) == deliver(r) \/ signal(r)

TaskStep == (\E g \in Slots : launch(g)) \/ stop \/ report

GoroutineStep(g) == woken(g) \/ runReturns(g) \/ take(g) \/ publish(g) \/ write(g)

Next ==
    \/ SessionStep \/ cancel \/ TaskStep \/ holdTask \/ Restart
    \/ \E r \in Readers : handleFrame(r) \/ ReaderStep(r) \/ readLoopReturns(r)
    \/ \E g \in Slots : GoroutineStep(g)

Spec == Init /\ [][Next]_vars

\* Goroutines go on and calls return.  A select with several ready cases picks one
\* at random, so wake is not passed over for ever.  No frame need arrive, no
\* session need end and no key need expire.
Fairness ==
    /\ WF_vars(SessionStep) /\ WF_vars(TaskStep) /\ WF_vars(Restart)
    /\ \A r \in Readers : WF_vars(ReaderStep(r))
    /\ \A g \in Slots : WF_vars(GoroutineStep(g)) /\ SF_vars(woken(g))

FairSpec == Spec /\ Fairness

-----------------------------------------------------------------------------
(***************************************************************************)
(* Properties                                                              *)
(***************************************************************************)

SessionOK ==
    /\ session \in {"down", "up", "reader", "streams"}
    /\ reader \in Readers \cup {None}
    /\ reader # None <=> session \in {"up", "reader"}
    /\ readers \in [Readers -> [at : {"none", "reading", "deliver", "signal"}, message : Nat]]
    /\ received \in Nat

TaskOK ==
    /\ task \in {"none", "first", "running", "stopping", "again", "done"}
    /\ restart \in {"empty", "running", "between"}
    /\ noter \in {"idle", "holding", "late"}
    /\ current \in Slots \cup {None}
    /\ current # None <=> task \in {"running", "stopping"}
    /\ session = "down" => task \in {"none", "done"}

PublishOK ==
    /\ pending \in Nat /\ wake \in BOOLEAN
    /\ goroutines \in [Slots -> [at : {"none", "select", "take", "publish", "write", "returned"},
                                 message : Nat, seq : Nat]]
    /\ ended \subseteq Slots
    /\ leaked \in Nat /\ sequence \in Nat
    /\ key \in [message : Nat, seq : Nat]

\* Every variable holds what its Go type and the control flow allow; the Task has
\* a goroutine to wait for exactly while it waits for one (task.go:125).
TypeOK == SessionOK /\ TaskOK /\ PublishOK

\* The wake-up of a message is never lost: the channel is full, or somebody is
\* about to fill it, or a goroutine emptied it and has yet to take the message.
\* deliver stores and signals in two steps, and restarts, given-up goroutines and
\* new sessions come in between (supervisor.go:588).
NoLostWakeup ==
    pending # 0 =>
        \/ wake
        \/ \E r \in Readers : readers[r].at = "signal"
        \/ \E g \in Slots : goroutines[g].at = "take"

StrayReaders    == {r \in Readers : r # reader /\ readers[r].at # "none"}
StrayGoroutines == {g \in Slots : g # current /\ goroutines[g].at # "none"}

\* Whatever outlives its session or its run has been counted as leaked, across
\* restarts and reconnects (task.go:151, supervisor.go:334).
StraysCounted == Cardinality(StrayReaders) + Cardinality(StrayGoroutines) <= leaked

\* Until a goroutine has been given up, what replaces a value in the key is a
\* newer message with a higher publish_seq.
KeyNeverGoesBack ==
    [][leaked = 0 /\ key' # key => key'.message > key.message /\ key'.seq > key.seq]_vars

Register == INSTANCE LastValue
    WITH arrived <- received, waiting <- pending, numbered <- sequence, stored <- key,
         loose <- leaked > 0

\* The stream implements the register: until a goroutine has been given up, the
\* key takes only newer messages with higher numbers and none that is newer than
\* the one waiting, although restarts and reconnects replace both the goroutine
\* that writes and the one that feeds it and writes fail after they landed; and
\* nothing is ever in the key that did not arrive or was not numbered
\* (task.go:102, supervisor.go:540, publisher.go:128).
KeepsRegister == Register!Spec

\* docs/supervisor.md:100: a restart asked for while the previous run was being
\* stopped or during the backoff is dropped, never applied to the next run.
StaleRestartDropped ==
    [][task = "running" /\ task' = "stopping" /\ restart # "empty" /\ restart' = "empty"
            => restart = "running"]_vars

\* While its session is up the stream takes what it was handed, or something
\* newer, however often it is restarted.
NewestTaken == pending # 0 ~> pending = 0 \/ session # "up"

=============================================================================
