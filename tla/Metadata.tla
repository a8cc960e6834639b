-------------------------------- MODULE Metadata --------------------------------
(***************************************************************************)
(* internal/metadata: the refresher.  It fetches the venue's instrument    *)
(* definitions until a first fetch has been published, opens the gate the  *)
(* streams wait at, and then refetches on a ticker.                        *)
(*                                                                         *)
(* A step is one call to the venue, one warning, one write to Redis, one   *)
(* report or one select.  A write that comes back as an error may have landed.  A        *)
(* definition is one value and stands for the fields logChanges compares   *)
(* (tick, lot, minimum notional, multiplier, active): comparing them one   *)
(* by one tells two of them apart just as well.  The minimum and maximum   *)
(* sizes, which it does not compare, are left out.                         *)
(* Time advances in ticks: a key counts down its TTL, and a refresh,       *)
(* bounded by FetchTimeout and Redis's timeouts, takes MaxRefresh at most. *)
(***************************************************************************)
EXTENDS Integers, Sequences, FiniteSets

CONSTANTS
    Instruments,    \* the configured instruments, a sequence in plan order
    Definitions,    \* what the venue may say of an instrument
    Interval,       \* ticks between refreshes
    MaxRefresh,     \* ticks a refresh takes at most
    Required,       \* metadata.startup_required
    None

Listed == {Instruments[n] : n \in 1..Len(Instruments)}

ASSUME MetadataAssumption ==
    /\ Instruments \in Seq(Listed) /\ Len(Instruments) > 0
    /\ \A m, n \in 1..Len(Instruments) : Instruments[m] = Instruments[n] => m = n
    /\ Interval \in Nat /\ MaxRefresh \in Nat /\ 2 * MaxRefresh < Interval
    /\ Required \in BOOLEAN
    /\ None \notin Definitions

VARIABLES
    refresher,  \* at; first, until the first success; todo, the writes left of
                \* this refresh, by their index; answer; busy, ticks it has taken;
                \* age, ticks since the venue answered
    ticker,     \* due, ticks to the next tick; pending, the channel of capacity one
    last,       \* [Listed -> the definition last published, or None]
    ready,      \* whether the channel ready is closed
    told,       \* the last report to the health tracker
    keys,       \* the metadata keys: value, left of the TTL, age of the answer
    record,     \* history: what the change log makes of each instrument, None when
                \* there is nothing to go by
    missed,     \* history: instruments a refresh left out since their last write
    cancelled   \* the context of the process has ended

metadataVars == <<refresher, ticker, last, ready, told, keys, record, missed>>

\* Mutant: the TTL is the refresh interval.
timeToLiveOnce == Interval

\* ttlMultiple
timeToLive == 2 * Interval

\* Bound on the ages: past it they make no difference.
MaxAge == timeToLive + MaxRefresh + 1

Absent == [value |-> None, left |-> 0, age |-> 0]

Older(n) == IF n < MaxAge THEN n + 1 ELSE MaxAge

-----------------------------------------------------------------------------

\* What the venue may say: None of an instrument that it does not list.
Answers == [Listed -> Definitions \cup {None}]

At(place) == refresher.at = place

\* Outside refresh its variables are gone.
Leaving(place) ==
    [at |-> place, first |-> refresher.first, todo |-> 1, answer |-> [i \in Listed |-> None],
     busy |-> 0, age |-> 0]

Goto(place) == refresher' = Leaving(place)

BeginOrReturn == Goto(IF cancelled THEN "returned" ELSE "fetch")

\* Run up to its first refresh.
begin ==
    /\ At("start")
    /\ told' = "unavailable"
    /\ BeginOrReturn
    /\ UNCHANGED <<ticker, last, ready, keys, record, missed>>

\* Mutant: a first fetch that fails ends the refresher.
FailedForGood ==
    /\ missed' = missed \cup {i \in Listed : last[i] # None}
    /\ Goto(IF refresher.first THEN "returned" ELSE "idle")
    /\ UNCHANGED told

\* What Run makes of a refresh that returned an error: the first one is retried,
\* a later one is only logged.
Failed ==
    /\ missed' = missed \cup {i \in Listed : last[i] # None}
    /\ \/ /\ refresher.first /\ ~cancelled
          /\ told' = "unavailable"
          /\ Goto("backoff")
       \/ /\ refresher.first /\ cancelled
          /\ Goto("returned") /\ UNCHANGED told
       \/ ~refresher.first /\ Goto("idle") /\ UNCHANGED told

\* Mutant: what was published last goes out again, for a fetch that failed.
fetchFailsRepublishes ==
    /\ At("fetch")
    /\ keys' = [i \in Listed |-> IF last[i] # None
                                 THEN [keys[i] EXCEPT !.left = timeToLive] ELSE keys[i]]
    /\ Failed
    /\ UNCHANGED <<ticker, last, ready, record>>

\* The call failed, its deadline or the context ended it, or the venue lists none
\* of the configured instruments.
fetchFails ==
    /\ At("fetch")
    /\ Failed
    /\ UNCHANGED <<ticker, last, ready, keys, record>>

\* Backoff.Sleep, and the loop condition.
slept ==
    /\ At("backoff")
    /\ BeginOrReturn
    /\ UNCHANGED <<ticker, last, ready, told, keys, record, missed>>

\* The venue answered, and lists some of the configured instruments: one that it
\* does not list is only logged.
fetched(answer) ==
    /\ At("fetch")
    /\ \E i \in Listed : answer[i] # None
    /\ refresher' = [refresher EXCEPT !.at = "publish", !.answer = answer, !.todo = 1]
    /\ missed' = missed \cup {i \in Listed : answer[i] = None /\ last[i] # None}
    /\ UNCHANGED <<ticker, last, ready, told, keys, record>>

\* Whether logChanges writes a line.
Changed(i) == last[i] # None /\ last[i] # refresher.answer[i]

Publishing(i) ==
    /\ At("publish")
    /\ refresher.todo <= Len(Instruments) /\ i = Instruments[refresher.todo]

\* An instrument of the answer that was not found takes no write.
skip(i) ==
    /\ Publishing(i) /\ refresher.answer[i] = None
    /\ refresher' = [refresher EXCEPT !.todo = @ + 1]
    /\ UNCHANGED <<ticker, last, ready, told, keys, record, missed>>

\* logChanges: what somebody who saw the first definition and reads the log
\* makes of the instrument, before it is written.
logChanges(i) ==
    /\ Publishing(i) /\ refresher.answer[i] # None
    /\ record' = IF last[i] = None \/ Changed(i)
                 THEN [record EXCEPT ![i] = refresher.answer[i]] ELSE record
    /\ refresher' = [refresher EXCEPT !.at = "write"]
    /\ UNCHANGED <<ticker, last, ready, told, keys, missed>>

\* The call of Publish for an instrument is under way.
Writing(i) == At("write") /\ i = Instruments[refresher.todo]

Onward == [refresher EXCEPT !.at = "publish", !.todo = @ + 1]

Written(i) ==
    [keys EXCEPT ![i] = [value |-> refresher.answer[i], left |-> timeToLive, age |-> refresher.age]]

\* Mutant: the definition is not remembered once there is one.
publishForgets(i) ==
    /\ Writing(i)
    /\ keys' = Written(i)
    /\ last' = IF last[i] = None THEN [last EXCEPT ![i] = refresher.answer[i]] ELSE last
    /\ missed' = missed \ {i}
    /\ refresher' = Onward
    /\ UNCHANGED <<ticker, ready, told, record>>

\* Publish, and remember, which only the next refresh reads.
publish(i) ==
    /\ Writing(i)
    /\ keys' = Written(i)
    /\ last' = [last EXCEPT ![i] = refresher.answer[i]]
    /\ missed' = missed \ {i}
    /\ refresher' = Onward
    /\ UNCHANGED <<ticker, ready, told, record>>

\* Publish errored, whether or not the write landed: refresh returns, and the
\* instruments after this one are not written.  Nobody can tell from the log what
\* the key holds, until it reports another change.
publishFails(i) ==
    /\ Writing(i)
    /\ record' = [record EXCEPT ![i] = None]
    /\ keys' \in {keys, Written(i)}
    /\ Failed
    /\ UNCHANGED <<ticker, last, ready>>

\* refresh returned nil: the first time, the tracker is told.
refreshed ==
    /\ At("publish") /\ refresher.todo > Len(Instruments)
    /\ \/ refresher.first /\ cancelled /\ Goto("returned") /\ UNCHANGED told
       \/ refresher.first /\ ~cancelled /\ told' = "ok" /\ refresher' = [refresher EXCEPT !.at = "open"]
       \/ ~refresher.first /\ Goto("idle") /\ UNCHANGED told
    /\ UNCHANGED <<ticker, last, ready, keys, record, missed>>

\* The gate opens, and the ticker starts.
openGate ==
    /\ At("open")
    /\ ready' = TRUE
    /\ refresher' = [Leaving("idle") EXCEPT !.first = FALSE]
    /\ ticker' = [due |-> Interval, pending |-> FALSE]
    /\ UNCHANGED <<last, told, keys, record, missed>>

\* The select of Run.
idle ==
    /\ At("idle")
    /\ \/ ticker.pending /\ Goto("fetch") /\ ticker' = [ticker EXCEPT !.pending = FALSE]
       \/ cancelled /\ Goto("returned") /\ UNCHANGED ticker
    /\ UNCHANGED <<last, ready, told, keys, record, missed>>

Run == begin \/ fetchFails \/ slept \/ refreshed \/ openGate \/ idle
         \/ \E answer \in Answers : fetched(answer)
         \/ \E i \in Listed : skip(i) \/ logChanges(i) \/ publish(i) \/ publishFails(i)

\* Whether the refresher is waiting: for the clock, for the venue or for Redis.
\* Its other steps take no time.
Waiting ==
    \/ refresher.at \in {"off", "backoff", "returned"}
    \/ At("idle") /\ ~ticker.pending /\ ~cancelled
    \/ refresher.at \in {"fetch", "write"} /\ refresher.busy < MaxRefresh

Clock ==
    /\ Waiting
    /\ refresher' = [refresher EXCEPT
                        !.busy = IF refresher.at \in {"fetch", "write"} THEN @ + 1 ELSE @,
                        !.age = IF At("write") THEN @ + 1 ELSE @]
    /\ ticker' = IF ready /\ ~At("returned")
                 THEN IF ticker.due > 1 THEN [ticker EXCEPT !.due = @ - 1]
                                        ELSE [due |-> Interval, pending |-> TRUE]
                 ELSE ticker
    /\ keys' = [i \in Listed |->
                  IF keys[i].left <= 1 THEN Absent
                  ELSE [keys[i] EXCEPT !.left = @ - 1, !.age = Older(@)]]
    /\ UNCHANGED <<last, ready, told, record, missed>>

\* New.
NewRefresher == [at |-> "off", first |-> TRUE, todo |-> 1, answer |-> [i \in Listed |-> None],
                 busy |-> 0, age |-> 0]

MetadataInit ==
    /\ refresher = NewRefresher
    /\ ticker = [due |-> Interval, pending |-> FALSE]
    /\ last = [i \in Listed |-> None]
    /\ ready = FALSE
    /\ told = "nothing"
    /\ keys = [i \in Listed |-> Absent]
    /\ record = [i \in Listed |-> None]
    /\ missed = {}

\* start launches the goroutine.
Start == refresher' = [refresher EXCEPT !.at = "start"]

\* The refresher by itself, its context ending at any time.
MetadataNext ==
    \/ At("off") /\ Start
         /\ UNCHANGED <<ticker, last, ready, told, keys, record, missed, cancelled>>
    \/ (Run \/ Clock) /\ UNCHANGED cancelled
    \/ ~cancelled /\ cancelled' = TRUE /\ UNCHANGED metadataVars

RefresherInit == MetadataInit /\ cancelled = FALSE

MetadataSpec == RefresherInit /\ [][MetadataNext]_<<metadataVars, cancelled>>

\* The variables have the values the code gives them.
MetadataTypeOK ==
    /\ cancelled \in BOOLEAN
    /\ refresher \in [at : {"off", "start", "fetch", "publish", "write", "backoff", "open", "idle",
                            "returned"},
                      first : BOOLEAN, todo : 1..(Len(Instruments) + 1), answer : Answers,
                      busy : 0..MaxRefresh, age : 0..MaxRefresh]
    /\ ticker \in [due : 0..Interval, pending : BOOLEAN]
    /\ last \in Answers /\ record \in Answers
    /\ ready \in BOOLEAN
    /\ told \in {"nothing", "unavailable", "ok"}
    /\ keys \in [Listed -> [value : Definitions \cup {None}, left : 0..timeToLive, age : 0..MaxAge]]
    /\ missed \in SUBSET Listed

-----------------------------------------------------------------------------

\* No freshness nobody has: a definition in Redis is one the venue gave no longer
\* ago than the TTL and the refresh that wrote it.  (A refresh that fails writes
\* nothing again.)
FreshnessHonest ==
    \A i \in Listed : keys[i].left > 0 => keys[i].age <= timeToLive + MaxRefresh

\* While the refresher runs, a key is gone only after a refresh that did not
\* write it: the TTL outlives the longest gap between two refreshes.
KeptWhileRefreshed ==
    refresher.at # "returned" =>
        \A i \in Listed : last[i] # None /\ i \notin missed => keys[i].left > 0

\* The warnings of logChanges account for every change of a key (metadata.go:247),
\* but for the one whose write is under way, and unless a write of that
\* instrument came back as an error: the code does not remember that one, although
\* it may have landed.  It is a property of one process: a kill between a warning
\* and its write leaves the log ahead of the key.
LogAccountsForKeys ==
    \A i \in Listed :
        keys[i].left > 0 /\ record[i] # None /\ ~Writing(i) => keys[i].value = record[i]

=============================================================================
