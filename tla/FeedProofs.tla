------------------------------- MODULE FeedProofs -------------------------------
(***************************************************************************)
(* The feed process, for every plan and any number of kills and restarts:  *)
(* nothing streams before its own metadata, nothing is closed under a      *)
(* producer unnoticed, nothing is left open, and what a killed process     *)
(* left in Redis is no staler than what a live one keeps there.            *)
(***************************************************************************)
EXTENDS Feed, TLAPS

-----------------------------------------------------------------------------
(***************************************************************************)
(* The refresher by itself, for any instruments, any definitions, every    *)
(* interval and every duration of a refresh below half of it.              *)
(***************************************************************************)

\* An instrument that was written since a refresh last left it out.
Kept(i) == last[i] # None /\ i \notin missed

\* Where the refresher can be, before and after its first success.
PhasesOK ==
    /\ ready <=> ~refresher.first
    /\ refresher.first => refresher.at # "idle"
    /\ ~refresher.first => refresher.at \in {"idle", "fetch", "publish", "write", "returned"}
    /\ refresher.age <= refresher.busy
    /\ refresher.at \notin {"fetch", "publish", "write", "open"} => refresher.busy = 0

\* A refresh begins on the tick and is over before the next one.
TickerOK ==
    ~refresher.first =>
        /\ refresher.at = "idle" => ticker.due >= 1 /\ (ticker.pending => ticker.due = Interval)
        /\ refresher.at \in {"fetch", "publish", "write"} =>
               ~ticker.pending /\ ticker.due = Interval - refresher.busy

\* What a key that is kept has left at least, at the nth of the instruments: it
\* was written less than two refreshes ago.
Left(n) ==
    IF refresher.first THEN timeToLive - refresher.busy
    ELSE IF \/ refresher.at = "idle" /\ ~ticker.pending
            \/ refresher.at \in {"publish", "write"} /\ n < refresher.todo
    THEN ticker.due + Interval - MaxRefresh
    ELSE ticker.due - MaxRefresh

SlackOK ==
    refresher.at # "returned" =>
        \A n \in 1..Len(Instruments) :
            Kept(Instruments[n]) =>
                /\ refresher.first => refresher.at \in {"publish", "write", "open"}
                /\ keys[Instruments[n]].left >= Left(n)

\* What the venue leaves out of an answer is not kept.
LeftOutOK ==
    refresher.at \in {"publish", "write"} => \A i \in Listed : refresher.answer[i] = None => ~Kept(i)

\* A key ages as its TTL runs down.
AgesOK ==
    \A i \in Listed : keys[i].left > 0 => keys[i].age + keys[i].left <= timeToLive + MaxRefresh

\* The log and the refresher's memory agree where both know something, but for
\* the instrument that has just been logged.
LogOK ==
    \A i \in Listed : last[i] # None /\ record[i] # None /\ ~Writing(i) => record[i] = last[i]

\* What is being written was answered, and logged if the log knows something.
WriteOK ==
    refresher.at = "write" =>
        /\ refresher.todo <= Len(Instruments)
        /\ \A i \in Listed : Writing(i) =>
              refresher.answer[i] # None /\ record[i] \in {None, refresher.answer[i]}

IInv == MetadataTypeOK /\ PhasesOK /\ TickerOK /\ SlackOK /\ LeftOutOK /\ AgesOK /\ LogOK /\ WriteOK
          /\ LogAccountsForKeys

Places == {"off", "start", "fetch", "publish", "write", "backoff", "open", "idle", "returned"}

Refreshers == [at : Places, first : BOOLEAN, todo : 1..(Len(Instruments) + 1), answer : Answers,
               busy : 0..MaxRefresh, age : 0..MaxRefresh]

Keys == [value : Definitions \cup {None}, left : 0..timeToLive, age : 0..MaxAge]

Nothing == [i \in Listed |-> None]

\* The types, field by field.
Fields ==
    /\ refresher.at \in Places /\ refresher.first \in BOOLEAN
    /\ refresher.todo \in 1..(Len(Instruments) + 1)
    /\ refresher.answer \in Answers
    /\ refresher.busy \in Nat /\ refresher.busy <= MaxRefresh
    /\ refresher.age \in Nat /\ refresher.age <= MaxRefresh
    /\ ticker.due \in Nat /\ ticker.due <= Interval /\ ticker.pending \in BOOLEAN
    /\ ready \in BOOLEAN /\ cancelled \in BOOLEAN
    /\ \A i \in Listed : /\ keys[i].left \in Nat /\ keys[i].left <= timeToLive
                         /\ keys[i].age \in Nat /\ keys[i].age <= MaxAge

-----------------------------------------------------------------------------
\* The instruments are those listed, at least one, each once.
LEMMA InstrumentFacts ==
    /\ Len(Instruments) \in Nat /\ Len(Instruments) > 0
    /\ \A n \in 1..Len(Instruments) : Instruments[n] \in Listed
    /\ \A i \in Listed : \E n \in 1..Len(Instruments) : i = Instruments[n]
    /\ \A m, n \in 1..Len(Instruments) : Instruments[m] = Instruments[n] => m = n
<1>1. QED
    BY MetadataAssumption DEF Listed

\* The two durations, and the TTL they make.
LEMMA Durations ==
    /\ Interval \in Nat /\ MaxRefresh \in Nat /\ 2 * MaxRefresh < Interval
    /\ timeToLive \in Nat /\ timeToLive = 2 * Interval
    /\ MaxAge \in Nat /\ MaxAge = timeToLive + MaxRefresh + 1
<1>1. QED
    BY MetadataAssumption DEF timeToLive, MaxAge

\* No answer at all is an answer.
LEMMA NothingFacts == Nothing \in Answers /\ \A i \in Listed : Nothing[i] = None
<1>1. QED
    BY DEF Nothing, Answers

\* The type invariant, field by field.
LEMMA TypeFields == ASSUME MetadataTypeOK PROVE Fields
<1>1. refresher \in Refreshers
    BY DEF MetadataTypeOK, Refreshers, Places
<1>2. /\ refresher.at \in Places /\ refresher.first \in BOOLEAN
      /\ refresher.todo \in 1..(Len(Instruments) + 1)
      /\ refresher.answer \in Answers
      /\ refresher.busy \in 0..MaxRefresh /\ refresher.age \in 0..MaxRefresh
    BY <1>1 DEF Refreshers
<1>3. ticker.due \in 0..Interval /\ ticker.pending \in BOOLEAN
    BY DEF MetadataTypeOK
<1>4. ASSUME NEW i \in Listed PROVE keys[i].left \in 0..timeToLive /\ keys[i].age \in 0..MaxAge
    BY DEF MetadataTypeOK
<1>5. ready \in BOOLEAN /\ cancelled \in BOOLEAN
    BY DEF MetadataTypeOK
<1>6. QED
    BY <1>2, <1>3, <1>4, <1>5, Durations DEF Fields

\* What a refresh forgets when it is over.
LEMMA LeavingFields ==
    ASSUME NEW place \in Places, MetadataTypeOK
    PROVE  /\ Leaving(place) \in Refreshers
           /\ Leaving(place).at = place /\ Leaving(place).first = refresher.first
           /\ Leaving(place).todo = 1 /\ Leaving(place).answer = Nothing
           /\ Leaving(place).busy = 0 /\ Leaving(place).age = 0
<1>1. Fields
    BY TypeFields
<1>2. 1 \in 1..(Len(Instruments) + 1) /\ 0 \in 0..MaxRefresh
    BY InstrumentFacts, Durations
<1>3. QED
    BY <1>1, <1>2, NothingFacts DEF Leaving, Nothing, Refreshers, Fields

\* Run's first report and loop condition.
LEMMA BeginKeeps ==
    ASSUME IInv, begin, UNCHANGED cancelled
    PROVE  IInv'
<1>0. Fields /\ MetadataTypeOK
    BY TypeFields DEF IInv
<1>1. /\ refresher'.at \in {"returned", "fetch"} /\ refresher'.first = refresher.first
      /\ refresher'.todo = 1 /\ refresher'.answer = Nothing /\ refresher'.busy = 0 /\ refresher'.age = 0
      /\ refresher' \in Refreshers
      /\ refresher.at = "start"
      /\ told' = "unavailable" /\ UNCHANGED <<ticker, last, ready, keys, record, missed, cancelled>>
    BY <1>0, LeavingFields DEF begin, BeginOrReturn, Goto, At, Places
<1>2. MetadataTypeOK'
    BY <1>0, <1>1 DEF MetadataTypeOK, Refreshers, Places
<1>3. PhasesOK'
    BY <1>0, <1>1, Durations, InstrumentFacts, NothingFacts DEF IInv, Fields, PhasesOK
<1>4. TickerOK'
    BY <1>0, <1>1, Durations, InstrumentFacts, NothingFacts DEF IInv, Fields, PhasesOK, TickerOK
<1>5. LeftOutOK'
    BY <1>0, <1>1, Durations, InstrumentFacts, NothingFacts DEF IInv, Fields, LeftOutOK, Kept, PhasesOK
<1>6. AgesOK'
    BY <1>0, <1>1, Durations, InstrumentFacts, NothingFacts DEF IInv, Fields, AgesOK
<1>7. LogOK' /\ WriteOK'
    BY <1>0, <1>1 DEF IInv, LogOK, WriteOK, Writing, At
<1>8. LogAccountsForKeys'
    BY <1>0, <1>1 DEF IInv, LogAccountsForKeys, Writing, At
<1>9. SlackOK'
    BY <1>0, <1>1, Durations, InstrumentFacts, NothingFacts DEF IInv, Fields, SlackOK, Left, Kept, PhasesOK, TickerOK
<1>10. QED
    BY <1>2, <1>3, <1>4, <1>5, <1>6, <1>7, <1>8, <1>9 DEF IInv

\* The end of a backoff.
LEMMA SleptKeeps ==
    ASSUME IInv, slept, UNCHANGED cancelled
    PROVE  IInv'
<1>0. Fields /\ MetadataTypeOK
    BY TypeFields DEF IInv
<1>1. /\ refresher'.at \in {"returned", "fetch"} /\ refresher'.first = refresher.first
      /\ refresher'.todo = 1 /\ refresher'.answer = Nothing /\ refresher'.busy = 0 /\ refresher'.age = 0
      /\ refresher' \in Refreshers
      /\ refresher.at = "backoff"
      /\ UNCHANGED <<ticker, last, ready, told, keys, record, missed, cancelled>>
    BY <1>0, LeavingFields DEF slept, BeginOrReturn, Goto, At, Places
<1>2. MetadataTypeOK'
    BY <1>0, <1>1 DEF MetadataTypeOK, Refreshers, Places
<1>3. PhasesOK'
    BY <1>0, <1>1, Durations, InstrumentFacts, NothingFacts DEF IInv, Fields, PhasesOK
<1>4. TickerOK'
    BY <1>0, <1>1, Durations, InstrumentFacts, NothingFacts DEF IInv, Fields, PhasesOK, TickerOK
<1>5. LeftOutOK'
    BY <1>0, <1>1, Durations, InstrumentFacts, NothingFacts DEF IInv, Fields, LeftOutOK, Kept, PhasesOK
<1>6. AgesOK'
    BY <1>0, <1>1, Durations, InstrumentFacts, NothingFacts DEF IInv, Fields, AgesOK
<1>7. LogOK' /\ WriteOK'
    BY <1>0, <1>1 DEF IInv, LogOK, WriteOK, Writing, At
<1>8. LogAccountsForKeys'
    BY <1>0, <1>1 DEF IInv, LogAccountsForKeys, Writing, At
<1>9. SlackOK'
    BY <1>0, <1>1, Durations, InstrumentFacts, NothingFacts DEF IInv, Fields, SlackOK, Left, Kept, PhasesOK, TickerOK
<1>10. QED
    BY <1>2, <1>3, <1>4, <1>5, <1>6, <1>7, <1>8, <1>9 DEF IInv

\* A fetch that failed.
LEMMA FetchFailsKeeps ==
    ASSUME IInv, fetchFails, UNCHANGED cancelled
    PROVE  IInv'
<1>0. Fields /\ MetadataTypeOK
    BY TypeFields DEF IInv
<1>1. /\ refresher'.at \in {"returned", "backoff", "idle"} /\ refresher'.first = refresher.first
      /\ refresher'.todo = 1 /\ refresher'.answer = Nothing /\ refresher'.busy = 0 /\ refresher'.age = 0
      /\ refresher' \in Refreshers
      /\ refresher.first => refresher'.at # "idle"
      /\ ~refresher.first => refresher'.at = "idle"
      /\ missed' = missed \cup {j \in Listed : last[j] # None}
      /\ told' \in {told, "unavailable"} /\ UNCHANGED <<ticker, last, ready, cancelled>>
      /\ refresher.at = "fetch" /\ UNCHANGED <<keys, record>>
    BY <1>0, LeavingFields DEF fetchFails, Failed, Goto, At, Places, Fields
<1>2. MetadataTypeOK'
    BY <1>0, <1>1 DEF MetadataTypeOK, Refreshers, Places
<1>3. PhasesOK'
    BY <1>0, <1>1, Durations, InstrumentFacts, NothingFacts DEF IInv, Fields, PhasesOK
<1>4. TickerOK'
    BY <1>0, <1>1, Durations, InstrumentFacts, NothingFacts DEF IInv, Fields, PhasesOK, TickerOK
<1>5. LeftOutOK'
    BY <1>0, <1>1, Durations, InstrumentFacts, NothingFacts DEF IInv, Fields, LeftOutOK, Kept, PhasesOK
<1>6. AgesOK'
    BY <1>0, <1>1, Durations, InstrumentFacts, NothingFacts DEF IInv, Fields, AgesOK
<1>7. LogOK' /\ WriteOK'
    BY <1>0, <1>1 DEF IInv, LogOK, WriteOK, Writing, At
<1>8. LogAccountsForKeys'
    BY <1>0, <1>1 DEF IInv, LogAccountsForKeys, Writing, At
<1>9. SlackOK'
    <2>1. ASSUME NEW j \in Listed PROVE ~Kept(j)'
        BY <1>1 DEF Kept
    <2>2. QED
        BY <1>1, <2>1, InstrumentFacts DEF SlackOK
<1>10. QED
    BY <1>2, <1>3, <1>4, <1>5, <1>6, <1>7, <1>8, <1>9 DEF IInv

\* A refresh that is over.
LEMMA RefreshedKeeps ==
    ASSUME IInv, refreshed, UNCHANGED cancelled
    PROVE  IInv'
<1>0. Fields /\ MetadataTypeOK
    BY TypeFields DEF IInv
<1>1. /\ refresher.at = "publish" /\ refresher.todo > Len(Instruments)
      /\ told' \in {told, "ok"} /\ UNCHANGED <<ticker, last, ready, keys, record, missed, cancelled>>
    BY DEF refreshed, At
<1>a. CASE refresher.first /\ told' = "ok" /\ refresher' = [refresher EXCEPT !.at = "open"]
    <2>1. /\ refresher'.at = "open" /\ refresher'.first = refresher.first
          /\ refresher'.todo = refresher.todo /\ refresher'.answer = refresher.answer
          /\ refresher'.busy = refresher.busy /\ refresher'.age = refresher.age
          /\ refresher' \in Refreshers
        BY <1>0, <1>a DEF MetadataTypeOK, Refreshers, Places
    <2>2. MetadataTypeOK'
        BY <1>0, <1>1, <2>1 DEF MetadataTypeOK, Refreshers, Places
    <2>3. PhasesOK' /\ TickerOK' /\ LeftOutOK'
        BY <1>0, <1>1, <1>a, <2>1 DEF IInv, Fields, PhasesOK, TickerOK, LeftOutOK
    <2>4. AgesOK' /\ LogOK' /\ WriteOK' /\ LogAccountsForKeys'
        BY <1>1, <2>1 DEF IInv, AgesOK, LogOK, WriteOK, LogAccountsForKeys, Writing, At
    <2>5. SlackOK'
        BY <1>0, <1>1, <1>a, <2>1 DEF IInv, SlackOK, Left, Kept
    <2>6. QED
        BY <2>2, <2>3, <2>4, <2>5 DEF IInv
<1>b. CASE \/ refresher.first /\ refresher' = Leaving("returned")
           \/ ~refresher.first /\ refresher' = Leaving("idle")
    <2>1. /\ refresher'.at = (IF refresher.first THEN "returned" ELSE "idle")
          /\ refresher'.first = refresher.first
          /\ refresher'.todo = 1 /\ refresher'.answer = Nothing /\ refresher'.busy = 0 /\ refresher'.age = 0
          /\ refresher' \in Refreshers
        BY <1>0, <1>b, LeavingFields DEF Places, Fields
    <2>2. MetadataTypeOK'
        BY <1>0, <1>1, <2>1 DEF MetadataTypeOK, Refreshers, Places
    <2>3. PhasesOK' /\ LeftOutOK'
        BY <1>0, <1>1, <2>1 DEF IInv, Fields, PhasesOK, LeftOutOK
    <2>7. TickerOK'
        <3>1. ~refresher.first =>
                  ticker' = ticker /\ ~ticker.pending /\ refresher'.at \notin {"fetch", "publish", "write"}
            BY <1>0, <1>1, <2>1 DEF IInv, PhasesOK, TickerOK
        <3>2. CASE refresher.first
            BY <2>1, <3>2 DEF TickerOK
        <3>3. CASE ~refresher.first
            <4>1. ticker.due = Interval - refresher.busy /\ refresher.busy \in Nat
                  /\ refresher.busy <= MaxRefresh
                BY <1>0, <1>1, <3>3 DEF IInv, TickerOK, Fields
            <4>2. ticker.due >= 1
                BY <4>1, Durations
            <4>3. QED
                BY <1>1, <3>1, <3>3, <4>2 DEF TickerOK
        <3>4. QED
            BY <3>2, <3>3
    <2>4. AgesOK' /\ LogOK' /\ WriteOK' /\ LogAccountsForKeys'
        BY <1>1, <2>1 DEF IInv, AgesOK, LogOK, WriteOK, LogAccountsForKeys, Writing, At
    <2>5. SlackOK'
        <3>1. SUFFICES ASSUME ~refresher.first, NEW n \in 1..Len(Instruments), Kept(Instruments[n])
                       PROVE  keys[Instruments[n]].left >= Left(n)'
            BY <1>0, <1>1, <2>1 DEF SlackOK, Kept, Fields
        <3>2. n < refresher.todo /\ keys[Instruments[n]].left \in Nat
            BY <1>0, <1>1, InstrumentFacts DEF Fields
        <3>3. keys[Instruments[n]].left >= ticker.due + Interval - MaxRefresh
            BY <1>1, <3>1, <3>2 DEF IInv, SlackOK, Left
        <3>4. ~ticker'.pending /\ ticker' = ticker
            BY <1>1, <3>1 DEF IInv, TickerOK
        <3>5. QED
            BY <1>0, <2>1, <3>1, <3>3, <3>4 DEF Left, Fields
    <2>6. QED
        BY <2>2, <2>3, <2>4, <2>5, <2>7 DEF IInv
<1>2. QED
    BY <1>a, <1>b DEF refreshed, Goto

\* The gate opens.
LEMMA OpenGateKeeps ==
    ASSUME IInv, openGate, UNCHANGED cancelled
    PROVE  IInv'
<1>0. Fields /\ MetadataTypeOK
    BY TypeFields DEF IInv
<1>1. /\ refresher'.at = "idle" /\ refresher'.first = FALSE
      /\ refresher'.todo = 1 /\ refresher'.answer = Nothing /\ refresher'.busy = 0 /\ refresher'.age = 0
      /\ refresher' \in Refreshers
      /\ refresher.at = "open" /\ ready' = TRUE
      /\ ticker' = [due |-> Interval, pending |-> FALSE]
      /\ ticker'.due = Interval /\ ticker'.pending = FALSE
      /\ UNCHANGED <<last, told, keys, record, missed, cancelled>>
    <2>1. Leaving("idle") \in Refreshers
        BY <1>0, LeavingFields DEF Places
    <2>2. refresher' = [Leaving("idle") EXCEPT !.first = FALSE]
        BY DEF openGate
    <2>3. QED
        BY <1>0, <2>1, <2>2, LeavingFields DEF openGate, At, Places, Refreshers
<1>2. MetadataTypeOK'
    BY <1>0, <1>1, Durations DEF MetadataTypeOK, Refreshers, Places
<1>3. PhasesOK'
    BY <1>0, <1>1, Durations, InstrumentFacts, NothingFacts DEF IInv, Fields, PhasesOK
<1>4. TickerOK'
    BY <1>0, <1>1, Durations, InstrumentFacts, NothingFacts DEF IInv, Fields, PhasesOK, TickerOK
<1>5. LeftOutOK'
    BY <1>0, <1>1, Durations, InstrumentFacts, NothingFacts DEF IInv, Fields, LeftOutOK, Kept, PhasesOK
<1>6. AgesOK'
    BY <1>0, <1>1, Durations, InstrumentFacts, NothingFacts DEF IInv, Fields, AgesOK
<1>7. LogOK' /\ WriteOK'
    BY <1>0, <1>1 DEF IInv, LogOK, WriteOK, Writing, At
<1>8. LogAccountsForKeys'
    BY <1>0, <1>1 DEF IInv, LogAccountsForKeys, Writing, At
<1>9. SlackOK'
    <2>1. SUFFICES ASSUME NEW n \in 1..Len(Instruments), Kept(Instruments[n])
                   PROVE  keys[Instruments[n]].left >= Left(n)'
        BY <1>1 DEF SlackOK, Kept
    <2>3. refresher.first
        BY <1>0, <1>1 DEF IInv, PhasesOK
    <2>4. keys[Instruments[n]].left >= timeToLive - refresher.busy
        BY <1>1, <2>1, <2>3 DEF IInv, SlackOK, Left
    <2>5. keys[Instruments[n]].left \in Nat
        BY <1>0, InstrumentFacts DEF Fields
    <2>6. refresher.busy \in Nat /\ refresher.busy <= MaxRefresh
        BY <1>0 DEF Fields
    <2>7. Left(n)' = ticker'.due + Interval - MaxRefresh
        BY <1>1 DEF Left
    <2>8. ticker'.due = Interval
        BY <1>1
    <2>9. QED
        BY <2>4, <2>5, <2>6, <2>7, <2>8, Durations
<1>10. QED
    BY <1>2, <1>3, <1>4, <1>5, <1>6, <1>7, <1>8, <1>9 DEF IInv

\* The select of Run.
LEMMA IdleKeeps ==
    ASSUME IInv, idle, UNCHANGED cancelled
    PROVE  IInv'
<1>0. Fields /\ MetadataTypeOK
    BY TypeFields DEF IInv
<1>1. /\ refresher'.at \in {"returned", "fetch"} /\ refresher'.first = refresher.first
      /\ refresher'.todo = 1 /\ refresher'.answer = Nothing /\ refresher'.busy = 0 /\ refresher'.age = 0
      /\ refresher' \in Refreshers
      /\ refresher.at = "idle" /\ ticker' \in [due : 0..Interval, pending : BOOLEAN]
      /\ refresher'.at = "fetch" => ticker.pending /\ ticker'.due = ticker.due /\ ~ticker'.pending
      /\ UNCHANGED <<last, ready, told, keys, record, missed, cancelled>>
    <2>1. \/ ticker.pending /\ refresher' = Leaving("fetch") /\ ticker' = [ticker EXCEPT !.pending = FALSE]
          \/ refresher' = Leaving("returned") /\ UNCHANGED ticker
        BY DEF idle, Goto
    <2>2. ticker \in [due : 0..Interval, pending : BOOLEAN]
        BY <1>0 DEF MetadataTypeOK
    <2>3. QED
        BY <1>0, <2>1, <2>2, LeavingFields DEF idle, At, Places
<1>2. MetadataTypeOK'
    BY <1>0, <1>1 DEF MetadataTypeOK, Refreshers, Places
<1>3. PhasesOK'
    BY <1>0, <1>1, Durations, InstrumentFacts, NothingFacts DEF IInv, Fields, PhasesOK
<1>4. TickerOK'
    BY <1>0, <1>1, Durations, InstrumentFacts, NothingFacts DEF IInv, Fields, PhasesOK, TickerOK
<1>5. LeftOutOK'
    BY <1>0, <1>1, Durations, InstrumentFacts, NothingFacts DEF IInv, Fields, LeftOutOK, Kept, PhasesOK
<1>6. AgesOK'
    BY <1>0, <1>1, Durations, InstrumentFacts, NothingFacts DEF IInv, Fields, AgesOK
<1>7. LogOK' /\ WriteOK'
    BY <1>0, <1>1 DEF IInv, LogOK, WriteOK, Writing, At
<1>8. LogAccountsForKeys'
    BY <1>0, <1>1 DEF IInv, LogAccountsForKeys, Writing, At
<1>9. SlackOK'
    BY <1>0, <1>1, Durations, InstrumentFacts, NothingFacts DEF IInv, Fields, SlackOK, Left, Kept, PhasesOK, TickerOK
<1>10. QED
    BY <1>2, <1>3, <1>4, <1>5, <1>6, <1>7, <1>8, <1>9 DEF IInv

\* The venue's answer.
LEMMA FetchedKeeps ==
    ASSUME IInv, NEW answer \in Answers, fetched(answer), UNCHANGED cancelled
    PROVE  IInv'
<1>0. Fields /\ MetadataTypeOK
    BY TypeFields DEF IInv
<1>1. /\ refresher'.at = "publish" /\ refresher'.first = refresher.first
      /\ refresher'.todo = 1 /\ refresher'.answer = answer
      /\ refresher'.busy = refresher.busy /\ refresher'.age = refresher.age
      /\ refresher' \in Refreshers
      /\ refresher.at = "fetch"
      /\ missed' = missed \cup {j \in Listed : answer[j] = None /\ last[j] # None}
      /\ UNCHANGED <<ticker, last, ready, told, keys, record, cancelled>>
    <2>1. refresher' = [refresher EXCEPT !.at = "publish", !.answer = answer, !.todo = 1]
        BY DEF fetched
    <2>2. refresher \in Refreshers
        BY <1>0 DEF MetadataTypeOK, Refreshers, Places
    <2>3. 1 \in 1..(Len(Instruments) + 1)
        BY InstrumentFacts
    <2>4. /\ refresher'.at = "publish" /\ refresher'.first = refresher.first
          /\ refresher'.todo = 1 /\ refresher'.answer = answer
          /\ refresher'.busy = refresher.busy /\ refresher'.age = refresher.age
        BY <2>1, <2>2 DEF Refreshers
    <2>5. refresher' \in Refreshers
        BY <2>1, <2>2, <2>3 DEF Refreshers, Places
    <2>6. QED
        BY <2>4, <2>5 DEF fetched, At
<1>2. MetadataTypeOK'
    BY <1>0, <1>1 DEF MetadataTypeOK, Refreshers, Places
<1>3. PhasesOK'
    BY <1>0, <1>1, Durations, InstrumentFacts, NothingFacts DEF IInv, Fields, PhasesOK
<1>4. TickerOK'
    BY <1>0, <1>1, Durations, InstrumentFacts, NothingFacts DEF IInv, Fields, PhasesOK, TickerOK
<1>5. LeftOutOK'
    BY <1>0, <1>1, Durations, InstrumentFacts, NothingFacts DEF IInv, Fields, LeftOutOK, Kept, PhasesOK
<1>6. AgesOK'
    BY <1>0, <1>1, Durations, InstrumentFacts, NothingFacts DEF IInv, Fields, AgesOK
<1>7. LogOK' /\ WriteOK'
    BY <1>0, <1>1 DEF IInv, LogOK, WriteOK, Writing, At
<1>8. LogAccountsForKeys'
    BY <1>0, <1>1 DEF IInv, LogAccountsForKeys, Writing, At
<1>9. SlackOK'
    <2>1. SUFFICES ASSUME NEW n \in 1..Len(Instruments), Kept(Instruments[n])
                   PROVE  keys[Instruments[n]].left >= Left(n)'
        BY <1>1 DEF SlackOK, Kept
    <2>2. keys[Instruments[n]].left >= Left(n)
        BY <1>1, <2>1 DEF IInv, SlackOK
    <2>3. ~(n < refresher'.todo)
        BY <1>1
    <2>4. Left(n)' = Left(n)
        BY <1>1, <2>3 DEF Left
    <2>5. QED
        BY <2>2, <2>4
<1>10. QED
    BY <1>2, <1>3, <1>4, <1>5, <1>6, <1>7, <1>8, <1>9 DEF IInv

\* An instrument that was not found.
LEMMA SkipKeeps ==
    ASSUME IInv, NEW i \in Listed, skip(i), UNCHANGED cancelled
    PROVE  IInv'
<1>0. Fields /\ MetadataTypeOK
    BY TypeFields DEF IInv
<1>1. /\ refresher'.at = "publish" /\ refresher'.first = refresher.first
      /\ refresher'.todo = refresher.todo + 1 /\ refresher'.answer = refresher.answer
      /\ refresher'.busy = refresher.busy /\ refresher'.age = refresher.age
      /\ refresher' \in Refreshers
      /\ refresher.at = "publish" /\ refresher.todo <= Len(Instruments)
      /\ i = Instruments[refresher.todo]
      /\ refresher.answer[i] = None
      /\ UNCHANGED <<ticker, last, ready, told, keys, record, missed, cancelled>>
    <2>1. refresher' = [refresher EXCEPT !.todo = @ + 1]
        BY DEF skip
    <2>2. refresher \in Refreshers
        BY <1>0 DEF MetadataTypeOK, Refreshers, Places
    <2>3. refresher.todo + 1 \in 1..(Len(Instruments) + 1)
        BY <1>0, InstrumentFacts DEF skip, Publishing, Fields
    <2>4. QED
        BY <2>1, <2>2, <2>3 DEF skip, Publishing, At, Refreshers, Places
<1>2. MetadataTypeOK'
    BY <1>0, <1>1 DEF MetadataTypeOK, Refreshers, Places
<1>3. PhasesOK'
    BY <1>0, <1>1, Durations, InstrumentFacts, NothingFacts DEF IInv, Fields, PhasesOK
<1>4. TickerOK'
    BY <1>0, <1>1, Durations, InstrumentFacts, NothingFacts DEF IInv, Fields, PhasesOK, TickerOK
<1>5. LeftOutOK'
    BY <1>0, <1>1, Durations, InstrumentFacts, NothingFacts DEF IInv, Fields, LeftOutOK, Kept, PhasesOK
<1>6. AgesOK'
    BY <1>0, <1>1, Durations, InstrumentFacts, NothingFacts DEF IInv, Fields, AgesOK
<1>7. LogOK' /\ WriteOK'
    BY <1>0, <1>1 DEF IInv, LogOK, WriteOK, Writing, At
<1>8. LogAccountsForKeys'
    BY <1>0, <1>1 DEF IInv, LogAccountsForKeys, Writing, At
<1>9. SlackOK'
    <2>1. ~Kept(i)
        BY <1>1 DEF IInv, LeftOutOK
    <2>2. SUFFICES ASSUME NEW n \in 1..Len(Instruments), Kept(Instruments[n])
                   PROVE  keys[Instruments[n]].left >= Left(n)'
        BY <1>1 DEF SlackOK, Kept
    <2>3. n # refresher.todo
        BY <1>1, <2>1, <2>2
    <2>4. keys[Instruments[n]].left >= Left(n)
        BY <1>1, <2>2 DEF IInv, SlackOK
    <2>5. QED
        BY <1>0, <1>1, <2>3, <2>4 DEF Left, Fields
<1>10. QED
    BY <1>2, <1>3, <1>4, <1>5, <1>6, <1>7, <1>8, <1>9 DEF IInv

\* The warning before a write.
LEMMA LogChangesKeeps ==
    ASSUME IInv, NEW i \in Listed, logChanges(i), UNCHANGED cancelled
    PROVE  IInv'
<1>0. Fields /\ MetadataTypeOK
    BY TypeFields DEF IInv
<1>1. /\ refresher'.at = "write" /\ refresher'.first = refresher.first
      /\ refresher'.todo = refresher.todo /\ refresher'.answer = refresher.answer
      /\ refresher'.busy = refresher.busy /\ refresher'.age = refresher.age
      /\ refresher' \in Refreshers
      /\ refresher.at = "publish" /\ refresher.todo <= Len(Instruments)
      /\ i = Instruments[refresher.todo] /\ refresher.answer[i] # None
      /\ record' = IF last[i] = None \/ Changed(i)
                   THEN [record EXCEPT ![i] = refresher.answer[i]] ELSE record
      /\ UNCHANGED <<ticker, last, ready, told, keys, missed, cancelled>>
    BY <1>0 DEF logChanges, Publishing, At, MetadataTypeOK, Refreshers, Places
<1>l. /\ record' \in Answers /\ \A j \in Listed : j # i => record'[j] = record[j]
      /\ record'[i] \in {record[i], refresher.answer[i]}
      /\ record'[i] = record[i] => last[i] = refresher.answer[i] \/ record[i] = refresher.answer[i]
    BY <1>0, <1>1 DEF MetadataTypeOK, Fields, Answers, Changed
<1>2. MetadataTypeOK'
    BY <1>0, <1>1, <1>l DEF MetadataTypeOK, Refreshers, Places
<1>3. PhasesOK' /\ TickerOK' /\ LeftOutOK'
    BY <1>0, <1>1 DEF IInv, Fields, PhasesOK, TickerOK, LeftOutOK, Kept
<1>6. AgesOK'
    BY <1>1 DEF IInv, AgesOK
<1>w. \A j \in Listed : ~Writing(j) /\ (Writing(j)' <=> j = i)
    BY <1>1 DEF Writing, At
<1>7. LogOK' /\ WriteOK'
    BY <1>1, <1>l, <1>w DEF IInv, LogOK, WriteOK
<1>8. LogAccountsForKeys'
    BY <1>1, <1>l, <1>w DEF IInv, LogAccountsForKeys
<1>9. SlackOK'
    BY <1>0, <1>1 DEF IInv, SlackOK, Left, Kept
<1>10. QED
    BY <1>2, <1>3, <1>6, <1>7, <1>8, <1>9 DEF IInv

\* A definition that was written.
LEMMA PublishKeeps ==
    ASSUME IInv, NEW i \in Listed, publish(i), UNCHANGED cancelled
    PROVE  IInv'
<1>0. Fields /\ MetadataTypeOK
    BY TypeFields DEF IInv
<1>1. /\ refresher'.at = "publish" /\ refresher'.first = refresher.first
      /\ refresher'.todo = refresher.todo + 1 /\ refresher'.answer = refresher.answer
      /\ refresher'.busy = refresher.busy /\ refresher'.age = refresher.age
      /\ refresher' \in Refreshers
      /\ refresher.at = "write" /\ refresher.todo <= Len(Instruments)
      /\ i = Instruments[refresher.todo]
      /\ refresher.answer[i] # None /\ record[i] \in {None, refresher.answer[i]}
      /\ last' = [last EXCEPT ![i] = refresher.answer[i]] /\ keys' = Written(i)
      /\ missed' = missed \ {i}
      /\ UNCHANGED <<ticker, ready, told, record, cancelled>>
    <2>1. refresher' = [refresher EXCEPT !.at = "publish", !.todo = @ + 1] /\ Writing(i)
        BY DEF publish, Onward
    <2>2. refresher \in Refreshers
        BY <1>0 DEF MetadataTypeOK, Refreshers, Places
    <2>3. refresher.at = "write" /\ i = Instruments[refresher.todo]
        BY <2>1 DEF Writing, At
    <2>4. /\ refresher.todo <= Len(Instruments)
          /\ refresher.answer[i] # None /\ record[i] \in {None, refresher.answer[i]}
        BY <2>1, <2>3 DEF IInv, WriteOK
    <2>5. refresher.todo + 1 \in 1..(Len(Instruments) + 1)
        BY <1>0, <2>4, InstrumentFacts DEF Fields
    <2>6. QED
        BY <2>1, <2>3, <2>5, <2>2, <2>4 DEF publish, Refreshers, Places
<1>k. /\ keys'[i].value = refresher.answer[i] /\ keys'[i].left = timeToLive /\ keys'[i].age = refresher.age
      /\ \A j \in Listed : j # i => keys'[j] = keys[j]
      /\ keys' \in [Listed -> Keys]
    <2>1. keys \in [Listed -> Keys]
        BY <1>0 DEF MetadataTypeOK, Keys
    <2>2. [value |-> refresher.answer[i], left |-> timeToLive, age |-> refresher.age] \in Keys
        BY <1>0, Durations DEF Fields, Keys, Answers
    <2>3. QED
        BY <1>1, <2>1, <2>2 DEF Written
<1>l. /\ last' \in Answers /\ last'[i] = refresher.answer[i]
      /\ \A j \in Listed : j # i => last'[j] = last[j]
    BY <1>0, <1>1 DEF MetadataTypeOK, Fields, Answers
<1>w. \A j \in Listed : ~Writing(j)' /\ (Writing(j) <=> j = i)
    BY <1>1 DEF Writing, At
<1>2. MetadataTypeOK'
    BY <1>0, <1>1, <1>k, <1>l DEF MetadataTypeOK, Refreshers, Places, Keys
<1>3. PhasesOK' /\ TickerOK'
    BY <1>0, <1>1 DEF IInv, Fields, PhasesOK, TickerOK
<1>5. LeftOutOK'
    BY <1>0, <1>1, <1>l DEF IInv, LeftOutOK, Kept
<1>6. AgesOK'
    <2>1. SUFFICES ASSUME NEW j \in Listed, keys'[j].left > 0
                   PROVE  keys'[j].age + keys'[j].left <= timeToLive + MaxRefresh
        BY DEF AgesOK
    <2>2. CASE j = i
        BY <1>0, <1>k, <2>2, Durations DEF Fields
    <2>3. CASE j # i
        BY <1>k, <2>1, <2>3 DEF IInv, AgesOK
    <2>4. QED
        BY <2>2, <2>3
<1>7. LogOK' /\ WriteOK'
    BY <1>1, <1>l, <1>w DEF IInv, LogOK, WriteOK
<1>8. LogAccountsForKeys'
    BY <1>1, <1>k, <1>w DEF IInv, LogAccountsForKeys
<1>9. SlackOK'
    <2>1. SUFFICES ASSUME NEW n \in 1..Len(Instruments), Kept(Instruments[n])'
                   PROVE  keys'[Instruments[n]].left >= Left(n)'
        BY <1>1 DEF SlackOK
    <2>2. CASE n = refresher.todo
        <3>1. keys'[Instruments[n]].left = timeToLive
            BY <1>1, <1>k, <2>2
        <3>2. CASE refresher.first
            BY <1>0, <1>1, <3>1, <3>2, Durations DEF Left, Fields
        <3>3. CASE ~refresher.first
            <4>1. Left(n)' = ticker.due + Interval - MaxRefresh
                BY <1>0, <1>1, <2>2, <3>3 DEF Left, Fields
            <4>2. ticker.due \in Nat /\ ticker.due <= Interval
                BY <1>0 DEF Fields
            <4>3. QED
                BY <3>1, <4>1, <4>2, Durations
        <3>4. QED
            BY <3>2, <3>3
    <2>3. CASE n # refresher.todo
        <3>1. Instruments[n] # i /\ Instruments[n] \in Listed
            BY <1>0, <1>1, <2>3, InstrumentFacts DEF Fields
        <3>2. Kept(Instruments[n]) /\ keys'[Instruments[n]] = keys[Instruments[n]]
            BY <1>1, <1>k, <1>l, <2>1, <3>1 DEF Kept
        <3>3. keys[Instruments[n]].left >= Left(n)
            BY <1>1, <3>2 DEF IInv, SlackOK
        <3>4. Left(n)' = Left(n)
            BY <1>0, <1>1, <2>3 DEF Left, Fields
        <3>5. QED
            BY <3>2, <3>3, <3>4
    <2>4. QED
        BY <2>2, <2>3
<1>10. QED
    BY <1>2, <1>3, <1>5, <1>6, <1>7, <1>8, <1>9 DEF IInv

\* A write that came back as an error.
LEMMA PublishFailsKeeps ==
    ASSUME IInv, NEW i \in Listed, publishFails(i), UNCHANGED cancelled
    PROVE  IInv'
<1>0. Fields /\ MetadataTypeOK
    BY TypeFields DEF IInv
<1>1. /\ refresher'.at \in {"returned", "backoff", "idle"} /\ refresher'.first = refresher.first
      /\ refresher'.todo = 1 /\ refresher'.answer = Nothing /\ refresher'.busy = 0 /\ refresher'.age = 0
      /\ refresher' \in Refreshers
      /\ refresher.first => refresher'.at # "idle"
      /\ ~refresher.first => refresher'.at = "idle"
      /\ missed' = missed \cup {j \in Listed : last[j] # None}
      /\ told' \in {told, "unavailable"} /\ UNCHANGED <<ticker, last, ready, cancelled>>
      /\ refresher.at = "write" /\ i = Instruments[refresher.todo]
      /\ record' = [record EXCEPT ![i] = None] /\ keys' \in {keys, Written(i)}
    BY <1>0, LeavingFields DEF publishFails, Writing, Failed, Goto, At, Places, Fields
<1>k. /\ \A j \in Listed : j # i => keys'[j] = keys[j]
      /\ \/ keys'[i] = keys[i]
         \/ keys'[i].left = timeToLive /\ keys'[i].age = refresher.age
      /\ keys' \in [Listed -> Keys]
    <2>1. keys \in [Listed -> Keys]
        BY <1>0 DEF MetadataTypeOK, Keys
    <2>2. [value |-> refresher.answer[i], left |-> timeToLive, age |-> refresher.age] \in Keys
        BY <1>0, Durations DEF Fields, Keys, Answers
    <2>3. CASE keys' = keys
        BY <2>1, <2>3
    <2>4. CASE keys' = Written(i)
        BY <2>1, <2>2, <2>4 DEF Written
    <2>5. QED
        BY <1>1, <2>3, <2>4
<1>l. /\ record' \in Answers /\ record'[i] = None /\ \A j \in Listed : j # i => record'[j] = record[j]
    BY <1>0, <1>1 DEF MetadataTypeOK, Answers
<1>2. MetadataTypeOK'
    BY <1>0, <1>1, <1>k, <1>l DEF MetadataTypeOK, Refreshers, Places, Keys
<1>3. PhasesOK'
    BY <1>0, <1>1, Durations DEF IInv, Fields, PhasesOK
<1>4. TickerOK'
    <2>1. SUFFICES ASSUME ~refresher.first
                   PROVE  ticker.due >= 1 /\ (ticker.pending => ticker.due = Interval)
        BY <1>1 DEF TickerOK
    <2>2. ~ticker.pending /\ ticker.due = Interval - refresher.busy
        BY <1>1, <2>1 DEF IInv, TickerOK
    <2>3. refresher.busy \in Nat /\ refresher.busy <= MaxRefresh
        BY <1>0 DEF Fields
    <2>4. QED
        BY <2>2, <2>3, Durations
<1>5. LeftOutOK'
    BY <1>1 DEF LeftOutOK
<1>6. AgesOK'
    <2>1. SUFFICES ASSUME NEW j \in Listed, keys'[j].left > 0
                   PROVE  keys'[j].age + keys'[j].left <= timeToLive + MaxRefresh
        BY DEF AgesOK
    <2>2. CASE keys'[j] = keys[j]
        BY <2>1, <2>2 DEF IInv, AgesOK
    <2>3. CASE keys'[j].left = timeToLive /\ keys'[j].age = refresher.age
        BY <1>0, <2>3, Durations DEF Fields
    <2>4. QED
        BY <1>k, <2>2, <2>3
<1>w. \A j \in Listed : ~Writing(j)' /\ (Writing(j) <=> j = i)
    BY <1>1 DEF Writing, At
<1>7. LogOK' /\ WriteOK'
    BY <1>1, <1>l, <1>w DEF IInv, LogOK, WriteOK
<1>8. LogAccountsForKeys'
    BY <1>k, <1>l, <1>w DEF IInv, LogAccountsForKeys
<1>9. SlackOK'
    <2>1. ASSUME NEW j \in Listed PROVE ~Kept(j)'
        BY <1>1 DEF Kept
    <2>2. QED
        BY <1>1, <2>1, InstrumentFacts DEF SlackOK
<1>10. QED
    BY <1>2, <1>3, <1>4, <1>5, <1>6, <1>7, <1>8, <1>9 DEF IInv

\* An age grows by one at most, and never past MaxAge.
LEMMA OlderFacts ==
    ASSUME NEW n \in Nat, n <= MaxAge
    PROVE  Older(n) \in 0..MaxAge /\ Older(n) <= n + 1
<1>1. QED
    BY Durations DEF Older

\* A tick of the clock.
LEMMA ClockKeeps ==
    ASSUME IInv, Clock, UNCHANGED cancelled
    PROVE  IInv'
<1>0. Fields /\ MetadataTypeOK
    BY TypeFields DEF IInv
<1>1. /\ refresher'.at = refresher.at /\ refresher'.first = refresher.first
      /\ refresher'.todo = refresher.todo /\ refresher'.answer = refresher.answer
      /\ refresher'.busy = (IF refresher.at \in {"fetch", "write"} THEN refresher.busy + 1 ELSE refresher.busy)
      /\ refresher'.age = (IF refresher.at = "write" THEN refresher.age + 1 ELSE refresher.age)
      /\ refresher.at \in {"fetch", "write"} => refresher.busy < MaxRefresh
      /\ refresher.at \notin {"start", "publish", "open"}
      /\ refresher.at = "idle" => ~ticker.pending
      /\ UNCHANGED <<last, ready, told, record, missed, cancelled>>
      /\ refresher' \in Refreshers
    <2>1. refresher \in Refreshers
        BY <1>0 DEF MetadataTypeOK, Refreshers, Places
    <2>2. /\ refresher.at \in {"fetch", "write"} => refresher.busy < MaxRefresh
          /\ refresher.at \notin {"start", "publish", "open"}
          /\ refresher.at = "idle" => ~ticker.pending
        BY DEF Clock, Waiting, At
    <2>3. refresher' = [refresher EXCEPT
                           !.busy = IF refresher.at \in {"fetch", "write"} THEN refresher.busy + 1 ELSE refresher.busy,
                           !.age = IF refresher.at = "write" THEN refresher.age + 1 ELSE refresher.age]
        BY DEF Clock, At
    <2>4. /\ refresher'.at = refresher.at /\ refresher'.first = refresher.first
          /\ refresher'.todo = refresher.todo /\ refresher'.answer = refresher.answer
          /\ refresher'.busy = (IF refresher.at \in {"fetch", "write"} THEN refresher.busy + 1 ELSE refresher.busy)
          /\ refresher'.age = (IF refresher.at = "write" THEN refresher.age + 1 ELSE refresher.age)
        BY <2>1, <2>3 DEF Refreshers
    <2>5. /\ (IF refresher.at \in {"fetch", "write"} THEN refresher.busy + 1 ELSE refresher.busy) \in 0..MaxRefresh
          /\ (IF refresher.at = "write" THEN refresher.age + 1 ELSE refresher.age) \in 0..MaxRefresh
        <3>1. /\ refresher.busy \in Nat /\ refresher.age \in Nat /\ refresher.busy <= MaxRefresh
              /\ refresher.age <= refresher.busy
            BY <1>0 DEF Fields, IInv, PhasesOK
        <3>2. refresher.at = "write" => refresher.busy < MaxRefresh
            BY <2>2
        <3>3. QED
            BY <2>2, <3>1, <3>2, Durations
    <2>6. refresher' \in Refreshers
        BY <2>1, <2>3, <2>5 DEF Refreshers
    <2>7. QED
        BY <2>2, <2>4, <2>6 DEF Clock
<1>k. /\ \A i \in Listed :
             /\ keys[i].left <= 1 => keys'[i].left = 0
             /\ keys[i].left > 1 => /\ keys'[i].left = keys[i].left - 1
                                    /\ keys'[i].age = Older(keys[i].age) /\ keys'[i].value = keys[i].value
      /\ keys' \in [Listed -> Keys]
    <2>1. keys \in [Listed -> Keys]
        BY <1>0 DEF MetadataTypeOK, Keys
    <2>2. ASSUME NEW i \in Listed, keys[i].left > 1
          PROVE  [keys[i] EXCEPT !.left = keys[i].left - 1, !.age = Older(keys[i].age)] \in Keys
        <3>1. keys[i] \in Keys
            BY <2>1
        <3>2. keys[i].left - 1 \in 0..timeToLive
            <4>1. keys[i].left \in Nat /\ keys[i].left <= timeToLive
                BY <1>0 DEF Fields
            <4>2. QED
                BY <2>2, <4>1, Durations
        <3>3. Older(keys[i].age) \in 0..MaxAge
            BY <1>0, OlderFacts DEF Fields
        <3>4. QED
            BY <3>1, <3>2, <3>3 DEF Keys
    <2>3. Absent \in Keys
        BY Durations DEF Absent, Keys
    <2>4. keys' = [i \in Listed |->
                      IF keys[i].left <= 1 THEN Absent
                      ELSE [keys[i] EXCEPT !.left = keys[i].left - 1, !.age = Older(keys[i].age)]]
        BY DEF Clock
    <2>5. ASSUME NEW i \in Listed
          PROVE  (IF keys[i].left <= 1 THEN Absent
                  ELSE [keys[i] EXCEPT !.left = keys[i].left - 1, !.age = Older(keys[i].age)]) \in Keys
        <3>1. keys[i].left \in Nat
            BY <1>0 DEF Fields
        <3>2. CASE keys[i].left <= 1
            BY <2>3, <3>1, <3>2
        <3>3. CASE keys[i].left > 1
            <4>1. ~(keys[i].left <= 1)
                BY <3>1, <3>3
            <4>2. QED
                BY <2>2, <3>3, <4>1
        <3>4. QED
            BY <3>1, <3>2, <3>3
    <2>6. keys' \in [Listed -> Keys]
        BY <2>4, <2>5
    <2>7. ASSUME NEW i \in Listed
          PROVE  /\ keys[i].left <= 1 => keys'[i].left = 0
                 /\ keys[i].left > 1 => /\ keys'[i].left = keys[i].left - 1
                                        /\ keys'[i].age = Older(keys[i].age) /\ keys'[i].value = keys[i].value
        <3>0. keys[i].left \in Nat
            BY <1>0 DEF Fields
        <3>1. CASE keys[i].left <= 1
            <4>1. keys'[i] = Absent
                BY <2>4, <3>0, <3>1
            <4>2. QED
                BY <3>0, <3>1, <4>1 DEF Absent
        <3>2. CASE keys[i].left > 1
            <4>1. keys'[i] = [keys[i] EXCEPT !.left = keys[i].left - 1, !.age = Older(keys[i].age)]
                <5>1. ~(keys[i].left <= 1)
                    BY <3>0, <3>2
                <5>2. QED
                    BY <2>4, <5>1
            <4>2. keys[i] \in Keys
                BY <2>1
            <4>3. QED
                BY <3>0, <3>2, <4>1, <4>2 DEF Keys
        <3>3. QED
            BY <3>0, <3>1, <3>2
    <2>8. QED
        BY <2>6, <2>7
<1>t. /\ ticker' \in [due : 0..Interval, pending : BOOLEAN]
      /\ ready /\ refresher.at # "returned" =>
             IF ticker.due > 1 THEN ticker'.due = ticker.due - 1 /\ ticker'.pending = ticker.pending
             ELSE ticker'.due = Interval /\ ticker'.pending = TRUE
    <2>1. ticker \in [due : 0..Interval, pending : BOOLEAN]
        BY <1>0 DEF MetadataTypeOK
    <2>2. CASE ready /\ refresher.at # "returned" /\ ticker.due > 1
        <3>1. ticker' = [ticker EXCEPT !.due = ticker.due - 1]
            BY <2>2 DEF Clock, At
        <3>2. ticker.due - 1 \in 0..Interval
            BY <2>1, <2>2, Durations
        <3>3. QED
            BY <2>1, <2>2, <3>1, <3>2
    <2>3. CASE ready /\ refresher.at # "returned" /\ ~(ticker.due > 1)
        <3>1. ticker' = [due |-> Interval, pending |-> TRUE]
            BY <2>3 DEF Clock, At
        <3>2. Interval \in 0..Interval
            BY Durations
        <3>3. QED
            BY <2>3, <3>1, <3>2
    <2>4. CASE ~(ready /\ refresher.at # "returned")
        BY <2>1, <2>4 DEF Clock, At
    <2>5. QED
        BY <2>2, <2>3, <2>4
<1>2. MetadataTypeOK'
    BY <1>0, <1>1, <1>k, <1>t DEF MetadataTypeOK, Refreshers, Places, Keys
<1>3. PhasesOK'
    BY <1>0, <1>1, Durations DEF IInv, Fields, PhasesOK
<1>4. TickerOK'
    <2>1. SUFFICES ASSUME ~refresher.first
                   PROVE  /\ refresher.at = "idle" => ticker'.due >= 1 /\ (ticker'.pending => ticker'.due = Interval)
                          /\ refresher.at \in {"fetch", "write"} =>
                                 ~ticker'.pending /\ ticker'.due = Interval - refresher'.busy
        BY <1>1 DEF TickerOK
    <2>2. ready /\ refresher.busy \in Nat /\ ticker.due \in Nat
        BY <1>0, <2>1 DEF IInv, PhasesOK, Fields
    <2>3. CASE refresher.at = "idle"
        BY <1>1, <1>t, <2>1, <2>2, <2>3, Durations DEF IInv, TickerOK
    <2>4. CASE refresher.at \in {"fetch", "write"}
        <3>1. ticker.due = Interval - refresher.busy /\ ~ticker.pending /\ refresher.busy < MaxRefresh
            BY <1>1, <2>1, <2>4 DEF IInv, TickerOK
        <3>2. ticker'.due = ticker.due - 1 /\ ticker'.pending = ticker.pending
            BY <1>t, <2>2, <2>4, <3>1, Durations
        <3>3. QED
            BY <1>1, <2>2, <2>4, <3>1, <3>2, Durations
    <2>5. QED
        BY <2>3, <2>4
<1>5. LeftOutOK'
    BY <1>1 DEF IInv, LeftOutOK, Kept
<1>6. AgesOK'
    <2>1. SUFFICES ASSUME NEW j \in Listed, keys'[j].left > 0
                   PROVE  keys'[j].age + keys'[j].left <= timeToLive + MaxRefresh
        BY DEF AgesOK
    <2>2. keys[j].left > 1
        BY <1>0, <1>k, <2>1 DEF Fields
    <2>3. keys[j].age + keys[j].left <= timeToLive + MaxRefresh
        BY <1>0, <2>2 DEF IInv, AgesOK, Fields
    <2>4. Older(keys[j].age) \in 0..MaxAge /\ Older(keys[j].age) <= keys[j].age + 1
        BY <1>0, OlderFacts DEF Fields
    <2>5. QED
        BY <1>0, <1>k, <2>2, <2>3, <2>4, Durations DEF Fields
<1>7. LogOK' /\ WriteOK'
    BY <1>1 DEF IInv, LogOK, WriteOK, Writing, At
<1>8. LogAccountsForKeys'
    BY <1>0, <1>1, <1>k DEF IInv, LogAccountsForKeys, Fields, Writing, At
<1>9. SlackOK'
    <2>1. SUFFICES ASSUME refresher.at # "returned", NEW n \in 1..Len(Instruments), Kept(Instruments[n])
                   PROVE  /\ refresher.first => refresher.at \in {"publish", "write", "open"}
                          /\ keys'[Instruments[n]].left >= Left(n)'
        BY <1>1 DEF SlackOK, Kept
    <2>2. /\ refresher.first => refresher.at = "write"
          /\ keys[Instruments[n]].left >= Left(n)
          /\ Instruments[n] \in Listed
          /\ keys[Instruments[n]].left \in Nat
        BY <1>0, <1>1, <2>1, InstrumentFacts DEF IInv, SlackOK, Fields
    <2>n. /\ refresher.busy \in Nat /\ refresher.busy <= MaxRefresh
          /\ ticker.due \in Nat /\ ticker.pending \in BOOLEAN /\ refresher.first \in BOOLEAN
          /\ refresher.todo \in Nat
        BY <1>0 DEF Fields
    <2>3. CASE refresher.first
        <3>0. /\ refresher'.busy = refresher.busy + 1 /\ refresher.busy < MaxRefresh
              /\ refresher'.first
            BY <1>1, <2>2, <2>3
        <3>1. keys[Instruments[n]].left >= timeToLive - refresher.busy
            BY <2>2, <2>3 DEF Left
        <3>2. keys[Instruments[n]].left > 1
            <4>1. \A left, busy \in Nat :
                      left >= timeToLive - busy /\ busy < MaxRefresh => left > 1
                BY Durations
            <4>2. QED
                BY <2>n, <2>2, <3>0, <3>1, <4>1
        <3>3. keys'[Instruments[n]].left = keys[Instruments[n]].left - 1
            BY <1>k, <2>2, <3>2
        <3>4. Left(n)' = timeToLive - refresher.busy - 1
            BY <2>n, <3>0, Durations DEF Left
        <3>5. QED
            <4>1. \A left, busy \in Nat :
                      left >= timeToLive - busy => left - 1 >= timeToLive - busy - 1
                BY Durations
            <4>2. QED
                BY <2>n, <2>2, <2>3, <3>1, <3>3, <3>4, <4>1
    <2>s. \A left, due \in Nat :
              /\ left >= due + Interval - MaxRefresh => left - 1 >= (due - 1) + Interval - MaxRefresh
              /\ left >= due - MaxRefresh => left - 1 >= (due - 1) - MaxRefresh
              /\ due = 1 /\ left >= due + Interval - MaxRefresh => left - 1 >= Interval - MaxRefresh
        BY Durations
    <2>4. CASE ~refresher.first
        <3>1. /\ ready /\ ticker.due > 1 => ticker'.due = ticker.due - 1 /\ ticker'.pending = ticker.pending
              /\ ready /\ ~(ticker.due > 1) => ticker'.due = Interval /\ ticker'.pending = TRUE
              /\ ready /\ ~ticker.pending
              /\ refresher.at \in {"idle", "fetch", "write"}
              /\ refresher.at \in {"fetch", "write"} => ticker.due > MaxRefresh + 1
              /\ ticker.due >= 1
            BY <2>n, <1>1, <1>t, <2>1, <2>4, Durations DEF IInv, PhasesOK, TickerOK
        <3>2. CASE refresher.at = "idle"
            <4>1. keys[Instruments[n]].left >= ticker.due + Interval - MaxRefresh
                BY <2>2, <2>4, <3>1, <3>2 DEF Left
            <4>2. keys'[Instruments[n]].left = keys[Instruments[n]].left - 1
                BY <2>n, <1>k, <2>2, <3>1, <4>1, Durations
            <4>3. CASE ticker.due > 1
                <5>1. ticker'.due = ticker.due - 1 /\ ~ticker'.pending
                    BY <3>1, <4>3
                <5>2. Left(n)' = ticker'.due + Interval - MaxRefresh
                    BY <1>1, <2>4, <3>2, <5>1 DEF Left
                <5>3. QED
                    BY <2>2, <2>4, <2>n, <2>s, <4>1, <4>2, <5>1, <5>2
            <4>4. CASE ~(ticker.due > 1)
                <5>1. ticker'.due = Interval /\ ticker'.pending /\ ticker.due = 1
                    BY <2>n, <3>1, <4>4
                <5>2. Left(n)' = ticker'.due - MaxRefresh
                    BY <1>1, <2>4, <3>2, <5>1 DEF Left
                <5>3. QED
                    BY <2>2, <2>4, <2>n, <2>s, <4>1, <4>2, <5>1, <5>2
            <4>5. QED
                BY <4>3, <4>4
        <3>3. CASE refresher.at \in {"fetch", "write"}
            <4>0. ticker'.due = ticker.due - 1 /\ ticker.due > MaxRefresh + 1
                BY <2>n, <3>1, <3>3, Durations
            <4>1. CASE refresher.at = "write" /\ n < refresher.todo
                <5>1. keys[Instruments[n]].left >= ticker.due + Interval - MaxRefresh
                    BY <2>2, <2>4, <4>1 DEF Left
                <5>2. Left(n)' = ticker'.due + Interval - MaxRefresh
                    BY <1>1, <2>4, <4>1 DEF Left
                <5>3. keys[Instruments[n]].left > 1
                    BY <2>2, <2>n, <4>0, <5>1, Durations
                <5>4. keys'[Instruments[n]].left = keys[Instruments[n]].left - 1
                    BY <1>k, <2>2, <5>3
                <5>5. QED
                    BY <2>2, <2>4, <2>n, <2>s, <4>0, <5>1, <5>2, <5>4
            <4>2. CASE ~(refresher.at = "write" /\ n < refresher.todo)
                <5>1. keys[Instruments[n]].left >= ticker.due - MaxRefresh
                    BY <2>2, <2>4, <3>3, <4>2 DEF Left
                <5>2. Left(n)' = ticker'.due - MaxRefresh
                    BY <1>1, <2>4, <3>3, <4>2 DEF Left
                <5>3. keys[Instruments[n]].left > 1
                    BY <2>2, <2>n, <4>0, <5>1, Durations
                <5>4. keys'[Instruments[n]].left = keys[Instruments[n]].left - 1
                    BY <1>k, <2>2, <5>3
                <5>5. QED
                    BY <2>2, <2>4, <2>n, <2>s, <4>0, <5>1, <5>2, <5>4
            <4>3. QED
                BY <4>1, <4>2
        <3>4. QED
            BY <3>1, <3>2, <3>3
    <2>5. QED
        BY <2>n, <2>3, <2>4
<1>10. QED
    BY <1>2, <1>3, <1>4, <1>5, <1>6, <1>7, <1>8, <1>9 DEF IInv

\* The goroutine starts.
LEMMA StartKeeps ==
    ASSUME IInv, refresher.at = "off", Start,
           UNCHANGED <<ticker, last, ready, told, keys, record, missed, cancelled>>
    PROVE  IInv'
<1>0. Fields /\ MetadataTypeOK
    BY TypeFields DEF IInv
<1>1. /\ refresher'.at = "start" /\ refresher'.first = refresher.first
      /\ refresher'.todo = refresher.todo /\ refresher'.answer = refresher.answer
      /\ refresher'.busy = refresher.busy /\ refresher'.age = refresher.age
      /\ refresher' \in Refreshers
    BY <1>0 DEF Start, MetadataTypeOK, Refreshers, Places
<1>2. MetadataTypeOK'
    BY <1>0, <1>1 DEF MetadataTypeOK, Refreshers, Places
<1>3. PhasesOK'
    BY <1>0, <1>1, Durations, InstrumentFacts, NothingFacts DEF IInv, Fields, PhasesOK
<1>4. TickerOK'
    BY <1>0, <1>1, Durations, InstrumentFacts, NothingFacts DEF IInv, Fields, PhasesOK, TickerOK
<1>5. LeftOutOK'
    BY <1>0, <1>1, Durations, InstrumentFacts, NothingFacts DEF IInv, Fields, LeftOutOK, Kept, PhasesOK
<1>6. AgesOK'
    BY <1>0, <1>1, Durations, InstrumentFacts, NothingFacts DEF IInv, Fields, AgesOK
<1>7. LogOK' /\ WriteOK'
    BY <1>0, <1>1 DEF IInv, LogOK, WriteOK, Writing, At
<1>8. LogAccountsForKeys'
    BY <1>0, <1>1 DEF IInv, LogAccountsForKeys, Writing, At
<1>9. SlackOK'
    BY <1>0, <1>1, Durations, InstrumentFacts, NothingFacts DEF IInv, Fields, SlackOK, Left, Kept, PhasesOK, TickerOK
<1>10. QED
    BY <1>2, <1>3, <1>4, <1>5, <1>6, <1>7, <1>8, <1>9 DEF IInv

\* The invariant is kept by every step.
LEMMA StepKeeps == ASSUME IInv, [MetadataNext]_<<metadataVars, cancelled>> PROVE IInv'
<1>1. CASE Run /\ UNCHANGED cancelled
    BY <1>1, BeginKeeps, FetchFailsKeeps, SleptKeeps, RefreshedKeeps, OpenGateKeeps, IdleKeeps,
       FetchedKeeps, SkipKeeps, LogChangesKeeps, PublishKeeps, PublishFailsKeeps
    DEF Run
<1>2. CASE Clock /\ UNCHANGED cancelled
    BY <1>2, ClockKeeps
<1>3. CASE At("off") /\ Start /\ UNCHANGED <<ticker, last, ready, told, keys, record, missed, cancelled>>
    BY <1>3, StartKeeps DEF At
<1>4. CASE UNCHANGED metadataVars /\ cancelled' \in {cancelled, TRUE}
    BY <1>4 DEF metadataVars, IInv, MetadataTypeOK, PhasesOK, TickerOK, SlackOK, Left, Kept, LeftOutOK,
                AgesOK, LogOK, WriteOK, Writing, At, LogAccountsForKeys
<1>5. QED
    BY <1>1, <1>2, <1>3, <1>4 DEF MetadataNext

\* New makes it true.
LEMMA InitKeeps == ASSUME MetadataInit, cancelled = FALSE PROVE IInv
<1>1. /\ refresher.at = "off" /\ refresher.first = TRUE /\ refresher.todo = 1
      /\ refresher.answer = Nothing /\ refresher.busy = 0 /\ refresher.age = 0
      /\ last = Nothing /\ record = Nothing /\ ready = FALSE /\ missed = {}
      /\ \A i \in Listed : keys[i].left = 0
    BY DEF MetadataInit, NewRefresher, Nothing, Absent
<1>2. MetadataTypeOK
    <2>1. refresher \in Refreshers
        BY InstrumentFacts, Durations, NothingFacts DEF MetadataInit, NewRefresher, Nothing, Refreshers, Places
    <2>2. keys \in [Listed -> Keys]
        BY Durations DEF MetadataInit, Absent, Keys
    <2>3. ticker \in [due : 0..Interval, pending : BOOLEAN]
        BY Durations DEF MetadataInit
    <2>4. QED
        BY <1>1, <2>1, <2>2, <2>3, NothingFacts DEF MetadataInit, MetadataTypeOK, Refreshers, Places, Keys
<1>3. PhasesOK /\ TickerOK /\ LeftOutOK /\ AgesOK
    BY <1>1, Durations DEF PhasesOK, TickerOK, LeftOutOK, AgesOK
<1>4. SlackOK /\ LogOK /\ WriteOK /\ LogAccountsForKeys
    BY <1>1, NothingFacts, InstrumentFacts DEF SlackOK, Kept, LogOK, WriteOK, LogAccountsForKeys
<1>5. QED
    BY <1>2, <1>3, <1>4 DEF IInv

\* The invariant holds throughout.
LEMMA Invariance == MetadataSpec => []IInv
<1>1. RefresherInit => IInv
    BY InitKeeps DEF RefresherInit
<1>2. IInv /\ [MetadataNext]_<<metadataVars, cancelled>> => IInv'
    BY StepKeeps
<1>3. QED
    BY <1>1, <1>2, PTL DEF MetadataSpec

-----------------------------------------------------------------------------
\* The refresher's state keeps its types.
THEOREM TypeCorrect == MetadataSpec => []MetadataTypeOK
<1>1. IInv => MetadataTypeOK
    BY DEF IInv
<1>2. QED
    BY Invariance, <1>1, PTL

\* No definition in Redis is older than the TTL and one refresh: a refresh that
\* fails half way, or writes what it should not have remembered, adds nothing.
THEOREM FreshnessStaysHonest == MetadataSpec => []FreshnessHonest
<1>1. IInv => FreshnessHonest
    <2>1. SUFFICES ASSUME IInv, NEW i \in Listed, keys[i].left > 0
                   PROVE  keys[i].age <= timeToLive + MaxRefresh
        BY DEF FreshnessHonest
    <2>2. Fields
        BY <2>1, TypeFields DEF IInv
    <2>3. QED
        BY <2>1, <2>2, Durations DEF IInv, AgesOK, Fields
<1>2. QED
    BY Invariance, <1>1, PTL

\* What a key has left covers the way to the next refresh.
LEMMA SlackKeeps == IInv => KeptWhileRefreshed
<1>1. SUFFICES ASSUME IInv, refresher.at # "returned", NEW i \in Listed, Kept(i)
               PROVE  keys[i].left > 0
    BY DEF KeptWhileRefreshed, Kept
<1>2. Fields
    BY <1>1, TypeFields DEF IInv
<1>3. PICK n \in 1..Len(Instruments) : i = Instruments[n]
    BY InstrumentFacts
<1>4. keys[i].left >= Left(n) /\ (refresher.first => refresher.at \in {"publish", "write", "open"})
    BY <1>1, <1>3 DEF IInv, SlackOK
<1>n. /\ refresher.busy \in Nat /\ refresher.busy <= MaxRefresh /\ ticker.due \in Nat
      /\ ticker.pending \in BOOLEAN /\ refresher.first \in BOOLEAN /\ keys[i].left \in Nat
    BY <1>2 DEF Fields
<1>5. CASE refresher.first
    <2>1. Left(n) = timeToLive - refresher.busy
        BY <1>5 DEF Left
    <2>2. QED
        BY <1>4, <1>n, <2>1, Durations
<1>6. CASE ~refresher.first
    <2>1. /\ refresher.at \in {"idle", "fetch", "publish", "write"}
          /\ refresher.at = "idle" => ticker.due >= 1 /\ (ticker.pending => ticker.due = Interval)
          /\ refresher.at \in {"fetch", "publish", "write"} => ticker.due = Interval - refresher.busy
        BY <1>1, <1>6 DEF IInv, PhasesOK, TickerOK
    <2>2. Left(n) = ticker.due + Interval - MaxRefresh \/ Left(n) = ticker.due - MaxRefresh
        BY <1>6 DEF Left
    <2>3. refresher.at = "idle" /\ ~ticker.pending => Left(n) = ticker.due + Interval - MaxRefresh
        BY <1>6 DEF Left
    <2>4. CASE refresher.at = "idle" /\ ~ticker.pending
        BY <1>4, <1>n, <2>1, <2>3, <2>4, Durations
    <2>5. CASE ~(refresher.at = "idle" /\ ~ticker.pending)
        <3>1. ticker.due > MaxRefresh
            BY <1>n, <2>1, <2>5, Durations
        <3>2. CASE Left(n) = ticker.due + Interval - MaxRefresh
            BY <1>4, <1>n, <3>1, <3>2, Durations
        <3>3. CASE Left(n) = ticker.due - MaxRefresh
            BY <1>4, <1>n, <3>1, <3>3, Durations
        <3>4. QED
            BY <2>2, <3>2, <3>3
    <2>6. QED
        BY <2>4, <2>5
<1>7. QED
    BY <1>5, <1>6, <1>n

\* A running refresher loses no key of an instrument that its refreshes wrote,
\* for every interval and however long a refresh takes below half of it.
THEOREM KeysKept == MetadataSpec => []KeptWhileRefreshed
<1>1. IInv => KeptWhileRefreshed
    BY SlackKeeps
<1>2. QED
    BY Invariance, <1>1, PTL

\* The change log accounts for every change of every key, writes that errored
\* apart, for any number of instruments and of definitions.
THEOREM LogStaysComplete == MetadataSpec => []LogAccountsForKeys
<1>1. IInv => LogAccountsForKeys
    BY DEF IInv
<1>2. QED
    BY Invariance, <1>1, PTL

-----------------------------------------------------------------------------
(***************************************************************************)
(* The process around it, killed and started again                         *)
(***************************************************************************)

\* The tracker was told before the gate opens, and nothing is told afterwards.
ToldOK == At("open") \/ ready => told = "ok"

\* The refresh under way has written what it was answered, as far as it came.
WrittenOK ==
    /\ At("publish") \/ At("write") =>
         \A n \in 1..Len(Instruments) :
             n < refresher.todo /\ refresher.answer[Instruments[n]] # None
                => last[Instruments[n]] = refresher.answer[Instruments[n]]
    /\ At("open") => \A i \in Listed : refresher.answer[i] # None => last[i] = refresher.answer[i]

\* The streams were started by a gate that saw the metadata.
GateOK == Required /\ routines["process"] # "none" => ready

\* Nothing runs before start, and nothing is open that this stage did not open.
StagesOK ==
    /\ main \in {"plan", "dial", "admin", "start"} => routines = NoRoutines /\ refresher.at = "off"
    /\ main \in {"plan", "dial"} => redis = "none"
    /\ main \in {"plan", "dial", "admin"} => server = "none"
    /\ main \in {"drain", "close", "returned"} => server # "open"
    /\ main = "returned" => redis # "open"

\* The producers have drained, or were counted.
DrainOK ==
    /\ main \in {"close", "returned"} => Drained \/ leaks > 0
    /\ main \notin {"close", "returned"} => leaks = 0

FeedTypes ==
    /\ main \in {"plan", "dial", "admin", "start", "running", "http", "drain", "close", "returned"}
    /\ redis \in {"none", "open", "closed"} /\ server \in {"none", "open", "closed"}
    /\ routines \in [DOMAIN NoRoutines -> {"none", "running", "returned"}]
    /\ deadline \in {"unset", "running", "passed"}
    /\ leaks \in 0..1 /\ kills \in 0..MaxKills

\* The refresher's part, the process's part, and the two together.
RefresherInv == IInv /\ ToldOK /\ WrittenOK

ProcessInv == FeedTypes /\ StagesOK /\ DrainOK

FInv == RefresherInv /\ ProcessInv /\ GateOK

-----------------------------------------------------------------------------
\* The goroutines the process may launch.
LEMMA RoutineNames == DOMAIN NoRoutines = {"tracker", "gate", "watcher", "process"}
<1>1. QED
    BY DEF NoRoutines

\* What a step of the refresher does to told, ready and the places.
LEMMA RunKeeps ==
    ASSUME RefresherInv, Run, UNCHANGED cancelled
    PROVE  RefresherInv' /\ (ready => ready') /\ refresher.at \notin {"off", "returned"}
<1>0. Fields /\ MetadataTypeOK /\ PhasesOK
    BY TypeFields DEF RefresherInv, IInv
<1>1. IInv'
    BY StepKeeps DEF RefresherInv, MetadataNext
<1>2. CASE begin
    <2>1. refresher.at = "start" /\ refresher'.at \in {"returned", "fetch"} /\ ready' = ready
        BY <1>0, <1>2, LeavingFields DEF begin, BeginOrReturn, Goto, At, Places
    <2>2. ~ready
        BY <1>0, <2>1 DEF PhasesOK, Fields
    <2>3. QED
        BY <1>1, <2>1, <2>2 DEF RefresherInv, ToldOK, WrittenOK, At
<1>3. CASE slept
    <2>1. refresher.at = "backoff" /\ refresher'.at \in {"returned", "fetch"} /\ ready' = ready /\ told' = told
        BY <1>0, <1>3, LeavingFields DEF slept, BeginOrReturn, Goto, At, Places
    <2>2. QED
        BY <1>1, <2>1 DEF RefresherInv, ToldOK, WrittenOK, At
<1>4. ASSUME Failed, UNCHANGED ready, refresher.at \in {"fetch", "write"} PROVE RefresherInv'
    <2>1. refresher'.at \in {"returned", "backoff", "idle"} /\ (~refresher.first => told' = told)
        BY <1>0, <1>4, LeavingFields DEF Failed, Goto, Places
    <2>2. ToldOK'
        BY <1>0, <1>4, <2>1 DEF RefresherInv, ToldOK, At, PhasesOK, Fields
    <2>3. QED
        BY <1>1, <2>1, <2>2 DEF RefresherInv, WrittenOK, At
<1>5. CASE fetchFails
    BY <1>4, <1>5 DEF fetchFails, At
<1>6. CASE refreshed
    <2>1. /\ refresher.at = "publish" /\ refresher.todo > Len(Instruments) /\ UNCHANGED <<last, ready>>
          /\ refresher'.answer = refresher.answer \/ refresher'.at \notin {"publish", "write", "open"}
          /\ refresher'.at \notin {"publish", "write"}
          /\ \/ told' = "ok"
             \/ refresher'.at # "open" /\ told' = told
        BY <1>0, <1>6, LeavingFields DEF refreshed, Goto, At, Places, MetadataTypeOK
    <2>2. ToldOK'
        BY <2>1 DEF RefresherInv, ToldOK, At
    <2>3. ASSUME refresher'.at = "open", NEW i \in Listed, refresher'.answer[i] # None
          PROVE  last'[i] = refresher'.answer[i]
        <3>1. PICK n \in 1..Len(Instruments) : i = Instruments[n]
            BY InstrumentFacts
        <3>2. refresher.todo \in Nat /\ Len(Instruments) \in Nat
            BY <1>0, InstrumentFacts DEF Fields
        <3>3. n < refresher.todo
            BY <2>1, <3>1, <3>2
        <3>4. QED
            BY <2>1, <2>3, <3>1, <3>3 DEF RefresherInv, WrittenOK, At
    <2>4. QED
        BY <1>1, <2>1, <2>2, <2>3 DEF RefresherInv, WrittenOK, At
<1>7. CASE openGate
    <2>1. refresher.at = "open" /\ refresher'.at = "idle" /\ ready' = TRUE /\ told' = told
        BY <1>0, <1>7, LeavingFields DEF openGate, At, Places, Leaving
    <2>2. QED
        BY <1>1, <2>1 DEF RefresherInv, ToldOK, WrittenOK, At
<1>8. CASE idle
    <2>1. refresher.at = "idle" /\ refresher'.at \in {"returned", "fetch"} /\ ready' = ready /\ told' = told
        BY <1>0, <1>8, LeavingFields DEF idle, Goto, At, Places
    <2>2. QED
        BY <1>1, <2>1 DEF RefresherInv, ToldOK, WrittenOK, At
<1>9. ASSUME NEW answer \in Answers, fetched(answer)
      PROVE  RefresherInv' /\ (ready => ready') /\ refresher.at \notin {"off", "returned"}
    <2>1. /\ refresher.at = "fetch" /\ refresher'.at = "publish" /\ refresher'.todo = 1
          /\ ready' = ready /\ told' = told
        BY <1>0, <1>9 DEF fetched, At, MetadataTypeOK
    <2>2. QED
        BY <1>1, <2>1 DEF RefresherInv, ToldOK, WrittenOK, At
<1>10. ASSUME NEW i \in Listed, skip(i)
       PROVE  RefresherInv' /\ (ready => ready') /\ refresher.at \notin {"off", "returned"}
    <2>1. /\ refresher.at = "publish" /\ refresher'.at = "publish" /\ refresher'.todo = refresher.todo + 1
          /\ refresher'.answer = refresher.answer /\ refresher.answer[i] = None
          /\ i = Instruments[refresher.todo] /\ UNCHANGED <<ready, told, last>>
        BY <1>0, <1>10 DEF skip, Publishing, At, MetadataTypeOK
    <2>2. refresher.todo \in Nat
        BY <1>0, InstrumentFacts DEF Fields
    <2>3. ASSUME NEW n \in 1..Len(Instruments), n < refresher.todo + 1
          PROVE  n < refresher.todo \/ n = refresher.todo
        BY <2>2, <2>3, InstrumentFacts
    <2>4. WrittenOK'
        BY <2>1, <2>3 DEF RefresherInv, WrittenOK, At
    <2>5. QED
        BY <1>1, <2>1, <2>4 DEF RefresherInv, ToldOK, At
<1>17. ASSUME NEW i \in Listed, logChanges(i)
       PROVE  RefresherInv' /\ (ready => ready') /\ refresher.at \notin {"off", "returned"}
    <2>1. /\ refresher.at = "publish" /\ refresher'.at = "write" /\ refresher'.todo = refresher.todo
          /\ refresher'.answer = refresher.answer /\ UNCHANGED <<last, ready, told>>
        BY <1>0, <1>17 DEF logChanges, Publishing, At, MetadataTypeOK
    <2>2. QED
        BY <1>1, <2>1 DEF RefresherInv, ToldOK, WrittenOK, At
<1>11. ASSUME NEW i \in Listed, publish(i)
       PROVE  RefresherInv' /\ (ready => ready') /\ refresher.at \notin {"off", "returned"}
    <2>1. /\ refresher.at = "write" /\ refresher'.at = "publish" /\ refresher'.todo = refresher.todo + 1
          /\ refresher'.answer = refresher.answer /\ i = Instruments[refresher.todo]
          /\ refresher.todo <= Len(Instruments) /\ UNCHANGED <<ready, told>>
          /\ last' = [last EXCEPT ![i] = refresher.answer[i]]
        <3>1. Writing(i) /\ refresher.at = "write"
            BY <1>11 DEF publish, Writing, At
        <3>2. refresher.todo <= Len(Instruments)
            BY <3>1 DEF RefresherInv, IInv, WriteOK
        <3>3. QED
            BY <1>0, <1>11, <3>1, <3>2 DEF publish, Onward, Writing, MetadataTypeOK
    <2>2. refresher.todo \in Nat /\ refresher.todo \in 1..Len(Instruments)
        BY <1>0, <2>1, InstrumentFacts DEF Fields
    <2>3. ASSUME NEW n \in 1..Len(Instruments), n < refresher.todo + 1
          PROVE  n < refresher.todo \/ n = refresher.todo
        BY <2>2, <2>3, InstrumentFacts
    <2>4. /\ last'[i] = refresher.answer[i]
          /\ \A j \in Listed : j # i => last'[j] = last[j]
        BY <1>0, <2>1 DEF MetadataTypeOK, Answers
    <2>5. ASSUME NEW n \in 1..Len(Instruments), n < refresher.todo
          PROVE  Instruments[n] # i /\ Instruments[n] \in Listed
        <3>1. n # refresher.todo
            BY <2>2, <2>5
        <3>2. Instruments[n] # Instruments[refresher.todo]
            BY <2>2, <3>1, InstrumentFacts
        <3>3. QED
            BY <2>1, <3>2, InstrumentFacts
    <2>6. WrittenOK'
        BY <2>1, <2>3, <2>4, <2>5 DEF RefresherInv, WrittenOK, At
    <2>7. QED
        BY <1>1, <2>1, <2>6 DEF RefresherInv, ToldOK, At
<1>12. ASSUME NEW i \in Listed, publishFails(i)
       PROVE  RefresherInv' /\ (ready => ready') /\ refresher.at \notin {"off", "returned"}
    BY <1>4, <1>12 DEF publishFails, Writing, At
<1>13. fetchFails => ready' = ready /\ refresher.at = "fetch"
    BY DEF fetchFails, At
<1>14. refreshed => ready' = ready /\ refresher.at = "publish"
    BY DEF refreshed, At
<1>15. begin \/ slept \/ idle \/ openGate => (ready => ready') /\ refresher.at \in {"start", "backoff", "idle", "open"}
    BY DEF begin, slept, idle, openGate, At
<1>16. QED
    BY <1>2, <1>3, <1>5, <1>6, <1>7, <1>8, <1>9, <1>10, <1>11, <1>12, <1>13, <1>14, <1>15, <1>17 DEF Run

\* Nothing the process does by itself disturbs the refresher.
LEMMA QuietKeeps ==
    ASSUME RefresherInv, UNCHANGED metadataVars, cancelled' \in BOOLEAN
    PROVE  RefresherInv'
<1>1. QED
    BY DEF RefresherInv, ToldOK, WrittenOK, At, metadataVars, IInv, MetadataTypeOK, PhasesOK, TickerOK,
           SlackOK, Left, Kept, LeftOutOK, AgesOK, LogOK, WriteOK, Writing, At, LogAccountsForKeys

\* Time passes for the refresher and for the keys, and moves nothing else.
LEMMA TimeKeeps ==
    ASSUME FInv, Time
    PROVE  FInv'
<1>1. IInv'
    BY StepKeeps DEF FInv, RefresherInv, Time, MetadataNext
<1>2. /\ refresher'.at = refresher.at /\ refresher'.answer = refresher.answer
      /\ refresher'.todo = refresher.todo
      /\ UNCHANGED <<last, ready, told, feedVars>>
    BY DEF FInv, RefresherInv, IInv, MetadataTypeOK, Time, Clock
<1>3. RefresherInv'
    BY <1>1, <1>2 DEF FInv, RefresherInv, ToldOK, WrittenOK, At
<1>4. QED
    BY <1>2, <1>3 DEF FInv, ProcessInv, FeedTypes, StagesOK, DrainOK, Drained, GateOK, feedVars

\* The refresher moves only while the process has it running.
LEMMA RefresherKeeps ==
    ASSUME FInv, RefresherStep
    PROVE  FInv'
<1>1. Run /\ UNCHANGED cancelled /\ UNCHANGED feedVars
    BY DEF RefresherStep
<1>2. RefresherInv' /\ (ready => ready') /\ refresher.at \notin {"off", "returned"}
    BY <1>1, RunKeeps DEF FInv
<1>3. main \notin {"plan", "dial", "admin", "start"} /\ ~Drained
    BY <1>2 DEF FInv, ProcessInv, StagesOK, Drained
<1>4. ProcessInv'
    BY <1>1, <1>3 DEF FInv, ProcessInv, FeedTypes, StagesOK, DrainOK, feedVars
<1>5. QED
    BY <1>1, <1>2, <1>4 DEF FInv, GateOK, feedVars

\* main, up to the start of the producers and from the signal on.
LEMMA MainKeeps ==
    ASSUME FInv, MainStep
    PROVE  FInv'
<1>0. /\ RefresherInv /\ FeedTypes /\ StagesOK /\ DrainOK /\ GateOK
      /\ leaks \in 0..1 /\ cancelled \in BOOLEAN
    BY DEF FInv, ProcessInv, RefresherInv, IInv, MetadataTypeOK, FeedTypes
<1>1. CASE startProducers /\ main' = "running"
    <2>1. refresher.at = "off" /\ routines = NoRoutines
        BY <1>0, <1>1 DEF startProducers, StagesOK
    <2>2. /\ Start /\ UNCHANGED <<ticker, last, ready, told, keys, record, missed, cancelled>>
          /\ UNCHANGED <<redis, server, leaks, kills, deadline>> /\ main = "start"
          /\ routines' = [routines EXCEPT !["tracker"] = "running", !["gate"] = "running"]
        BY <1>1 DEF startProducers
    <2>3. IInv'
        BY <1>0, <2>1, <2>2, StartKeeps DEF RefresherInv
    <2>4. refresher'.at = "start"
        BY <1>0, <2>2 DEF Start, RefresherInv, IInv, MetadataTypeOK
    <2>5. RefresherInv'
        BY <1>0, <2>2, <2>3, <2>4 DEF RefresherInv, ToldOK, WrittenOK, At
    <2>6. /\ routines'["process"] = routines["process"]
          /\ routines' \in [DOMAIN NoRoutines -> {"none", "running", "returned"}]
        BY <1>0, <2>2, RoutineNames DEF FeedTypes
    <2>7. ProcessInv'
        BY <1>0, <1>1, <2>2, <2>6 DEF ProcessInv, FeedTypes, StagesOK, DrainOK
    <2>8. QED
        BY <1>0, <2>2, <2>5, <2>6, <2>7 DEF FInv, GateOK
<1>2. CASE ~(startProducers /\ main' = "running")
    <2>1. UNCHANGED <<routines, kills, cancelled, metadataVars>>
        BY <1>2 DEF MainStep, planProducers, dialRedis, serveAdmin, startProducers, signalled, httpShutdown,
                    drain, closeRedis, metadataVars
    <2>2. RefresherInv'
        BY <1>0, <2>1, QuietKeeps
    <2>3. Drained' <=> Drained
        BY <2>1 DEF Drained, metadataVars
    <2>4. GateOK'
        BY <1>0, <2>1 DEF GateOK, metadataVars
    <2>5. ProcessInv'
        <3>1. CASE planProducers
            BY <1>0, <2>1, <3>1, RoutineNames DEF planProducers, ProcessInv, FeedTypes, StagesOK, DrainOK, Drained,
                       metadataVars, NoRoutines
        <3>2. CASE dialRedis
            BY <1>0, <2>1, <3>2 DEF dialRedis, ProcessInv, FeedTypes, StagesOK, DrainOK, Drained,
                       metadataVars, NoRoutines
        <3>3. CASE serveAdmin
            BY <1>0, <2>1, <3>3 DEF serveAdmin, ProcessInv, FeedTypes, StagesOK, DrainOK, Drained,
                       metadataVars, NoRoutines
        <3>4. CASE startProducers
            BY <1>0, <1>2, <2>1, <3>4 DEF startProducers, ProcessInv, FeedTypes, StagesOK, DrainOK, metadataVars
        <3>5. CASE signalled
            BY <1>0, <2>1, <3>5 DEF signalled, ProcessInv, FeedTypes, StagesOK, DrainOK, metadataVars
        <3>6. CASE httpShutdown
            BY <1>0, <2>1, <3>6 DEF httpShutdown, ProcessInv, FeedTypes, StagesOK, DrainOK, metadataVars
        <3>7. CASE drain
            BY <1>0, <2>1, <2>3, <3>7 DEF drain, ProcessInv, FeedTypes, StagesOK, DrainOK, metadataVars
        <3>8. CASE closeRedis
            BY <1>0, <2>1, <2>3, <3>8 DEF closeRedis, ProcessInv, FeedTypes, StagesOK, DrainOK, metadataVars
        <3>9. QED
            BY <3>1, <3>2, <3>3, <3>4, <3>5, <3>6, <3>7, <3>8 DEF MainStep
    <2>6. QED
        BY <2>2, <2>4, <2>5 DEF FInv
<1>3. QED
    BY <1>1, <1>2

\* The gate and the producers that return.
LEMMA ProducersKeep ==
    ASSUME FInv, Alive, GateStep \/ Returns
    PROVE  FInv'
<1>0. /\ RefresherInv /\ FeedTypes /\ StagesOK /\ DrainOK /\ GateOK /\ cancelled \in BOOLEAN
    BY DEF FInv, ProcessInv, RefresherInv, IInv, MetadataTypeOK
<1>1. /\ UNCHANGED <<metadataVars, cancelled, main, redis, server, deadline, leaks, kills>>
      /\ \E r \in DOMAIN NoRoutines : routines[r] = "running"
      /\ routines' \in [DOMAIN NoRoutines -> {"none", "running", "returned"}]
      /\ \A r \in {"tracker", "gate"} : routines'[r] = "running" => routines[r] = "running"
      /\ routines'["process"] # "none" => routines["process"] # "none" \/ WaitReady
    <2>1. CASE gateOpens
        BY <1>0, <2>1, RoutineNames DEF gateOpens, FeedTypes
    <2>2. CASE gateGivesUp \/ gateReturns
        BY <1>0, <2>2, RoutineNames DEF gateGivesUp, gateReturns, Routine, FeedTypes
    <2>3. CASE Returns
        BY <1>0, <2>3, RoutineNames DEF Returns, ProducerReturns, Routine, FeedTypes
    <2>4. QED
        BY <2>1, <2>2, <2>3 DEF GateStep
<1>2. RefresherInv'
    BY <1>0, <1>1, QuietKeeps
<1>3. GateOK'
    BY <1>0, <1>1 DEF GateOK, WaitReady, metadataVars
<1>4. main \notin {"plan", "dial", "admin", "start"}
    BY <1>0, <1>1, RoutineNames DEF StagesOK, NoRoutines
<1>5. Drained => Drained'
    BY <1>1 DEF Drained, metadataVars
<1>6. ProcessInv'
    BY <1>0, <1>1, <1>4, <1>5 DEF ProcessInv, FeedTypes, StagesOK, DrainOK
<1>7. QED
    BY <1>2, <1>3, <1>6 DEF FInv

\* A killed process leaves the keys, and the refresher of the next one knows
\* nothing of them.
LEMMA KillKeeps ==
    ASSUME FInv, Kill
    PROVE  FInv'
<1>0. Fields /\ IInv /\ MetadataTypeOK
    BY TypeFields DEF FInv, RefresherInv, IInv
<1>1. /\ refresher'.at = "off" /\ refresher'.first = TRUE /\ refresher'.todo = 1
      /\ refresher'.answer = Nothing /\ refresher'.busy = 0 /\ refresher'.age = 0
      /\ last' = Nothing /\ ready' = FALSE /\ missed' = {} /\ told' = "nothing" /\ cancelled' = FALSE
      /\ keys' = keys /\ record' = Nothing
    BY DEF Kill, NewRefresher, Nothing
<1>2. MetadataTypeOK'
    <2>1. refresher' \in Refreshers
        BY InstrumentFacts, Durations, NothingFacts DEF Kill, NewRefresher, Nothing, Refreshers, Places
    <2>2. ticker' \in [due : 0..Interval, pending : BOOLEAN]
        BY Durations DEF Kill
    <2>3. QED
        BY <1>0, <1>1, <2>1, <2>2, NothingFacts DEF MetadataTypeOK, Refreshers, Places
<1>3. PhasesOK' /\ TickerOK' /\ LeftOutOK' /\ AgesOK'
    BY <1>0, <1>1, Durations DEF IInv, PhasesOK, TickerOK, LeftOutOK, AgesOK
<1>4. SlackOK' /\ LogOK' /\ WriteOK' /\ LogAccountsForKeys'
    BY <1>1, NothingFacts, InstrumentFacts DEF SlackOK, Kept, LogOK, WriteOK, LogAccountsForKeys
<1>5. RefresherInv'
    BY <1>1, <1>2, <1>3, <1>4 DEF RefresherInv, IInv, ToldOK, WrittenOK, At
<1>6. ProcessInv'
    <2>1. kills' \in 0..MaxKills
        BY FeedAssumption DEF Kill, FInv, ProcessInv, FeedTypes
    <2>2. NoRoutines \in [DOMAIN NoRoutines -> {"none", "running", "returned"}]
        BY RoutineNames DEF NoRoutines
    <2>3. QED
        BY <1>1, <2>1, <2>2 DEF Kill, ProcessInv, FeedTypes, StagesOK, DrainOK
<1>7. GateOK'
    BY DEF Kill, GateOK, NoRoutines
<1>8. QED
    BY <1>5, <1>6, <1>7 DEF FInv

\* The invariant is kept by every step of the process.
LEMMA FeedStepKeeps == ASSUME FInv, [Next]_vars PROVE FInv'
<1>0. cancelled \in BOOLEAN
    BY DEF FInv, RefresherInv, IInv, MetadataTypeOK
<1>1. CASE (Signal \/ DeadlinePasses) \/ UNCHANGED vars
    <2>1. /\ UNCHANGED <<metadataVars, main, redis, server, routines, leaks, kills>>
          /\ cancelled' \in BOOLEAN /\ deadline' \in {deadline, "passed"}
        BY <1>0, <1>1 DEF Signal, DeadlinePasses, vars, feedVars
    <2>2. RefresherInv'
        BY <2>1, QuietKeeps DEF FInv
    <2>3. QED
        BY <2>1, <2>2 DEF FInv, ProcessInv, FeedTypes, StagesOK, DrainOK, Drained, GateOK, metadataVars
<1>2. QED
    BY <1>1, MainKeeps, RefresherKeeps, TimeKeeps, KillKeeps, ProducersKeep DEF Next

\* A process that has not planned yet makes it true.
LEMMA FeedInitKeeps == ASSUME Init PROVE FInv
<1>1. IInv
    BY InitKeeps DEF Init
<1>2. refresher.at = "off" /\ ready = FALSE
    BY DEF Init, MetadataInit, NewRefresher
<1>3. RefresherInv
    BY <1>1, <1>2 DEF RefresherInv, ToldOK, WrittenOK, At
<1>4. NoRoutines \in [DOMAIN NoRoutines -> {"none", "running", "returned"}]
    BY RoutineNames DEF NoRoutines
<1>5. ProcessInv /\ GateOK
    BY <1>2, <1>4, FeedAssumption DEF Init, ProcessInv, FeedTypes, StagesOK, DrainOK, GateOK, NoRoutines
<1>6. QED
    BY <1>3, <1>5 DEF FInv

\* The invariant of the process holds throughout.
LEMMA FeedInvariance == Spec => []FInv
<1>1. Init => FInv
    BY FeedInitKeeps
<1>2. FInv /\ [Next]_vars => FInv'
    BY FeedStepKeeps
<1>3. QED
    BY <1>1, <1>2, PTL DEF Spec

-----------------------------------------------------------------------------
\* The process's state keeps its types, the refresher's in it.
THEOREM FeedTypeCorrect == Spec => []TypeOK
<1>1. FInv => TypeOK
    BY DEF FInv, RefresherInv, IInv, ProcessInv, FeedTypes, TypeOK
<1>2. QED
    BY FeedInvariance, <1>1, PTL

\* With startup_required nothing streams before this process has published its
\* metadata and said so, whatever a killed one left in Redis.
THEOREM NothingStreamsEarly == Spec => []NothingBeforeMetadata
<1>1. FInv => NothingBeforeMetadata
    BY DEF FInv, RefresherInv, ToldOK, WrittenOK, GateOK, NothingBeforeMetadata
<1>2. QED
    BY FeedInvariance, <1>1, PTL

\* run returns with its producers drained or counted, for every way a shutdown
\* can go.
THEOREM ReturnsDrainedOrCounted == Spec => []DrainedOrCounted
<1>1. FInv => DrainedOrCounted
    BY DEF FInv, ProcessInv, DrainOK, DrainedOrCounted
<1>2. QED
    BY FeedInvariance, <1>1, PTL

\* No way out of run leaves Redis or the admin port open.
THEOREM LeavesNothingOpen == Spec => []NothingLeftOpen
<1>1. FInv => NothingLeftOpen
    BY DEF FInv, ProcessInv, StagesOK, NothingLeftOpen
<1>2. QED
    BY FeedInvariance, <1>1, PTL

\* Kills and restarts do not make a definition in Redis look fresher than it is.
THEOREM FreshAcrossKills == Spec => []FreshnessHonest
<1>1. FInv => FreshnessHonest
    <2>1. SUFFICES ASSUME IInv, NEW i \in Listed, keys[i].left > 0
                   PROVE  keys[i].age <= timeToLive + MaxRefresh
        BY DEF FInv, RefresherInv, FreshnessHonest
    <2>2. keys[i].age \in Nat /\ keys[i].left \in Nat
        BY <2>1, TypeFields DEF IInv, Fields
    <2>3. keys[i].age + keys[i].left <= timeToLive + MaxRefresh
        BY <2>1 DEF IInv, AgesOK
    <2>4. QED
        BY <2>2, <2>3, Durations
<1>2. QED
    BY FeedInvariance, <1>1, PTL

\* Nor do they make a running refresher lose a key: a new one knows of none until it
\* has written it.
THEOREM KeptAcrossKills == Spec => []KeptWhileRefreshed
<1>1. FInv => KeptWhileRefreshed
    BY SlackKeeps DEF FInv, RefresherInv
<1>2. QED
    BY FeedInvariance, <1>1, PTL
=============================================================================
