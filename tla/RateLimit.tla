------------------------------- MODULE RateLimit -------------------------------
(***************************************************************************)
(* internal/ratelimit: the budget of one kind, kept as GCRA.  Goroutines   *)
(* (dials, fallback polls, metadata refreshes) ask for units of budget;    *)
(* one at a time, under the mutex, takes its slot by moving the            *)
(* theoretical arrival time, and then sleeps until the slot opens.  Kinds  *)
(* share nothing but the mutex.  The gauge and the advisory key in Redis,  *)
(* which report what is used, are outputs and are left out.                *)
(***************************************************************************)
EXTENDS Integers

CONSTANTS
    Callers,
    Published,      \* what the venue allows per Window
    Percent,        \* rate_limit.max_weight_fraction
    Window,
    Costs,          \* what a call may ask for
    Timeouts,       \* how far ahead a caller's deadline may be
    MaxNow,         \* bound on the clock
    MaxGrants       \* bound on the number of slots handed out

\* Bucket.Fraction: the share of the published limit this process uses.
Fraction == LET share == (Published * Percent) \div 100 IN IF share < 1 THEN 1 ELSE share

Capacity == Fraction

\* Bucket.interval: how long one unit takes to come back.  time.Duration division
\* rounds down, so a full bucket takes Window or a little less.
interval == Window \div Capacity
duration == interval * Capacity

\* What Bucket.Validate accepts.
ASSUME BucketAssumption ==
    /\ Published \in Nat \ {0} /\ Percent \in 1..100 /\ Window \in Nat \ {0}
    /\ interval > 0

ASSUME CallAssumption == Costs \subseteq Int /\ Timeouts \subseteq Nat

VARIABLES
    now,
    theoreticalArrivalTime,     \* 0 is the zero time.Time: nothing spent yet
    callers,                    \* [Callers -> where each is inside Allow]
    spent,                      \* history: budget taken so far, in units of time
    grants                      \* history: the slots handed out

vars == <<now, theoreticalArrivalTime, callers, spent, grants>>

-----------------------------------------------------------------------------
\* Where a caller stands; until is the wait that reserve answered, and then the
\* time the sleep ends.
Outside(result) == [at |-> "outside", cost |-> 0, deadline |-> 0, until |-> 0,
                    result |-> result]

\* Allow: the early returns, and the way in.  A deadline of 0 is none.  A call for
\* another venue or for a kind without a budget returns before it gets here.
Allow(c, cost, timeout) ==
    /\ callers[c].at = "outside"
    /\ \/ /\ cost <= 0
          /\ callers' = [callers EXCEPT ![c] = Outside("allowed")]
       \/ /\ cost > Capacity
          /\ callers' = [callers EXCEPT ![c] = Outside("refused")]
       \/ /\ cost \in 1..Capacity
          /\ callers' = [callers EXCEPT ![c] =
                [at |-> "reserve", cost |-> cost, until |-> 0, result |-> "",
                 deadline |-> IF timeout = 0 THEN 0 ELSE now + timeout]]
    /\ UNCHANGED <<now, theoreticalArrivalTime, spent, grants>>

\* Mutant: what was spent before is forgotten.
ArrivalNow == now

\* Where a reservation starts: the arrival time, or now when that has passed.
Arrival == IF theoreticalArrivalTime < now THEN now ELSE theoreticalArrivalTime

\* When the slot after next opens: a full bucket may be spent ahead of time.
Opens(next) == IF next - duration < now THEN now ELSE next - duration

\* reserve, under the mutex: refused, having changed nothing, when the slot opens
\* after the caller's deadline.
reserve(c) ==
    LET cost == interval * callers[c].cost
        next == Arrival + cost
        slot == Opens(next)
    IN  /\ callers[c].at = "reserve"
        /\ \/ /\ slot > now
              /\ callers[c].deadline # 0 /\ slot > callers[c].deadline
              /\ callers' = [callers EXCEPT ![c] = Outside("refused")]
              /\ UNCHANGED <<theoreticalArrivalTime, spent, grants>>
           \/ /\ slot > now => callers[c].deadline = 0 \/ slot <= callers[c].deadline
              /\ theoreticalArrivalTime' = next
              /\ callers' = [callers EXCEPT ![c].at = "granted", ![c].until = slot - now]
              /\ spent' = spent + cost
              /\ grants' = grants \cup {[slot |-> slot, before |-> spent,
                                         after |-> spent + cost]}
        /\ UNCHANGED now

\* Allow, after reserve and report: the wait starts now, however long report took.
sleep(c) ==
    /\ callers[c].at = "granted"
    /\ \/ /\ callers[c].until = 0
          /\ callers' = [callers EXCEPT ![c] = Outside("allowed")]
       \/ /\ callers[c].until > 0
          /\ callers' = [callers EXCEPT ![c].at = "sleep", ![c].until = now + @]
    /\ UNCHANGED <<now, theoreticalArrivalTime, spent, grants>>

\* The timer fires, or the context ends first and the slot stays spent.
wake(c) ==
    /\ callers[c].at = "sleep"
    /\ \/ /\ now >= callers[c].until
          /\ callers' = [callers EXCEPT ![c] = Outside("allowed")]
       \/ callers' = [callers EXCEPT ![c] = Outside("cancelled")]
    /\ UNCHANGED <<now, theoreticalArrivalTime, spent, grants>>

Tick ==
    /\ now < MaxNow
    /\ now' = now + 1
    /\ UNCHANGED <<theoreticalArrivalTime, callers, spent, grants>>

-----------------------------------------------------------------------------
Init ==
    /\ now = 1
    /\ theoreticalArrivalTime = 0
    /\ callers = [c \in Callers |-> Outside("")]
    /\ spent = 0
    /\ grants = {}

\* The bound on the slots is part of the way in.
Next ==
    \/ \E c \in Callers :
         \/ \E cost \in Costs, timeout \in Timeouts :
               spent < MaxGrants * interval /\ Allow(c, cost, timeout)
         \/ reserve(c) \/ sleep(c) \/ wake(c)
    \/ Tick

Spec == Init /\ [][Next]_vars

-----------------------------------------------------------------------------
(***************************************************************************)
(* Properties                                                              *)
(***************************************************************************)

Grants == [slot : Nat, before : Nat, after : Nat]

Spendable == {n \in Nat : n <= Capacity}

CallerStates ==
    [at : {"outside", "reserve", "granted", "sleep"}, cost : Spendable, deadline : Nat,
     until : Nat, result : {"", "allowed", "refused", "cancelled"}]

Clocks == now \in Nat /\ theoreticalArrivalTime \in Nat /\ spent \in Nat

\* Every variable holds what its Go type and the control flow allow: in
\* particular a wait is never negative.
TypeOK ==
    /\ Clocks
    /\ callers \in [Callers -> CallerStates]
    /\ grants \subseteq Grants

\* A burst cannot straddle a window boundary (local.go:41): between the opening
\* of any two slots, however many callers came between, the units handed out are
\* at most a full bucket and what came back meanwhile.  Slots of cancelled
\* callers count, since they stay spent.
BurstBound ==
    \A g, h \in grants :
        g.before < h.after => h.after - g.before <= duration + (h.slot - g.slot)

\* Slots open in the order they were taken, although the callers' clocks are
\* read at different times and their waits differ.
SlotsInOrder ==
    \A g, h \in grants : g.before < h.before => g.slot <= h.slot

=============================================================================
