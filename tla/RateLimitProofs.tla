---------------------------- MODULE RateLimitProofs ----------------------------
(***************************************************************************)
(* The limiter's bound, for every capacity, window, number of callers and  *)
(* pattern of calls: the one thing a limiter must never be wrong in.       *)
(***************************************************************************)
EXTENDS RateLimit, TLAPS

\* The bucket, its interval and its duration are natural numbers.
LEMMA BucketType == Capacity \in Nat /\ Capacity > 0 /\ interval \in Nat /\ duration \in Nat
<1>1. Published * Percent \in Nat
  BY BucketAssumption
<1>2. (Published * Percent) \div 100 \in Int
  BY <1>1
<1>3. Capacity \in Nat /\ Capacity > 0
  BY <1>2 DEF Capacity, Fraction
<1>4. interval \in Nat
  BY <1>3, BucketAssumption DEF interval
<1> QED BY <1>3, <1>4 DEF duration

\* No call costs more than a full bucket.
LEMMA CostBound ==
    ASSUME NEW cost \in Spendable
    PROVE  interval * cost \in Nat /\ interval * cost <= duration
<1>1. interval \in Nat /\ Capacity \in Nat /\ cost \in Nat /\ cost <= Capacity
  BY BucketType DEF Spendable
<1>2. \E rest \in Nat : Capacity = cost + rest
  BY <1>1
<1>3. PICK rest \in Nat : Capacity = cost + rest
  BY <1>2
<1>4. interval * Capacity = interval * cost + interval * rest
  BY <1>1, <1>3
<1>5. interval * cost \in Nat /\ interval * rest \in Nat
  BY <1>1, <1>3
<1> QED BY <1>4, <1>5 DEF duration

\* The arrival time is ahead of every slot by all that was spent since, and no
\* slot opens later than one taken now would.
Ahead ==
    \A g \in grants :
        /\ g.before <= g.after /\ g.after <= spent
        /\ g.slot + (spent - g.before) <= theoreticalArrivalTime
        /\ g.slot <= now \/ g.slot <= theoreticalArrivalTime - duration

Inv == TypeOK /\ Ahead /\ BurstBound /\ SlotsInOrder

\* What a call may cost is within the bucket.
LEMMA SpendableCosts == 0 \in Spendable /\ \A cost \in 1..Capacity : cost \in Spendable
<1>1. Capacity \in Nat
  BY BucketType
<1> QED BY <1>1 DEF Spendable

\* A caller outside Allow is well formed.
LEMMA OutsideOK ==
    ASSUME NEW result \in {"", "allowed", "refused", "cancelled"}
    PROVE  Outside(result) \in CallerStates
BY SpendableCosts DEF Outside, CallerStates

\* Taking a slot: the arithmetic of reserve.
LEMMA GrantStep ==
    ASSUME Inv, NEW cost \in Nat, cost <= duration, now' = now,
           theoreticalArrivalTime' = Arrival + cost,
           spent' = spent + cost,
           grants' = grants \cup {[slot |-> Opens(Arrival + cost), before |-> spent,
                                   after |-> spent + cost]}
    PROVE  Clocks' /\ grants' \subseteq Grants /\ Ahead' /\ BurstBound' /\ SlotsInOrder'
<1> DEFINE slot == Opens(Arrival + cost)
           new  == [slot |-> slot, before |-> spent, after |-> spent + cost]
<1>1. /\ now \in Nat /\ theoreticalArrivalTime \in Nat /\ spent \in Nat
      /\ duration \in Nat
  BY BucketType DEF Inv, TypeOK, Clocks
<1>2. /\ Arrival \in Nat /\ now <= Arrival /\ theoreticalArrivalTime <= Arrival
  BY <1>1 DEF Arrival
<1>3. /\ slot \in Nat /\ now <= slot /\ Arrival + cost - duration <= slot
      /\ slot + cost <= Arrival + cost
      /\ slot = now \/ slot = Arrival + cost - duration
  BY <1>1, <1>2 DEF Opens
<1>4. Clocks'
  BY <1>1, <1>2 DEF Clocks
<1>5. grants' = grants \cup {new}
  OBVIOUS
<1>6. new.slot = slot /\ new.before = spent /\ new.after = spent + cost
  OBVIOUS
<1>7. new \in Grants
  BY <1>1, <1>3 DEF Grants
<1> HIDE DEF slot, new
<1>8. grants' \subseteq Grants
  BY <1>5, <1>7 DEF Inv, TypeOK
<1>9. \A g \in grants : g.slot \in Nat /\ g.before \in Nat /\ g.after \in Nat
  BY DEF Inv, TypeOK, Grants
<1>10. Ahead'
  <2> SUFFICES ASSUME NEW g \in grants'
               PROVE  /\ g.before <= g.after /\ g.after <= spent'
                      /\ g.slot + (spent' - g.before) <= theoreticalArrivalTime'
                      /\ g.slot <= now' \/ g.slot <= theoreticalArrivalTime' - duration
    BY DEF Ahead
  <2>1. CASE g \in grants
    BY <1>1, <1>2, <1>9, <2>1 DEF Inv, Ahead
  <2>2. CASE g = new
    BY <1>1, <1>2, <1>3, <1>6, <2>2
  <2> QED BY <1>5, <2>1, <2>2
<1>11. BurstBound'
  <2> SUFFICES ASSUME NEW g \in grants', NEW h \in grants', g.before < h.after
               PROVE  h.after - g.before <= duration + (h.slot - g.slot)
    BY DEF BurstBound
  <2>1. CASE g \in grants /\ h \in grants
    BY <2>1 DEF Inv, BurstBound
  <2>2. CASE g \in grants /\ h = new
    BY <1>1, <1>2, <1>3, <1>6, <1>9, <2>2 DEF Inv, Ahead
  <2>3. CASE g = new /\ h \in grants
    BY <1>1, <1>6, <1>9, <2>3 DEF Inv, Ahead
  <2>4. CASE g = new /\ h = new
    BY <1>1, <1>3, <1>6, <2>4
  <2> QED BY <1>5, <2>1, <2>2, <2>3, <2>4
<1>12. SlotsInOrder'
  <2> SUFFICES ASSUME NEW g \in grants', NEW h \in grants', g.before < h.before
               PROVE  g.slot <= h.slot
    BY DEF SlotsInOrder
  <2>1. CASE g \in grants /\ h \in grants
    BY <2>1 DEF Inv, SlotsInOrder
  <2>2. CASE g \in grants /\ h = new
    BY <1>1, <1>2, <1>3, <1>6, <1>9, <2>2 DEF Inv, Ahead
  <2>3. CASE g = new
    BY <1>1, <1>5, <1>6, <1>9, <2>3 DEF Inv, Ahead
  <2> QED BY <1>5, <2>1, <2>2, <2>3
<1> QED BY <1>4, <1>8, <1>10, <1>11, <1>12

\* A step that hands out no slot.
LEMMA NoGrant ==
    ASSUME Inv, now' \in Nat, now <= now', callers' \in [Callers -> CallerStates],
           UNCHANGED <<theoreticalArrivalTime, spent, grants>>
    PROVE  Inv'
<1>1. TypeOK'
  BY DEF Inv, TypeOK, Clocks
<1>2. \A g \in grants : g.slot \in Nat
  BY DEF Inv, TypeOK, Grants
<1>3. Ahead'
  BY <1>2 DEF Inv, TypeOK, Clocks, Ahead
<1>4. BurstBound' /\ SlotsInOrder'
  BY DEF Inv, BurstBound, SlotsInOrder
<1> QED BY <1>1, <1>3, <1>4 DEF Inv

\* Every step keeps the invariant, a grant included (LocalLimiter.reserve).
LEMMA InvStep ==
    ASSUME Inv, [Next]_vars
    PROVE  Inv'
<1>1. now \in Nat /\ callers \in [Callers -> CallerStates]
  BY DEF Inv, TypeOK, Clocks
<1>0. Capacity \in Nat /\ duration \in Nat
  BY BucketType
<1>2. ASSUME NEW c \in Callers, NEW result \in {"", "allowed", "refused", "cancelled"},
             callers' = [callers EXCEPT ![c] = Outside(result)]
      PROVE  callers' \in [Callers -> CallerStates]
  BY <1>1, <1>2, OutsideOK
<1>3. ASSUME NEW c \in Callers, NEW cost \in Costs, NEW timeout \in Timeouts,
             Allow(c, cost, timeout)
      PROVE  Inv'
  <2>1. UNCHANGED <<now, theoreticalArrivalTime, spent, grants>>
    BY <1>3 DEF Allow
  <2>2. CASE callers' = [callers EXCEPT ![c] = Outside("allowed")]
    <3>1. callers' \in [Callers -> CallerStates]
      BY <1>2, <2>2
    <3> QED BY <1>1, <2>1, <3>1, NoGrant
  <2>3. CASE callers' = [callers EXCEPT ![c] = Outside("refused")]
    <3>1. callers' \in [Callers -> CallerStates]
      BY <1>2, <2>3
    <3> QED BY <1>1, <2>1, <3>1, NoGrant
  <2>4. ASSUME cost \in 1..Capacity,
               callers' = [callers EXCEPT ![c] =
                   [at |-> "reserve", cost |-> cost, until |-> 0, result |-> "",
                    deadline |-> IF timeout = 0 THEN 0 ELSE now + timeout]]
        PROVE  Inv'
    <3>1. cost \in Spendable
      BY <2>4, SpendableCosts
    <3>2. (IF timeout = 0 THEN 0 ELSE now + timeout) \in Nat
      BY <1>1, CallAssumption
    <3>3. callers' \in [Callers -> CallerStates]
      BY <1>1, <2>4, <3>1, <3>2 DEF CallerStates
    <3> QED BY <1>1, <2>1, <3>3, NoGrant
  <2> QED BY <1>3, <2>2, <2>3, <2>4 DEF Allow
<1>4. ASSUME NEW c \in Callers, reserve(c) PROVE Inv'
  <2> DEFINE cost == interval * callers[c].cost
             slot == Opens(Arrival + cost)
  <2>1. cost \in Nat /\ cost <= duration
    BY <1>1, CostBound DEF CallerStates
  <2>2. now' = now
    BY <1>4 DEF reserve
  <2>3. slot - now \in Nat
    BY <1>0, <1>1, <2>1 DEF Opens, Arrival, Inv, TypeOK, Clocks
  <2>4. CASE /\ callers' = [callers EXCEPT ![c] = Outside("refused")]
             /\ UNCHANGED <<theoreticalArrivalTime, spent, grants>>
    <3>1. callers' \in [Callers -> CallerStates]
      BY <1>2, <2>4
    <3> QED BY <1>1, <2>2, <2>4, <3>1, NoGrant
  <2>5. CASE /\ theoreticalArrivalTime' = Arrival + cost
             /\ callers' = [callers EXCEPT ![c].at = "granted", ![c].until = slot - now]
             /\ spent' = spent + cost
             /\ grants' = grants \cup {[slot |-> slot, before |-> spent,
                                        after |-> spent + cost]}
    <3> DEFINE record == [callers[c] EXCEPT !.at = "granted", !.until = slot - now]
    <3>1. callers' \in [Callers -> CallerStates]
      <4> HIDE DEF cost, slot
      <4>1. record \in CallerStates
        BY <1>1, <2>3 DEF CallerStates
      <4>2. callers' = [callers EXCEPT ![c] = record]
        BY <2>5
      <4> HIDE DEF record
      <4> QED BY <1>1, <4>1, <4>2
    <3>2. Clocks' /\ grants' \subseteq Grants /\ Ahead' /\ BurstBound' /\ SlotsInOrder'
      <4> HIDE DEF cost
      <4> QED BY <2>1, <2>2, <2>5, GrantStep
    <3> QED BY <3>1, <3>2 DEF Inv, TypeOK
  <2> QED BY <1>4, <2>4, <2>5 DEF reserve
<1>5. ASSUME NEW c \in Callers, sleep(c) PROVE Inv'
  <2>1. UNCHANGED <<now, theoreticalArrivalTime, spent, grants>>
    BY <1>5 DEF sleep
  <2>2. CASE callers' = [callers EXCEPT ![c] = Outside("allowed")]
    <3>1. callers' \in [Callers -> CallerStates]
      BY <1>2, <2>2
    <3> QED BY <1>1, <2>1, <3>1, NoGrant
  <2>3. CASE callers' = [callers EXCEPT ![c] =
                            [callers[c] EXCEPT !.at = "sleep",
                                               !.until = now + callers[c].until]]
    <3>9. callers[c].until \in Nat
      BY <1>1 DEF CallerStates
    <3>1. now + callers[c].until \in Nat
      BY <1>1, <3>9
    <3>2. callers' \in [Callers -> CallerStates]
      BY <1>1, <2>3, <3>1 DEF CallerStates
    <3> QED BY <1>1, <2>1, <3>2, NoGrant
  <2> QED BY <1>5, <2>2, <2>3 DEF sleep
<1>6. ASSUME NEW c \in Callers, wake(c) PROVE Inv'
  <2>1. UNCHANGED <<now, theoreticalArrivalTime, spent, grants>>
    BY <1>6 DEF wake
  <2>2. callers' \in [Callers -> CallerStates]
    BY <1>2, <1>6 DEF wake
  <2> QED BY <1>1, <2>1, <2>2, NoGrant
<1>7. ASSUME Tick PROVE Inv'
  BY <1>1, <1>7, NoGrant DEF Tick
<1>8. ASSUME UNCHANGED vars PROVE Inv'
  BY <1>1, <1>8, NoGrant DEF vars
<1> QED BY <1>3, <1>4, <1>5, <1>6, <1>7, <1>8 DEF Next

\* The inductive invariant behind the theorems on the limiter.
LEMMA Invariant == Spec => []Inv
<1>1. ASSUME Init PROVE Inv
  <2>1. TypeOK
    BY <1>1, OutsideOK DEF Init, TypeOK, Clocks
  <2>2. Ahead /\ BurstBound /\ SlotsInOrder
    BY <1>1 DEF Init, Ahead, BurstBound, SlotsInOrder
  <2> QED BY <2>1, <2>2 DEF Inv
<1> QED BY <1>1, InvStep, PTL DEF Spec

\* The type invariant: in particular no wait is negative.
THEOREM TypeCorrect == Spec => []TypeOK
<1>1. Inv => TypeOK
  BY DEF Inv
<1> QED BY <1>1, Invariant, PTL

\* The limiter never hands out more than a full bucket and what came back,
\* whatever the capacity, the window and the interleaving of the callers.
THEOREM BurstsBounded == Spec => []BurstBound
<1>1. Inv => BurstBound
  BY DEF Inv
<1> QED BY <1>1, Invariant, PTL

\* Slots open in the order they are taken, for any mix of costs and deadlines.
THEOREM OrderKept == Spec => []SlotsInOrder
<1>1. Inv => SlotsInOrder
  BY DEF Inv
<1> QED BY <1>1, Invariant, PTL

=============================================================================
