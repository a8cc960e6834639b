------------------------------- MODULE MCFallback -------------------------------
(***************************************************************************)
(* Two streams and a cap of one, so that one of them is turned away: one   *)
(* has every race and the other holds still, in one of two ways.  The      *)
(* clock stands at 1 and no threshold matters, so they are all 0.          *)
(***************************************************************************)
EXTENDS Fallback, TLC

OneStream == {"mark"}
OneOrder  == <<"mark">>

TwoStreams == {"mark", "index"}
TwoOrder   == <<"mark", "index">>

\* The slots of a stream are interchangeable; used where no liveness is checked.
SlotSymmetry == Permutations(Slots)

\* Without fairness: the other is stuck, its socket dead and its poller's call to
\* the venue under way.
OtherIsStuck ==
    /\ publishing["index"].at = "idle" /\ "index" \notin events
    /\ \A p \in Pollers : stream(p) = "index" => pollers[p].at \in {"none", "created", "fetch"}

\* With fairness: the other's key either is there from the beginning and never
\* expires, or it never comes, since its socket is dead and the venue has no value
\* for it over REST; then whichever key is missed first has the only place and the
\* other is turned away.  Nothing is promised of its poller.
OtherLives == key["index"] # Absent

LiveInit ==
    \/ Init
    \/ /\ active = [s \in Streams |-> NoPoller] /\ expired = {}
       /\ watcher = [at |-> "select", found |-> <<>>, halting |-> {}]
       /\ pollers = [p \in Pollers |-> NoGoroutine] /\ stopped = {}
       /\ publishing = [s \in Streams |-> Idle]
       /\ health = [[s \in Streams |-> NewStream] EXCEPT !["index"] = Received(@)]
       /\ key = [[s \in Streams |-> Absent] EXCEPT
                    !["index"] = [source |-> "WEBSOCKET", status |-> HEALTHY]]
       /\ events = {} /\ cancelled = FALSE

OtherStays ==
    /\ publishing'["index"].at = "idle" /\ OtherLives' = OtherLives
    /\ \A p \in Pollers : stream(p) = "index" => pollers'[p].at # "owns"

\* A slot is only a name: the first that is free is taken.
FirstSlot ==
    \A p, q \in Pollers :
        pollers[p].at # "created" /\ pollers'[p].at = "created" /\ stream(q) = stream(p) /\ q[2] < p[2] => ~Unused(q)

\* At most one of these at a time: the other stream turned away, a poller beside the
\* one it succeeds, or notifications and the shutdown.
Successor == \E p \in Pollers : p[2] # 1 /\ ~Unused(p)
Both      == \A p \in {"mark"} \X Slots : ~Unused(p)
Quiet     == ~cancelled /\ events = {}

Bounded ==
    /\ OtherLives \/ Quiet
    /\ Successor => OtherLives /\ Quiet
    /\ Successor /\ Both => publishing["mark"].at = "idle"

\* The action constraint.
OneAtATime == OtherStays /\ FirstSlot /\ Bounded'

LiveSpec == LiveInit /\ [][Next]_vars /\ FairTo({"mark"}, {"mark"} \X Slots)

=============================================================================
