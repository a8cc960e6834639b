-------------------------------- MODULE LastValue --------------------------------
(***************************************************************************)
(* What a stream promises the reader of its key: the key is a register     *)
(* that only moves forward.  Messages are numbered as they arrive, one at  *)
(* most waits to be stored, and storing gives it a number of its own.      *)
(* Messages may be passed over and stores may be lost.  The promise of     *)
(* order ends when a goroutine has been given up, which may write late.    *)
(***************************************************************************)
EXTENDS Integers

VARIABLES
    arrived,    \* how many messages have arrived
    waiting,    \* the message to be stored next, 0 for none
    numbered,   \* how many numbers have been given out
    stored,     \* the register: a message and its number
    loose       \* a writer has been given up

registerVars == <<arrived, waiting, numbered, stored, loose>>

Init ==
    /\ arrived = 0 /\ waiting = 0 /\ numbered = 0
    /\ stored = [message |-> 0, seq |-> 0]
    /\ loose = FALSE

Arrive ==
    /\ arrived' = arrived + 1
    /\ UNCHANGED <<waiting, numbered, stored, loose>>

\* A message replaces the one that waits, which is older.
Offer ==
    /\ waiting' \in 1..arrived
    /\ loose \/ (waiting' > waiting /\ waiting' > stored.message)
    /\ UNCHANGED <<arrived, numbered, stored, loose>>

Take ==
    /\ waiting # 0 /\ waiting' = 0
    /\ UNCHANGED <<arrived, numbered, stored, loose>>

Number ==
    /\ numbered' = numbered + 1
    /\ UNCHANGED <<arrived, waiting, stored, loose>>

\* What is stored is newer than what was, has a higher number, and is older than
\* what waits.
Store ==
    /\ \E m \in 1..arrived, n \in 1..numbered :
           /\ stored' = [message |-> m, seq |-> n]
           /\ loose \/ /\ m > stored.message /\ n > stored.seq
                       /\ waiting = 0 \/ m < waiting
    /\ UNCHANGED <<arrived, waiting, numbered, loose>>

GiveUp ==
    /\ loose' = TRUE
    /\ UNCHANGED <<arrived, waiting, numbered, stored>>

Next == Arrive \/ Offer \/ Take \/ Number \/ Store \/ GiveUp

Spec == Init /\ [][Next]_registerVars
=============================================================================
