------------------------------- MODULE VenueProofs -------------------------------
(***************************************************************************)
(* Proofs about Dial, for every file, any number of topics and anything a  *)
(* venue may send.                                                         *)
(***************************************************************************)
EXTENDS Venue, AdapterProofs

\* What a plan asks for.
Topics == {asked[n] : n \in Nat \ {0}}

DialPlaces == {"start", "bullet", "connect", "subscribe", "write", "acks", "close", "handed", "failed"}

FrameTypes == {"welcome", "ack", "error", "message", "junk"}

\* The dial and what it has going.
DialOK ==
    /\ venue = file.venue /\ venue \in Venues
    /\ dial \in [at : DialPlaces, written : Nat, pending : SUBSET Topics]
    /\ socket \in {"none", "open", "lost", "closed"}
    /\ watchdog \in [at : {"off", "armed", "firing", "over"}, stopped : BOOLEAN]
    /\ pinger \in [at : {"none", "waiting", "writing", "done"}, closed : BOOLEAN]
    /\ interval \in Int
    /\ accepted \subseteq Topics
    /\ stage \in {"load", "refused", "up"}

\* What is on its way as an acknowledgement has been given.
InboxOK ==
    /\ inbox \in Seq([type : FrameTypes, topic : Topics])
    /\ \A n \in 1..Len(inbox) : inbox[n].type = "ack" => inbox[n].topic \in accepted

\* Nothing is dialled before the plan is known, and there is a socket exactly
\* from the moment transport.Dial returned one.
SocketOK ==
    /\ stage # "up" => DialAt("start") /\ accepted = {} /\ inbox = <<>>
    /\ DialAt("start") \/ DialAt("bullet") \/ DialAt("connect") => socket = "none" /\ accepted = {}
    /\ dial.at \in {"start", "bullet", "connect", "subscribe"}
       => watchdog.at = "off" /\ dial.written = 0 /\ dial.pending = {}
    /\ DialAt("failed") => socket \in {"none", "closed"}

\* Each topic asked for so far is acknowledged or waited for.
AcksOK ==
    /\ DialAt("write") \/ DialAt("acks") =>
           \A n \in 1..dial.written : asked[n] \in accepted \cup dial.pending
    /\ DialAt("acks") => dial.written = Len(asked)
    /\ DialAt("acks") \/ DialAt("subscribe") => venue = "KUCOIN"
    /\ DialAt("write") => venue # "BINANCE"
    /\ DialAt("handed") /\ venue # "TABDEAL" => {asked[n] : n \in 1..Len(asked)} \subseteq accepted

\* The ping goroutine is there from the handing over until the socket is closed.
PingerOK ==
    /\ pinger.at # "none" => DialAt("handed")
    /\ pinger.closed \/ pinger.at = "done" => socket = "closed"
    /\ venue = "KUCOIN" /\ dial.at \in {"connect", "subscribe", "write", "acks"} => interval > 0
    /\ venue = "KUCOIN" /\ DialAt("handed") => pinger.at # "none"

IInv == DialOK /\ InboxOK /\ SocketOK /\ AcksOK /\ PingerOK

-----------------------------------------------------------------------------
\* The dial never changes whose it is and what it asks for.
LEMMA AskedKept == DialNext => asked' = asked /\ venue' = venue
<1>1. QED
    BY DEF DialNext, DialStep, begin, connect, subscribe, write, read, readFails, subscribed, close,
           fetchBullet, watchdogFires, watchdogStops, watchdogCloses, tick, ping, pingerReturns,
           Close, VenueAnswers, VenueSubscribes, VenueSends, ConnectionLost, Cancel

\* What is asked for is among the topics, which stay the same.
LEMMA TopicsKept ==
    ASSUME DialNext
    PROVE  Topics' = Topics /\ \A n \in Nat \ {0} : asked[n] \in Topics
<1>1. asked' = asked
    BY AskedKept
<1>2. QED
    BY <1>1 DEF Topics

\* A frame is added, or the first one taken away.
LEMMA Inboxes ==
    ASSUME NEW S, NEW q \in Seq(S)
    PROVE  /\ \A x \in S : Append(q, x) \in Seq(S) /\ Len(Append(q, x)) = Len(q) + 1
              /\ \A n \in 1..Len(q) : Append(q, x)[n] = q[n]
              /\ Append(q, x)[Len(q) + 1] = x
           /\ q # <<>> => /\ Tail(q) \in Seq(S) /\ Len(Tail(q)) = Len(q) - 1
                          /\ Head(q) = q[1] /\ 1 \in 1..Len(q)
                          /\ \A n \in 1..(Len(q) - 1) : Tail(q)[n] = q[n + 1]
                          /\ Len(q) \in Nat /\ Head(q) \in S
<1>1. QED
    OBVIOUS

\* transport.Dial answers a socket, and what comes next is the venue's way, or it
\* errors.
LEMMA ConnectMoves ==
    ASSUME DialOK, connect
    PROVE  /\ dial.at = "connect"
           /\ dial' \in [at : DialPlaces, written : Nat, pending : SUBSET Topics]
           /\ dial'.written = dial.written
           /\ \/ /\ dial'.at = "failed" /\ dial'.pending = {}
                 /\ UNCHANGED <<socket, accepted, inbox>>
              \/ /\ socket' = "open" /\ dial'.pending = dial.pending
                 /\ \/ /\ venue = "BINANCE" /\ dial'.at = "handed"
                       /\ accepted' = {asked[n] : n \in 1..Len(asked)}
                    \/ venue = "KUCOIN" /\ dial'.at = "subscribe" /\ accepted' = accepted
                    \/ venue = "TABDEAL" /\ dial'.at = "write" /\ accepted' = accepted
           /\ UNCHANGED <<venue, asked, watchdog, pinger, interval, cancelled>>
<1>1. /\ dial.at = "connect" /\ dial.written \in Nat /\ dial.pending \in SUBSET Topics
      /\ dial = [at |-> dial.at, written |-> dial.written, pending |-> dial.pending]
    BY DEF connect, DialOK, DialAt
<1>2. UNCHANGED <<venue, asked, watchdog, pinger, interval, cancelled>>
    BY DEF connect
<1>3. CASE Give /\ UNCHANGED <<socket, accepted, inbox>>
    <2>1. dial' = [at |-> "failed", written |-> dial.written, pending |-> {}]
        BY <1>1, <1>3 DEF Give
    <2>2. QED
        BY <1>1, <1>2, <1>3, <2>1 DEF DialPlaces
<1>4. ASSUME NEW place \in {"handed", "subscribe", "write"}, To(place), socket' = "open",
             \/ /\ venue = "BINANCE" /\ place = "handed"
                /\ accepted' = {asked[n] : n \in 1..Len(asked)}
             \/ venue = "KUCOIN" /\ place = "subscribe" /\ accepted' = accepted
             \/ venue = "TABDEAL" /\ place = "write" /\ accepted' = accepted
      PROVE  /\ dial' \in [at : DialPlaces, written : Nat, pending : SUBSET Topics]
             /\ dial'.written = dial.written /\ dial'.pending = dial.pending
             /\ dial'.at = place
    <2>1. dial' = [at |-> place, written |-> dial.written, pending |-> dial.pending]
        BY <1>1, <1>4 DEF To
    <2>2. QED
        BY <1>1, <2>1 DEF DialPlaces
<1>5. CASE venue = "BINANCE" /\ socket' = "open" /\ connectedBinance
    BY <1>1, <1>2, <1>4, <1>5 DEF connectedBinance
<1>6. CASE venue = "KUCOIN" /\ socket' = "open" /\ connectedKuCoin
    BY <1>1, <1>2, <1>4, <1>6 DEF connectedKuCoin
<1>7. CASE venue = "TABDEAL" /\ socket' = "open" /\ connectedTabdeal
    BY <1>1, <1>2, <1>4, <1>7 DEF connectedTabdeal
<1>8. QED
    BY <1>3, <1>5, <1>6, <1>7 DEF connect, DialOK, Venues

\* The bootstrap answers an address and a positive ping interval, or it is an error.
LEMMA FetchBulletMoves ==
    ASSUME DialOK, NEW answer \in Answers, fetchBullet(answer)
    PROVE  /\ dial.at = "bullet"
           /\ dial' \in [at : DialPlaces, written : Nat, pending : SUBSET Topics]
           /\ dial'.written = dial.written
           /\ \/ /\ dial'.at = "connect" /\ dial'.pending = dial.pending
                 /\ interval' \in Int /\ interval' > 0
              \/ dial'.at = "failed" /\ dial'.pending = {} /\ interval' = interval
           /\ UNCHANGED <<venue, asked, socket, watchdog, pinger, inbox, accepted, cancelled>>
<1>1. /\ dial.at = "bullet" /\ dial.written \in Nat /\ dial.pending \in SUBSET Topics
      /\ dial = [at |-> dial.at, written |-> dial.written, pending |-> dial.pending]
    BY DEF fetchBullet, DialOK, DialAt
<1>2. UNCHANGED <<venue, asked, socket, watchdog, pinger, inbox, accepted, cancelled>>
    BY DEF fetchBullet
<1>3. CASE parseBullet(answer)
    <2>1. PICK s \in Servers : answer.servers = <<s>>
        BY <1>3 DEF parseBullet, Answers
    <2>2. interval' = s.pingInterval
        BY <1>3, <2>1 DEF fetchBullet
    <2>3. s.pingInterval \in Int /\ s.pingInterval > 0
        BY <1>3, <2>1 DEF parseBullet, Servers
    <2>4. dial' = [at |-> "connect", written |-> dial.written, pending |-> dial.pending]
        BY <1>1, <1>3 DEF fetchBullet, To
    <2>5. QED
        BY <1>1, <1>2, <2>2, <2>3, <2>4 DEF DialPlaces
<1>4. CASE ~parseBullet(answer)
    <2>1. dial' = [at |-> "failed", written |-> dial.written, pending |-> {}]
          /\ interval' = interval
        BY <1>1, <1>4 DEF fetchBullet, Give
    <2>2. QED
        BY <1>1, <1>2, <2>1 DEF DialPlaces
<1>5. QED
    BY <1>3, <1>4

\* Every step of the dial keeps the types.
LEMMA DialStepOK ==
    ASSUME IInv, stage = "up", DialNext, UNCHANGED <<file, stage>>
    PROVE  DialOK'
<1> USE TopicsKept DEF IInv, DialOK, SocketOK, DialPlaces, Venues, DialAt
<1>1. CASE begin
    BY <1>1 DEF begin, To, Give
<1>2. CASE connect
    <2>1. accepted' = accepted \/ accepted' = {asked[n] : n \in 1..Len(asked)}
        BY <1>2, ConnectMoves
    <2>2. accepted' \subseteq Topics
        BY <2>1
    <2>3. QED
        BY <1>2, <2>2, ConnectMoves
<1>3. CASE subscribe
    BY <1>3 DEF subscribe, To
<1>4. CASE write
    <2>1. asked[dial.written + 1] \in Topics
        OBVIOUS
    <2>2. dial.pending \cup {asked[dial.written + 1]} \in SUBSET Topics
        BY <2>1
    <2>3. dial' \in [at : DialPlaces, written : Nat, pending : SUBSET Topics]
        <3>1. CASE dial' = [dial EXCEPT !.at = "handed"]
            BY <3>1
        <3>2. CASE dial' = [dial EXCEPT !.written = @ + 1,
                                       !.pending = @ \cup {asked[dial.written + 1]},
                                       !.at = IF dial.written + 1 = Len(asked) THEN "acks" ELSE @]
            <4> DEFINE place == IF dial.written + 1 = Len(asked) THEN "acks" ELSE dial.at
                       pending == dial.pending \cup {asked[dial.written + 1]}
            <4>1. dial' = [at |-> place, written |-> dial.written + 1, pending |-> pending]
                BY <3>2
            <4>2. place \in DialPlaces /\ pending \in SUBSET Topics
                BY <2>2
            <4> HIDE DEF place, pending
            <4>3. QED
                BY <4>1, <4>2
        <3>3. CASE dial' = [dial EXCEPT !.at = "close"]
            BY <3>3
        <3>4. QED
            BY <1>4, <3>1, <3>2, <3>3 DEF write, Returning, To
    <2>4. watchdog' \in [at : {"off", "armed", "firing", "over"}, stopped : BOOLEAN]
        BY <1>4 DEF write, Returning
    <2>5. QED
        BY <1>4, <2>3, <2>4 DEF write
<1>5. CASE read
    <2>1. dial' \in [at : DialPlaces, written : Nat, pending : SUBSET Topics]
        <3> DEFINE topic == Head(inbox).topic
        <3>1. \/ dial' = [dial EXCEPT !.pending = @ \ {topic}]
              \/ dial' = [dial EXCEPT !.at = "close"]
              \/ dial' = dial
            <4>1. CASE Head(inbox).type = "ack"
                BY <1>5, <4>1 DEF read
            <4>2. CASE Head(inbox).type \in {"error", "junk"}
                BY <1>5, <4>2 DEF read, Returning, To
            <4>3. CASE Head(inbox).type \notin {"ack", "error", "junk"}
                BY <1>5, <4>3 DEF read
            <4>4. QED
                BY <4>1, <4>2, <4>3
        <3> HIDE DEF topic
        <3>2. dial.pending \ {topic} \in SUBSET Topics
            OBVIOUS
        <3>3. QED
            BY <3>1, <3>2
    <2>2. watchdog' \in [at : {"off", "armed", "firing", "over"}, stopped : BOOLEAN]
        BY <1>5 DEF read, Returning
    <2>3. UNCHANGED <<venue, socket, pinger, interval, accepted>>
        BY <1>5 DEF read
    <2>4. QED
        BY <2>1, <2>2, <2>3
<1>6. CASE readFails
    BY <1>6 DEF readFails, Returning, To
<1>7. CASE subscribed
    BY <1>7 DEF subscribed, Returning, To
<1>8. CASE close
    BY <1>8 DEF close, Give
<1>9. ASSUME NEW answer \in Answers, fetchBullet(answer) PROVE DialOK'
    BY <1>9, FetchBulletMoves
<1>10. CASE watchdogFires
    BY <1>10 DEF watchdogFires
<1>11. CASE watchdogStops
    BY <1>11 DEF watchdogStops
<1>12. CASE watchdogCloses
    BY <1>12 DEF watchdogCloses
<1>13. CASE tick
    BY <1>13 DEF tick
<1>14. CASE ping
    <2>1. socket' \in {"none", "open", "lost", "closed"}
        BY <1>14 DEF ping
    <2>2. pinger' \in [at : {"none", "waiting", "writing", "done"}, closed : BOOLEAN]
        <3>1. CASE pinger' = [pinger EXCEPT !.at = "waiting"]
            BY <3>1
        <3>2. CASE pinger' = [at |-> "done", closed |-> TRUE]
            BY <3>2
        <3>3. QED
            BY <1>14, <3>1, <3>2 DEF ping
    <2>3. UNCHANGED <<venue, dial, watchdog, interval, accepted>>
        BY <1>14 DEF ping
    <2>4. QED
        BY <2>1, <2>2, <2>3
<1>15. CASE pingerReturns
    BY <1>15 DEF pingerReturns
<1>16. CASE Close
    BY <1>16 DEF Close
<1>17. CASE VenueAnswers
    BY <1>17 DEF VenueAnswers, Arrives
<1>18. CASE VenueSubscribes
    BY <1>18 DEF VenueSubscribes
<1>19. CASE VenueSends
    BY <1>19 DEF VenueSends, Arrives
<1>20. CASE ConnectionLost
    BY <1>20 DEF ConnectionLost
<1>21. CASE Cancel
    BY <1>21 DEF Cancel
<1> HIDE DEF IInv, DialOK, SocketOK, DialPlaces, Venues
<1>22. QED
    BY <1>1, <1>2, <1>3, <1>4, <1>5, <1>6, <1>7, <1>8, <1>9, <1>10, <1>11, <1>12, <1>13,
       <1>14, <1>15, <1>16, <1>17, <1>18, <1>19, <1>20, <1>21
    DEF DialNext, DialStep

\* Every step of the dial keeps the inbox.
LEMMA InboxStepOK ==
    ASSUME IInv, stage = "up", DialNext, UNCHANGED <<file, stage>>
    PROVE  InboxOK'
<1> USE TopicsKept DEF IInv, DialOK, InboxOK, SocketOK, Venues, FrameTypes, DialAt
<1>1. CASE begin
    BY <1>1 DEF begin, To, Give
<1>2. CASE connect
    <2>1. \/ inbox' = <<[type |-> "welcome", topic |-> asked[1]]>>
          \/ inbox' = <<>>
          \/ inbox' = inbox /\ accepted' = accepted
        BY <1>2 DEF connect, connectedBinance, connectedKuCoin, connectedTabdeal
    <2>2. [type |-> "welcome", topic |-> asked[1]] \in [type : FrameTypes, topic : Topics]
        OBVIOUS
    <2>3. CASE inbox' = <<[type |-> "welcome", topic |-> asked[1]]>>
        BY <2>2, <2>3
    <2>4. CASE inbox' = <<>>
        BY <2>4
    <2>5. QED
        BY <2>1, <2>3, <2>4
<1>3. CASE subscribe
    BY <1>3 DEF subscribe, To
<1>4. CASE write
    BY <1>4 DEF write, Returning, To
<1>5. CASE read
    <2>1. inbox # <<>> /\ inbox' = Tail(inbox) /\ accepted' = accepted
        BY <1>5 DEF read
    <2>2. QED
        BY <2>1, Inboxes
<1>6. CASE readFails
    BY <1>6 DEF readFails, Returning, To
<1>7. CASE subscribed
    BY <1>7 DEF subscribed, Returning, To
<1>8. CASE close
    BY <1>8 DEF close, Give
<1>9. ASSUME NEW answer \in Answers, fetchBullet(answer) PROVE InboxOK'
    BY <1>9 DEF fetchBullet, parseBullet, To, Give, Answers, Servers
<1>10. CASE watchdogFires
    BY <1>10 DEF watchdogFires
<1>11. CASE watchdogStops
    BY <1>11 DEF watchdogStops
<1>12. CASE watchdogCloses
    BY <1>12 DEF watchdogCloses
<1>13. CASE tick
    BY <1>13 DEF tick
<1>14. CASE ping
    BY <1>14 DEF ping
<1>15. CASE pingerReturns
    BY <1>15 DEF pingerReturns
<1>16. CASE Close
    BY <1>16 DEF Close
<1>17. CASE VenueAnswers
    <2>1. PICK topic \in dial.pending \ accepted, type \in {"ack", "error"} :
              /\ inbox' = Append(inbox, [type |-> type, topic |-> topic])
              /\ accepted \subseteq accepted'
              /\ type = "ack" => topic \in accepted'
        BY <1>17 DEF VenueAnswers, Arrives
    <2>2. [type |-> type, topic |-> topic] \in [type : FrameTypes, topic : Topics]
        OBVIOUS
    <2>3. QED
        BY <2>1, <2>2, Inboxes
<1>18. CASE VenueSubscribes
    BY <1>18 DEF VenueSubscribes
<1>19. CASE VenueSends
    <2>1. PICK topic \in Topics, type \in {"message", "junk"} :
              /\ inbox' = Append(inbox, [type |-> type, topic |-> topic])
              /\ accepted' = accepted
        <3>1. asked[1] \in Topics
            OBVIOUS
        <3>2. QED
            BY <1>19, <3>1 DEF VenueSends, Arrives
    <2>2. [type |-> type, topic |-> topic] \in [type : FrameTypes, topic : Topics]
        OBVIOUS
    <2>3. QED
        BY <2>1, <2>2, Inboxes
<1>20. CASE ConnectionLost
    BY <1>20 DEF ConnectionLost
<1>21. CASE Cancel
    BY <1>21 DEF Cancel
<1> HIDE DEF IInv, DialOK, InboxOK, SocketOK, Venues, FrameTypes
<1>22. QED
    BY <1>1, <1>2, <1>3, <1>4, <1>5, <1>6, <1>7, <1>8, <1>9, <1>10, <1>11, <1>12, <1>13,
       <1>14, <1>15, <1>16, <1>17, <1>18, <1>19, <1>20, <1>21
    DEF DialNext, DialStep

\* Every step of the dial keeps the socket in its place.
LEMMA SocketStepOK ==
    ASSUME IInv, stage = "up", DialNext, UNCHANGED <<file, stage>>
    PROVE  SocketOK'
<1> USE TopicsKept DEF IInv, DialOK, SocketOK, PingerOK, AcksOK, Venues, DialAt
<1>1. CASE begin
    BY <1>1 DEF begin, To, Give
<1>2. CASE connect
    BY <1>2, ConnectMoves
<1>3. CASE subscribe
    BY <1>3 DEF subscribe, To
<1>4. CASE write
    BY <1>4 DEF write, Returning, To
<1>5. CASE read
    BY <1>5 DEF read, Returning, To
<1>6. CASE readFails
    BY <1>6 DEF readFails, Returning, To
<1>7. CASE subscribed
    BY <1>7 DEF subscribed, Returning, To
<1>8. CASE close
    BY <1>8 DEF close, Give
<1>9. ASSUME NEW answer \in Answers, fetchBullet(answer) PROVE SocketOK'
    BY <1>9, FetchBulletMoves
<1>10. CASE watchdogFires
    BY <1>10 DEF watchdogFires
<1>11. CASE watchdogStops
    BY <1>11 DEF watchdogStops
<1>12. CASE watchdogCloses
    BY <1>12 DEF watchdogCloses
<1>13. CASE tick
    BY <1>13 DEF tick
<1>14. CASE ping
    BY <1>14 DEF ping
<1>15. CASE pingerReturns
    BY <1>15 DEF pingerReturns
<1>16. CASE Close
    BY <1>16 DEF Close
<1>17. CASE VenueAnswers
    BY <1>17 DEF VenueAnswers, Arrives
<1>18. CASE VenueSubscribes
    BY <1>18 DEF VenueSubscribes
<1>19. CASE VenueSends
    BY <1>19 DEF VenueSends, Arrives
<1>20. CASE ConnectionLost
    BY <1>20 DEF ConnectionLost
<1>21. CASE Cancel
    BY <1>21 DEF Cancel
<1> HIDE DEF IInv, DialOK, SocketOK, PingerOK, AcksOK, Venues
<1>22. QED
    BY <1>1, <1>2, <1>3, <1>4, <1>5, <1>6, <1>7, <1>8, <1>9, <1>10, <1>11, <1>12, <1>13,
       <1>14, <1>15, <1>16, <1>17, <1>18, <1>19, <1>20, <1>21
    DEF DialNext, DialStep

\* Every step of the dial keeps track of the acknowledgements.
LEMMA AcksStepOK ==
    ASSUME IInv, stage = "up", DialNext, UNCHANGED <<file, stage>>
    PROVE  AcksOK'
<1> USE TopicsKept DEF IInv, DialOK, InboxOK, SocketOK, AcksOK, Venues, DialAt
<1>1. CASE begin
    BY <1>1 DEF begin, To, Give
<1>2. CASE connect
    <2>1. dial'.at # "acks" /\ dial'.written = 0
        BY <1>2, ConnectMoves
    <2>2. /\ dial'.at = "subscribe" => venue' = "KUCOIN"
          /\ dial'.at = "write" => venue' = "TABDEAL"
        BY <1>2, ConnectMoves
    <2>3. dial'.at = "handed" => accepted' = {asked[n] : n \in 1..Len(asked)} /\ asked' = asked
        BY <1>2, ConnectMoves
    <2>4. QED
        BY <2>1, <2>2, <2>3
<1>3. CASE subscribe
    BY <1>3 DEF subscribe, To
<1>4. CASE write
    <2>1. CASE venue = "TABDEAL"
        BY <1>4, <2>1 DEF write, Returning, To
    <2>2. CASE venue # "TABDEAL" /\ dial'.at # "close"
        <3>1. /\ dial'.at = IF dial.written + 1 = Len(asked) THEN "acks" ELSE "write"
              /\ dial'.written = dial.written + 1
              /\ dial'.pending = dial.pending \cup {asked[dial.written + 1]}
              /\ UNCHANGED <<accepted, asked, venue>>
            BY <1>4, <2>2 DEF write, Returning, To
        <3>2. venue = "KUCOIN"
            BY <1>4, <2>2 DEF write
        <3>3. QED
            BY <1>4, <3>1, <3>2 DEF write
    <2>3. CASE dial'.at = "close"
        BY <1>4, <2>3
    <2>4. QED
        BY <2>1, <2>2, <2>3
<1>5. CASE read
    <2>1. CASE Head(inbox).type = "ack"
        <3>1. inbox # <<>> /\ Head(inbox) = inbox[1] /\ 1 \in 1..Len(inbox)
            BY <1>5, Inboxes DEF read
        <3>2. Head(inbox).topic \in accepted
            BY <2>1, <3>1
        <3>3. dial'.at = "acks" /\ dial'.written = dial.written
              /\ dial'.pending = dial.pending \ {Head(inbox).topic}
              /\ UNCHANGED <<accepted, asked, venue>>
            BY <1>5, <2>1 DEF read
        <3>4. QED
            BY <1>5, <3>2, <3>3 DEF read
    <2>2. CASE Head(inbox).type # "ack"
        <3>1. dial' = dial \/ dial'.at = "close"
            BY <1>5, <2>2 DEF read, Returning, To
        <3>2. UNCHANGED <<accepted, asked, venue>>
            BY <1>5 DEF read
        <3>3. QED
            BY <3>1, <3>2
    <2>3. QED
        BY <2>1, <2>2
<1>6. CASE readFails
    BY <1>6 DEF readFails, Returning, To
<1>7. CASE subscribed
    BY <1>7 DEF subscribed, Returning, To
<1>8. CASE close
    BY <1>8 DEF close, Give
<1>9. ASSUME NEW answer \in Answers, fetchBullet(answer) PROVE AcksOK'
    BY <1>9, FetchBulletMoves
<1>10. CASE watchdogFires
    BY <1>10 DEF watchdogFires
<1>11. CASE watchdogStops
    BY <1>11 DEF watchdogStops
<1>12. CASE watchdogCloses
    BY <1>12 DEF watchdogCloses
<1>13. CASE tick
    BY <1>13 DEF tick
<1>14. CASE ping
    BY <1>14 DEF ping
<1>15. CASE pingerReturns
    BY <1>15 DEF pingerReturns
<1>16. CASE Close
    BY <1>16 DEF Close
<1>17. CASE VenueAnswers
    BY <1>17 DEF VenueAnswers, Arrives
<1>18. CASE VenueSubscribes
    BY <1>18 DEF VenueSubscribes
<1>19. CASE VenueSends
    BY <1>19 DEF VenueSends, Arrives
<1>20. CASE ConnectionLost
    BY <1>20 DEF ConnectionLost
<1>21. CASE Cancel
    BY <1>21 DEF Cancel
<1> HIDE DEF IInv, DialOK, InboxOK, SocketOK, AcksOK, Venues
<1>22. QED
    BY <1>1, <1>2, <1>3, <1>4, <1>5, <1>6, <1>7, <1>8, <1>9, <1>10, <1>11, <1>12, <1>13,
       <1>14, <1>15, <1>16, <1>17, <1>18, <1>19, <1>20, <1>21
    DEF DialNext, DialStep

\* Every step of the dial keeps the ping goroutine.
LEMMA PingerStepOK ==
    ASSUME IInv, stage = "up", DialNext, UNCHANGED <<file, stage>>
    PROVE  PingerOK'
<1> USE TopicsKept DEF IInv, DialOK, SocketOK, AcksOK, PingerOK, Venues, DialAt
<1>1. CASE begin
    BY <1>1 DEF begin, To, Give
<1>2. CASE connect
    BY <1>2, ConnectMoves
<1>3. CASE subscribe
    BY <1>3 DEF subscribe, To
<1>4. CASE write
    BY <1>4 DEF write, Returning, To
<1>5. CASE read
    BY <1>5 DEF read, Returning, To
<1>6. CASE readFails
    BY <1>6 DEF readFails, Returning, To
<1>7. CASE subscribed
    BY <1>7 DEF subscribed, Returning, To
<1>8. CASE close
    BY <1>8 DEF close, Give
<1>9. ASSUME NEW answer \in Answers, fetchBullet(answer) PROVE PingerOK'
    BY <1>9, FetchBulletMoves
<1>10. CASE watchdogFires
    BY <1>10 DEF watchdogFires
<1>11. CASE watchdogStops
    BY <1>11 DEF watchdogStops
<1>12. CASE watchdogCloses
    BY <1>12 DEF watchdogCloses
<1>13. CASE tick
    BY <1>13 DEF tick
<1>14. CASE ping
    BY <1>14 DEF ping
<1>15. CASE pingerReturns
    BY <1>15 DEF pingerReturns
<1>16. CASE Close
    BY <1>16 DEF Close
<1>17. CASE VenueAnswers
    BY <1>17 DEF VenueAnswers, Arrives
<1>18. CASE VenueSubscribes
    BY <1>18 DEF VenueSubscribes
<1>19. CASE VenueSends
    BY <1>19 DEF VenueSends, Arrives
<1>20. CASE ConnectionLost
    BY <1>20 DEF ConnectionLost
<1>21. CASE Cancel
    BY <1>21 DEF Cancel
<1> HIDE DEF IInv, DialOK, SocketOK, AcksOK, PingerOK, Venues
<1>22. QED
    BY <1>1, <1>2, <1>3, <1>4, <1>5, <1>6, <1>7, <1>8, <1>9, <1>10, <1>11, <1>12, <1>13,
       <1>14, <1>15, <1>16, <1>17, <1>18, <1>19, <1>20, <1>21
    DEF DialNext, DialStep

-----------------------------------------------------------------------------
\* The inductive invariant: a dial step keeps each part, start only says what is
\* asked, and what is received or fetched leaves the dial alone.
LEMMA Inductive ==
    /\ Init => IInv
    /\ IInv /\ [Next]_vars => IInv'
<1>1. ASSUME Init PROVE IInv
    <2>1. DialOK
        BY <1>1, FilesAssumption DEF Init, DialInit, DialOK, DialPlaces
    <2>2. InboxOK
        BY <1>1 DEF Init, DialInit, InboxOK
    <2>3. SocketOK /\ AcksOK /\ PingerOK
        BY <1>1 DEF Init, DialInit, SocketOK, AcksOK, PingerOK, DialAt
    <2>4. QED
        BY <2>1, <2>2, <2>3 DEF IInv
<1>2. ASSUME IInv, [Next]_vars PROVE IInv'
    <2>1. CASE start
        <3>1. /\ stage # "up" /\ stage' \in {"up", "refused"}
              /\ UNCHANGED <<venue, file, dial, socket, watchdog, pinger, interval, inbox, accepted>>
            BY <2>1 DEF start
        <3>2. /\ dial.at = "start" /\ dial.written = 0 /\ dial.pending = {} /\ socket = "none"
              /\ watchdog.at = "off" /\ inbox = <<>> /\ accepted = {} /\ pinger.at = "none"
            BY <1>2, <3>1 DEF IInv, SocketOK, PingerOK, DialAt
        <3>3. DialOK'
            BY <1>2, <3>1, <3>2 DEF IInv, DialOK, DialPlaces
        <3>4. InboxOK'
            BY <3>1, <3>2 DEF InboxOK
        <3>5. SocketOK' /\ AcksOK'
            BY <3>1, <3>2 DEF SocketOK, AcksOK, DialAt
        <3>6. PingerOK'
            BY <1>2, <3>1, <3>2 DEF IInv, PingerOK, DialAt
        <3>7. QED
            BY <3>3, <3>4, <3>5, <3>6 DEF IInv
    <2>2. CASE DialProceeds
        <3>1. stage = "up" /\ DialNext /\ UNCHANGED <<file, stage>>
            BY <2>2 DEF DialProceeds
        <3>2. QED
            BY <1>2, <3>1, DialStepOK, InboxStepOK, SocketStepOK, AcksStepOK, PingerStepOK DEF IInv
    <2>3. CASE UNCHANGED <<dialVars, file, stage>>
        BY <1>2, <2>3
        DEF dialVars, IInv, DialOK, InboxOK, SocketOK, AcksOK, PingerOK, DialAt, Topics
    <2>4. QED
        BY <1>2, <2>1, <2>2, <2>3 DEF Next, vars, receive, poll, refresh
<1>3. QED
    BY <1>1, <1>2

\* Whatever the venue answers and in whatever order, a connection that Dial hands
\* over has its topics acknowledged and its ping goroutine alive
\* (kucoin/bullet.go Dial, kucoin/subscribe.go subscribe, kucoin/ping.go).
THEOREM DialHandsOverLive == Spec => []HandedOverLive
<1>1. IInv => HandedOverLive
    BY DEF IInv, DialOK, AcksOK, PingerOK, HandedOverLive, DialAt
<1>2. QED
    BY <1>1, Inductive, PTL DEF Spec

\* A dial that failed, at whatever point, has left no socket behind
\* (kucoin/bullet.go Dial, tabdeal.go Dial).
THEOREM DialLeavesNoSocket == Spec => []NoSocketLeft
<1>1. IInv => NoSocketLeft
    BY DEF IInv, SocketOK, NoSocketLeft
<1>2. QED
    BY <1>1, Inductive, PTL DEF Spec

-----------------------------------------------------------------------------
(***************************************************************************)
(* The adapter, its plans and what was last said                           *)
(***************************************************************************)

\* What is up was let through, and asks for one of its plans.
PlanOK ==
    stage = "up" =>
        /\ adapter.venue = file.venue /\ adapter.options = file /\ adapter.reverse \in reverses(file)
        /\ Load(file) /\ ~NewFails(file) /\ ~PlanFails(adapter, Specifications(file))
        /\ plans = PlanSubscriptions(adapter, Specifications(file))
        /\ \E k \in DOMAIN plans : plan = plans[k] /\ asked = topics(adapter, plans[k])

\* Nobody subscribes us to what was not asked for.
AcceptedOK ==
    /\ accepted \cup dial.pending \subseteq {asked[n] : n \in 1..Len(asked)}
    /\ DialAt("write") => dial.written < Len(asked)

\* What was last said is what the adapter makes of something the venue may send.
GotOK ==
    \/ got = nothing
    \/ /\ stage = "up"
       /\ \/ \E symbol \in Symbols(file) : \E frame \in FramesOf(venue, symbol) :
                 got = [kind |-> "frame", symbol |-> symbol, input |-> frame,
                        out |-> Parse(adapter, frame)]
          \/ \E s \in plan.specifications, r \in ResponsesOf(venue) :
                 got = [kind |-> "rest", specification |-> s, input |-> r,
                        out |-> FetchOnce(adapter, s, r)]
          \/ \E r \in ListingsOf(venue) :
                 got = [kind |-> "metadata", input |-> r, out |-> FetchMetadata(adapter, r)]

VInv == IInv /\ file \in Files /\ PlanOK /\ AcceptedOK /\ GotOK

\* A file that Load and New let through has a positive number of streams to a
\* socket, which the venue takes.
LEMMA LimitFacts ==
    ASSUME NEW f \in Files, Load(f)
    PROVE  f.max \in Nat \ {0} /\ f.subscriptions \in Nat /\ f.max <= f.subscriptions
<1>1. f.max \in Int /\ f.subscriptions \in Int
    BY FilesAssumption
<1>2. ~(f.max <= 0) /\ ~(f.max > f.subscriptions)
    BY DEF Load, validateFails, validatorFails, validateRateLimit
<1>3. QED
    BY <1>1, <1>2

\* What an instrument is called depends on the venue and the file alone.
LEMMA Called ==
    ASSUME NEW a, NEW f, a.venue = f.venue, a.options = f
    PROVE  {VenueSymbol(a, s.instrument) : s \in Specifications(f)} = Symbols(f)
<1> DEFINE b == [venue |-> f.venue, options |-> f]
<1>1. b.venue = a.venue /\ b.options = a.options
    OBVIOUS
<1> HIDE DEF b
<1>2. \A reference : VenueSymbol(a, reference) = VenueSymbol(b, reference)
    BY <1>1 DEF VenueSymbol, BinanceSymbol, KuCoinSymbol, TabdealSymbol, Spelled
<1>3. Symbols(f) = {VenueSymbol(b, s.instrument) : s \in Specifications(f)}
    BY DEF Symbols, b
<1>4. QED
    BY <1>2, <1>3

\* The plans of what is up are those that Planned speaks of.
LEMMA ThePlans ==
    ASSUME PlanOK, file \in Files, stage = "up"
    PROVE  /\ \A k \in DOMAIN plans :
                  /\ topics(adapter, plans[k])
                     \in Seq({VenueSymbol(adapter, s.instrument) : s \in Specifications(file)})
                  /\ Len(topics(adapter, plans[k])) \in 1..adapter.options.max
                  /\ plans[k].specifications
                     = {s \in Specifications(file) :
                           VenueSymbol(adapter, s.instrument) \in ToSet(topics(adapter, plans[k]))}
           /\ \A s \in Specifications(file) : \E k \in DOMAIN plans : s \in plans[k].specifications
           /\ \A j, k \in DOMAIN plans :
                  j # k => ToSet(topics(adapter, plans[j])) \cap ToSet(topics(adapter, plans[k])) = {}
<1>1. plans = PlanSubscriptions(adapter, Specifications(file))
    BY DEF PlanOK
<1>2. IsFiniteSet(Specifications(file))
    BY FilesAssumption
<1>3. adapter.options.max \in Nat \ {0}
    BY FilesAssumption, LimitFacts DEF PlanOK
<1>4. Divided(adapter, Specifications(file), plans)
    BY <1>1, <1>2, <1>3, Planned
<1>5. QED
    BY <1>4 DEF Divided

\* A plan asks for at least one symbol, and for those of the file.
LEMMA AskedFacts ==
    ASSUME PlanOK, file \in Files, stage = "up"
    PROVE  asked \in Seq(Symbols(file)) /\ Len(asked) \in Nat /\ Len(asked) >= 1
<1>1. /\ adapter.venue = file.venue /\ adapter.options = file
      /\ plans = PlanSubscriptions(adapter, Specifications(file)) /\ Load(file)
    BY DEF PlanOK
<1>2. PICK k \in DOMAIN plans : asked = topics(adapter, plans[k])
    BY DEF PlanOK
<1>3. IsFiniteSet(Specifications(file)) /\ adapter.options.max \in Nat \ {0}
    BY <1>1, FilesAssumption, LimitFacts
<1>4. /\ topics(adapter, plans[k]) \in Seq({VenueSymbol(adapter, s.instrument) : s \in Specifications(file)})
      /\ Len(topics(adapter, plans[k])) \in 1..adapter.options.max
    BY ThePlans
<1>5. QED
    <2>1. {VenueSymbol(adapter, s.instrument) : s \in Specifications(file)} = Symbols(file)
        BY <1>1, Called
    <2>2. asked \in Seq(Symbols(file)) /\ Len(asked) \in 1..adapter.options.max
        BY <1>2, <1>4, <2>1
    <2>3. QED
        BY <1>3, <2>2

LEMMA AcceptedStepOK ==
    ASSUME VInv, stage = "up", DialNext
    PROVE  AcceptedOK'
<1>1. asked \in Seq(Symbols(file)) /\ Len(asked) \in Nat /\ Len(asked) >= 1
    BY AskedFacts DEF VInv
<1>2. asked' = asked
    BY AskedKept
<1>3. dial \in [at : DialPlaces, written : Nat, pending : SUBSET Topics]
    BY DEF VInv, IInv, DialOK
<1> USE <1>1, <1>2, <1>3 DEF VInv, AcceptedOK, DialAt
<1>4. \A place : /\ [dial EXCEPT !.at = place].at = place
                 /\ [dial EXCEPT !.at = place].written = dial.written
                 /\ [dial EXCEPT !.at = place].pending = dial.pending
    BY <1>3
<1>5. /\ [dial EXCEPT !.at = "failed", !.pending = {}].at = "failed"
      /\ [dial EXCEPT !.at = "failed", !.pending = {}].pending = {}
    BY <1>3
<1>a. CASE begin
    <2>1. accepted' = accepted
        BY <1>a DEF begin
    <2>2. dial'.at # "write" /\ (dial'.pending = dial.pending \/ dial'.pending = {})
        <3>1. CASE To("bullet") \/ To("connect")
            BY <1>4, <3>1 DEF To
        <3>2. CASE Give
            BY <1>5, <3>2 DEF Give
        <3>3. QED
            BY <1>a, <3>1, <3>2 DEF begin
    <2>3. QED
        BY <2>1, <2>2
<1>b. CASE \E answer \in Answers : fetchBullet(answer)
    <2>1. PICK answer \in Answers : fetchBullet(answer)
        BY <1>b
    <2>2. /\ accepted' = accepted /\ dial'.at # "write"
          /\ dial'.pending = dial.pending \/ dial'.pending = {}
        BY <2>1, FetchBulletMoves DEF IInv
    <2>3. QED
        BY <2>2
<1>c. CASE connect
    <2>1. /\ dial.at = "connect" /\ dial'.written = dial.written
          /\ dial'.pending = dial.pending \/ dial'.pending = {}
          /\ accepted' = accepted \/ accepted' = {asked[n] : n \in 1..Len(asked)}
        BY <1>c, ConnectMoves DEF IInv
    <2>2. dial.written = 0
        BY <2>1 DEF IInv, SocketOK
    <2>3. QED
        BY <2>1, <2>2
<1>d. CASE subscribe
    BY <1>d DEF subscribe, To, IInv, SocketOK
<1>e. CASE write
    <2>1. accepted' = accepted /\ dial.at = "write" /\ dial.written < Len(asked)
        BY <1>e DEF write
    <2>2. CASE venue # "TABDEAL" /\ socket = "open" /\ ~Returning("close")
        <3>1. dial' = [dial EXCEPT !.written = @ + 1,
                                   !.pending = @ \cup {asked[dial.written + 1]},
                                   !.at = IF dial.written + 1 = Len(asked) THEN "acks" ELSE @]
            BY <1>e, <2>2 DEF write
        <3>2. /\ dial'.at = IF dial.written + 1 = Len(asked) THEN "acks" ELSE dial.at
              /\ dial'.written = dial.written + 1
              /\ dial'.pending = dial.pending \cup {asked[dial.written + 1]}
            BY <3>1
        <3>3. dial.written + 1 \in 1..Len(asked) /\ dial.written \in Nat
            BY <2>1
        <3>4. dial'.at = "write" => dial'.written < Len(asked)
            BY <2>1, <3>2, <3>3
        <3>5. dial'.pending \subseteq {asked[n] : n \in 1..Len(asked)}
            BY <3>2, <3>3
        <3>6. QED
            BY <2>1, <3>4, <3>5
    <2>3. CASE To("handed") \/ Returning("close")
        <3>1. dial'.at # "write" /\ dial'.pending = dial.pending
            BY <1>4, <2>3 DEF To, Returning
        <3>2. QED
            BY <2>1, <3>1
    <2>4. QED
        BY <1>e, <2>2, <2>3 DEF write
<1>f. CASE read \/ readFails
    BY <1>f DEF read, readFails, To, Returning
<1>g. CASE subscribed
    BY <1>g DEF subscribed, To, Returning
<1>h. CASE close
    BY <1>h DEF close, Give
<1>i. CASE \/ watchdogFires \/ watchdogStops \/ watchdogCloses \/ tick \/ ping \/ pingerReturns
           \/ Close \/ ConnectionLost \/ Cancel \/ VenueSends
    BY <1>i DEF watchdogFires, watchdogStops, watchdogCloses, tick, ping, pingerReturns,
                Close, ConnectionLost, Cancel, VenueSends
<1>j. CASE VenueAnswers
    BY <1>j DEF VenueAnswers
<1>k. CASE VenueSubscribes
    BY <1>k DEF VenueSubscribes
<1>l. QED
    BY <1>a, <1>b, <1>c, <1>d, <1>e, <1>f, <1>g, <1>h, <1>i, <1>j, <1>k DEF DialNext, DialStep

LEMMA VenueInductive ==
    /\ Init => VInv
    /\ VInv /\ [Next]_vars => VInv'
<1>1. ASSUME Init PROVE VInv
    BY <1>1, Inductive DEF Init, DialInit, VInv, PlanOK, AcceptedOK, GotOK, DialAt
<1>2. ASSUME VInv, [Next]_vars PROVE VInv'
    <2>1. IInv'
        BY <1>2, Inductive DEF VInv
    <2>2. file' = file
        BY <1>2 DEF Next, vars, start, DialProceeds, receive, poll, refresh
    <2>3. CASE start
        <3>1. /\ stage = "load" /\ UNCHANGED <<dial, accepted, file, got, venue>>
            BY <2>3 DEF start
        <3>2. got = nothing /\ accepted = {} /\ dial.pending = {} /\ ~DialAt("write")
            BY <1>2, <3>1 DEF VInv, GotOK, IInv, SocketOK, DialAt
        <3>3. AcceptedOK' /\ GotOK'
            BY <3>1, <3>2 DEF AcceptedOK, GotOK, DialAt, nothing
        <3>4. PlanOK'
            <4>1. SUFFICES ASSUME stage' = "up" PROVE PlanOK'
                BY DEF PlanOK
            <4>2. PICK r \in reverses(file) :
                      LET a == [venue |-> file.venue, options |-> file, reverse |-> r]
                          p == PlanSubscriptions(a, Specifications(file))
                      IN  /\ ~PlanFails(a, Specifications(file))
                          /\ adapter' = a /\ plans' = p
                          /\ \E k \in DOMAIN p : plan' = p[k] /\ asked' = topics(a, p[k])
                BY <2>3, <4>1 DEF start
            <4>3. /\ ~PlanFails(adapter', Specifications(file))
                  /\ adapter' = [venue |-> file.venue, options |-> file, reverse |-> r]
                  /\ plans' = PlanSubscriptions(adapter', Specifications(file))
                  /\ \E k \in DOMAIN plans' : plan' = plans'[k] /\ asked' = topics(adapter', plans'[k])
                BY <4>2, Zenon
            <4>4. adapter'.venue = file.venue /\ adapter'.options = file /\ adapter'.reverse = r
                BY <4>3
            <4>5. Load(file) /\ ~NewFails(file)
                BY <2>3, <4>1 DEF start
            <4>6. QED
                BY <2>2, <4>2, <4>3, <4>4, <4>5 DEF PlanOK
        <3>5. QED
            BY <1>2, <2>1, <2>2, <3>3, <3>4 DEF VInv
    <2>4. CASE DialProceeds
        <3>1. /\ stage = "up" /\ DialNext /\ got' = nothing
              /\ UNCHANGED <<file, stage, adapter, plans, plan>> /\ UNCHANGED <<asked, venue>>
            BY <2>4, AskedKept DEF DialProceeds
        <3>2. AcceptedOK'
            BY <1>2, <3>1, AcceptedStepOK
        <3>3. PlanOK' /\ GotOK'
            BY <1>2, <3>1 DEF VInv, PlanOK, GotOK, nothing
        <3>4. QED
            BY <1>2, <2>1, <2>2, <3>2, <3>3 DEF VInv
    <2>5. CASE \/ \E symbol \in accepted : \E frame \in FramesOf(venue, symbol) : receive(symbol, frame)
               \/ stage = "up" /\ \E s \in plan.specifications, r \in ResponsesOf(venue) : poll(s, r)
               \/ \E r \in ListingsOf(venue) : refresh(r)
        <3>1. UNCHANGED <<dialVars, file, stage, adapter, plans, plan>>
            BY <2>5 DEF receive, poll, refresh
        <3>2. AcceptedOK' /\ PlanOK'
            BY <1>2, <3>1 DEF VInv, AcceptedOK, PlanOK, dialVars, DialAt
        <3>3. GotOK'
            <4>1. UNCHANGED <<venue, stage, file, adapter, plan>>
                BY <3>1 DEF dialVars
            <4>2. CASE \E symbol \in accepted : \E frame \in FramesOf(venue, symbol) : receive(symbol, frame)
                <5>1. PICK symbol \in accepted : \E frame \in FramesOf(venue, symbol) : receive(symbol, frame)
                    BY <4>2
                <5>2. PICK frame \in FramesOf(venue, symbol) : receive(symbol, frame)
                    BY <5>1
                <5>3. DialAt("handed")
                    BY <5>2 DEF receive
                <5>4. stage = "up"
                    BY <1>2, <5>3 DEF VInv, IInv, SocketOK, DialAt
                <5>5. symbol \in Symbols(file)
                    <6>1. asked \in Seq(Symbols(file)) /\ symbol \in {asked[n] : n \in 1..Len(asked)}
                        BY <1>2, <5>1, <5>4, AskedFacts DEF VInv, AcceptedOK
                    <6>2. QED
                        BY <6>1
                <5>6. got' = [kind |-> "frame", symbol |-> symbol, input |-> frame,
                              out |-> Parse(adapter, frame)]
                    BY <5>2 DEF receive
                <5>7. QED
                    BY <4>1, <5>4, <5>5, <5>6 DEF GotOK
            <4>3. CASE stage = "up" /\ \E s \in plan.specifications, r \in ResponsesOf(venue) : poll(s, r)
                BY <4>1, <4>3 DEF poll, GotOK
            <4>4. CASE \E r \in ListingsOf(venue) : refresh(r)
                BY <4>1, <4>4 DEF refresh, GotOK
            <4>5. QED
                BY <2>5, <4>2, <4>3, <4>4
        <3>4. QED
            BY <1>2, <2>1, <2>2, <3>2, <3>3 DEF VInv
    <2>6. CASE UNCHANGED vars
        BY <1>2, <2>1, <2>6 DEF VInv, vars, dialVars, PlanOK, AcceptedOK, GotOK, DialAt
    <2>7. QED
        BY <1>2, <2>3, <2>4, <2>5, <2>6 DEF Next
<1>3. QED
    BY <1>1, <1>2

\* A file that is let through has every stream on a socket and every symbol on one, no
\* socket is asked for more than the venue takes, and every key lives for a while
\* (the adapters' PlanSubscriptions, config.validateRateLimit, each New).
THEOREM PlansAreSound == Spec => []PlanIsSound
<1>1. ASSUME VInv PROVE PlanIsSound
    <2>1. SUFFICES ASSUME stage = "up"
                   PROVE  /\ UNION {plans[k].specifications : k \in DOMAIN plans} = Specifications(file)
                          /\ \A j, k \in DOMAIN plans :
                                 j # k => ToSet(topics(adapter, plans[j]))
                                          \cap ToSet(topics(adapter, plans[k])) = {}
                          /\ \A k \in DOMAIN plans :
                                 /\ Len(topics(adapter, plans[k])) \in 1..file.subscriptions
                                 /\ \A s \in plans[k].specifications : TimeToLive(file, s.channel) > 0
        BY DEF PlanIsSound
    <2>2. /\ adapter.venue = file.venue /\ adapter.options = file /\ file \in Files
          /\ plans = PlanSubscriptions(adapter, Specifications(file))
          /\ Load(file) /\ ~NewFails(file) /\ ~PlanFails(adapter, Specifications(file))
        BY <1>1, <2>1 DEF VInv, PlanOK
    <2>3. /\ IsFiniteSet(Specifications(file)) /\ adapter.options.max \in Nat \ {0}
          /\ file.max \in Nat \ {0} /\ file.subscriptions \in Nat /\ file.max <= file.subscriptions
        BY <2>2, FilesAssumption, LimitFacts
    <2>4. /\ \A k \in DOMAIN plans :
                 /\ Len(topics(adapter, plans[k])) \in 1..adapter.options.max
                 /\ plans[k].specifications
                    = {s \in Specifications(file) :
                          VenueSymbol(adapter, s.instrument) \in ToSet(topics(adapter, plans[k]))}
          /\ \A s \in Specifications(file) : \E k \in DOMAIN plans : s \in plans[k].specifications
          /\ \A j, k \in DOMAIN plans :
                 j # k => ToSet(topics(adapter, plans[j])) \cap ToSet(topics(adapter, plans[k])) = {}
        BY <1>1, <2>1, ThePlans DEF VInv
    <2>5. ASSUME NEW k \in DOMAIN plans PROVE Len(topics(adapter, plans[k])) \in 1..file.subscriptions
        <3>1. Len(topics(adapter, plans[k])) \in 1..file.max
            BY <2>2, <2>4
        <3>2. QED
            BY <2>3, <3>1
    <2>6. ASSUME NEW s \in Specifications(file) PROVE TimeToLive(file, s.channel) > 0
        <3>1. s.channel \in ServedChannels(file.venue)
            BY <2>2 DEF PlanFails, checkFails
        <3>2. ~(TimeToLive(file, s.channel) <= 0)
            BY <2>2, <3>1 DEF NewFails
        <3>3. TimeToLive(file, s.channel) \in Int
            <4>1. file.multiplier \in Int
                BY <2>2, FilesAssumption
            <4>2. (IF s.channel \in DOMAIN file.cadence THEN file.cadence[s.channel] ELSE 0) \in Int
                BY <2>2, FilesAssumption
            <4>3. QED
                BY <4>1, <4>2 DEF TimeToLive
        <3>4. QED
            BY <3>2, <3>3
    <2>7. UNION {plans[k].specifications : k \in DOMAIN plans} = Specifications(file)
        BY <2>4
    <2>8. QED
        BY <2>4, <2>5, <2>6, <2>7
<1>2. QED
    BY <1>1, VenueInductive, PTL DEF Spec

-----------------------------------------------------------------------------
(***************************************************************************)
(* What was last said, read                                                *)
(***************************************************************************)

\* A frame, an answer or a listing, whichever the venue sent, of the file's venue.
LEMMA Said ==
    ASSUME VInv
    PROVE  /\ venue = file.venue /\ venue \in Venues /\ file \in Files
           /\ got # nothing => /\ stage = "up" /\ adapter.venue = venue /\ adapter.options = file
                               /\ adapter.reverse \in reverses(file)
           /\ got.kind = "frame" => /\ got.symbol \in Symbols(file)
                                    /\ got.input \in FramesOf(venue, got.symbol)
                                    /\ got.out = Parse(adapter, got.input)
           /\ got.kind = "rest" => /\ got.specification \in plan.specifications
                                   /\ got.input \in ResponsesOf(venue)
                                   /\ got.out = FetchOnce(adapter, got.specification, got.input)
           /\ got.kind = "metadata" => /\ got.input \in ListingsOf(venue)
                                       /\ got.out = FetchMetadata(adapter, got.input)
<1>1. venue = file.venue /\ venue \in Venues /\ file \in Files
    BY DEF VInv, IInv, DialOK
<1>2. CASE got = nothing
    <2>1. got.kind = "nothing"
        BY <1>2 DEF nothing
    <2>2. QED
        BY <1>1, <1>2, <2>1
<1>3. CASE got # nothing
    <2>1. /\ stage = "up" /\ adapter.venue = venue /\ adapter.options = file
          /\ adapter.reverse \in reverses(file)
        BY <1>1, <1>3 DEF VInv, PlanOK, GotOK
    <2>2. CASE \E symbol \in Symbols(file) : \E frame \in FramesOf(venue, symbol) :
                   got = [kind |-> "frame", symbol |-> symbol, input |-> frame,
                          out |-> Parse(adapter, frame)]
        <3>0. PICK symbol \in Symbols(file) : \E frame \in FramesOf(venue, symbol) :
                   got = [kind |-> "frame", symbol |-> symbol, input |-> frame,
                          out |-> Parse(adapter, frame)]
            BY <2>2
        <3>1. PICK frame \in FramesOf(venue, symbol) :
                   got = [kind |-> "frame", symbol |-> symbol, input |-> frame,
                          out |-> Parse(adapter, frame)]
            BY <3>0
        <3>2. /\ got.kind = "frame" /\ got.symbol = symbol /\ got.input = frame
              /\ got.out = Parse(adapter, frame)
            BY <3>1
        <3>3. QED
            BY <1>1, <2>1, <3>2
    <2>3. CASE \E s \in plan.specifications, r \in ResponsesOf(venue) :
                   got = [kind |-> "rest", specification |-> s, input |-> r,
                          out |-> FetchOnce(adapter, s, r)]
        <3>1. PICK s \in plan.specifications, r \in ResponsesOf(venue) :
                   got = [kind |-> "rest", specification |-> s, input |-> r,
                          out |-> FetchOnce(adapter, s, r)]
            BY <2>3
        <3>2. /\ got.kind = "rest" /\ got.specification = s /\ got.input = r
              /\ got.out = FetchOnce(adapter, s, r)
            BY <3>1
        <3>3. QED
            BY <1>1, <2>1, <3>2
    <2>4. CASE \E r \in ListingsOf(venue) :
                   got = [kind |-> "metadata", input |-> r, out |-> FetchMetadata(adapter, r)]
        <3>1. PICK r \in ListingsOf(venue) :
                   got = [kind |-> "metadata", input |-> r, out |-> FetchMetadata(adapter, r)]
            BY <2>4
        <3>2. got.kind = "metadata" /\ got.input = r /\ got.out = FetchMetadata(adapter, r)
            BY <3>1
        <3>3. QED
            BY <1>1, <2>1, <3>2
    <2>5. QED
        BY <1>3, <2>2, <2>3, <2>4 DEF VInv, GotOK
<1>4. QED
    BY <1>2, <1>3

\* Numbers are decimal strings.
LEMMA SaidNumbers ==
    ASSUME VInv
    PROVE  /\ got.kind \in {"frame", "rest"} /\ venue # "TABDEAL"
              => {got.input.mark, got.input.index, got.input.rate} \subseteq Decimals /\ got.input.time \in Int
           /\ got.kind = "frame" /\ venue = "TABDEAL" => IsDepth(got.symbol, got.input)
           /\ got.kind = "rest" => IsAnswer(got.input)
           /\ got.kind = "metadata" => \A c \in got.input.contracts : IsContract(c)
<1>1. CASE got.kind = "frame"
    <2>1. /\ got.symbol \in Symbols(file) /\ got.input \in FramesOf(file.venue, got.symbol)
          /\ venue = file.venue /\ file \in Files
        BY <1>1, Said
    <2>2. IF file.venue = "TABDEAL" THEN IsDepth(got.symbol, got.input)
          ELSE IsPriceFrame(got.symbol, got.input)
        BY <2>1, PayloadsAssumption
    <2>3. QED
        BY <1>1, <2>1, <2>2 DEF IsPriceFrame
<1>2. CASE got.kind = "rest"
    <2>1. IsAnswer(got.input)
        BY <1>2, Said, PayloadsAssumption
    <2>2. QED
        BY <1>2, <2>1 DEF IsAnswer
<1>3. CASE got.kind = "metadata"
    BY <1>3, Said, PayloadsAssumption
<1>4. QED
    BY <1>1, <1>2, <1>3

\* Numbers are carried exactly or refused, at every scale, and print back to what they
\* were read from (pkg/price parse and format).
THEOREM PricesAreExact == Spec => []PricesExact
<1>1. ASSUME VInv PROVE PricesExact
    <2>1. SUFFICES ASSUME got.kind \in {"frame", "rest"}, venue # "TABDEAL",
                          NEW text \in {got.input.mark, got.input.index, got.input.rate}
                   PROVE  ParsedExactly(text, PriceExp, FALSE) /\ ParsedExactly(text, RateExp, TRUE)
        BY DEF PricesExact
    <2>2. text \in Decimals
        BY <1>1, <2>1, SaidNumbers
    <2>3. PriceExp \in Int /\ PriceExp <= 0 /\ RateExp \in Int /\ RateExp <= 0
        BY PriceAssumption
    <2>4. QED
        BY <2>2, <2>3, ParseExact
<1>2. QED
    BY <1>1, VenueInductive, PTL DEF Spec

\* A refresh that succeeds passes over no contract of the market that is an instrument
\* (the three metadata.go), and what Binance and KuCoin make of it can be traded on
\* (binance/metadata.go, kucoin/metadata.go).
THEOREM NoneIsPassedOver == Spec => []NoContractPassedOver
<1>1. ASSUME VInv PROVE NoContractPassedOver
    <2> DEFINE r == got.input
               outcome == got.out
    <2>1. SUFFICES ASSUME got.kind = "metadata", Succeeded(outcome), NEW c \in Ours(r)
                   PROVE  \E m \in outcome.messages :
                              /\ m.instrument = ParseVenueSymbol(adapter, c.symbol)
                              /\ venue \in {"BINANCE", "KUCOIN"} =>
                                     m.tick > 0 /\ m.lot > 0 /\ m.multiplier > 0 /\ Denotes(c.tick, m.tick, PriceExp)
        BY DEF NoContractPassedOver, Succeeded
    <2>2. got # nothing
        BY <2>1 DEF nothing
    <2>3. adapter.venue = venue /\ venue \in Venues /\ outcome = FetchMetadata(adapter, r)
        BY <1>1, <2>1, <2>2, Said
    <2>4. \A d \in r.contracts : d.tick \in Decimals
        BY <1>1, <2>1, SaidNumbers DEF IsContract
    <2>5. c \in r.contracts /\ (venue = "TABDEAL" \/ c.linear) /\ ParseVenueSymbol(adapter, c.symbol) # NoRef
        BY DEF Ours
    <2> HIDE DEF r, outcome
    <2>6. QED
        BY <2>1, <2>3, <2>4, <2>5, RefreshFacts
<1>2. QED
    BY <1>1, VenueInductive, PTL DEF Spec

\* Messages for all that a frame carries, and nothing else.
Whole(messages, carried, ms) ==
    /\ {m.specification.channel : m \in messages} = DOMAIN carried
    /\ \A m \in messages :
           LET channel == m.specification.channel
           IN  /\ Denotes(carried[channel], m.value, Scale(channel))
               /\ ms * Millisecond <= MaxInt
                  => m.exchangeTime = ms * Millisecond /\ m.exchangeTime > 0

LEMMA WholeOf ==
    ASSUME NEW messages, NEW carried, NEW ms \in Int, ms > 0,
           \A channel \in DOMAIN carried : \E m \in messages : m.specification.channel = channel,
           \A m \in messages :
               \E channel \in DOMAIN carried :
                   /\ m.specification.channel = channel
                   /\ Denotes(carried[channel], m.value, Scale(channel))
                   /\ m.exchangeTime = millisecondsToNanoseconds(ms)
    PROVE  Whole(messages, carried, ms)
<1>1. ms * Millisecond <= MaxInt
      => millisecondsToNanoseconds(ms) = ms * Millisecond /\ ms * Millisecond > 0
    BY Stamped
<1>2. {m.specification.channel : m \in messages} = DOMAIN carried
    OBVIOUS
<1>3. ASSUME NEW m \in messages
      PROVE  /\ Denotes(carried[m.specification.channel], m.value, Scale(m.specification.channel))
             /\ m.exchangeTime = millisecondsToNanoseconds(ms)
    OBVIOUS
<1>4. QED
    BY <1>1, <1>2, <1>3, Zenon DEF Whole

LEMMA KuCoinFrames ==
    ASSUME NEW a, NEW f, {f.mark, f.index, f.rate} \subseteq Decimals, f.time \in Int, venue = "KUCOIN",
           NEW outcome, outcome = ParseKuCoin(a, f), outcome.messages # {}
    PROVE  Whole(outcome.messages, Carries(f), f.time)
<1> DEFINE reference == ParseVenueSymbol(a, f.topic)
           carried == Carries(f)
<1>1. (\A err : Failed(err).messages = {}) /\ Nothing.messages = {}
    BY DEF Failed, Nothing
<1>2. \/ f.subject = "mark.index.price" /\ outcome = parseMarkIndex(a, reference, f)
      \/ f.subject = "funding.rate" /\ outcome = parseFunding(a, reference, f)
    BY <1>1, Zenon DEF ParseKuCoin
<1> HIDE DEF reference
<1>3. ~timestampFails(f.time) => f.time > 0
    BY TimestampAssumption DEF timestampFails
<1>4. CASE f.subject = "mark.index.price" /\ outcome = parseMarkIndex(a, reference, f)
    <2> DEFINE Mark == message(a, reference, "mark_price", f.time, "WEBSOCKET", ParsePrice(f.mark).v)
               Index == message(a, reference, "index_price", f.time, "WEBSOCKET", ParsePrice(f.index).v)
    <2>1. /\ f.time > 0 /\ outcome.messages = {Mark, Index}
          /\ Denotes(f.mark, ParsePrice(f.mark).v, PriceExp)
          /\ Denotes(f.index, ParsePrice(f.index).v, PriceExp)
        BY <1>3, <1>4, MarkIndexFacts
    <2>2. /\ Mark.specification.channel = "mark_price" /\ Mark.value = ParsePrice(f.mark).v
          /\ Mark.exchangeTime = millisecondsToNanoseconds(f.time)
          /\ Index.specification.channel = "index_price" /\ Index.value = ParsePrice(f.index).v
          /\ Index.exchangeTime = millisecondsToNanoseconds(f.time)
        BY DEF message
    <2>3. carried = [mark_price |-> f.mark, index_price |-> f.index]
        BY <1>4 DEF Carries
    <2>4. DOMAIN carried = {"mark_price", "index_price"} /\ carried["mark_price"] = f.mark
          /\ carried["index_price"] = f.index
        BY <2>3
    <2>5. Scale("mark_price") = PriceExp /\ Scale("index_price") = PriceExp
        BY DEF Scale
    <2> HIDE DEF Mark, Index, carried
    <2>6. QED
        BY <2>1, <2>2, <2>4, <2>5, WholeOf DEF carried
<1>5. CASE f.subject = "funding.rate" /\ outcome = parseFunding(a, reference, f)
    <2> DEFINE Rate == message(a, reference, "funding", f.time, "WEBSOCKET", ParseRate(f.rate).v)
    <2>1. /\ f.time > 0 /\ outcome.messages = {Rate} /\ f.rate # ErrEmpty
          /\ Denotes(f.rate, ParseRate(f.rate).v, RateExp)
        BY <1>3, <1>5, FundingFacts
    <2>2. /\ Rate.specification.channel = "funding" /\ Rate.value = ParseRate(f.rate).v
          /\ Rate.exchangeTime = millisecondsToNanoseconds(f.time)
        BY DEF message
    <2>3. carried = [c \in IF f.rate = ErrEmpty THEN {} ELSE {"funding"} |-> f.rate]
        BY <1>5 DEF Carries
    <2>4. DOMAIN carried = {"funding"} /\ carried["funding"] = f.rate
        BY <2>1, <2>3
    <2>5. Scale("funding") = RateExp
        BY DEF Scale
    <2> HIDE DEF Rate, carried
    <2>6. QED
        BY <2>1, <2>2, <2>4, <2>5, WholeOf DEF carried
<1>6. QED
    BY <1>2, <1>4, <1>5

LEMMA BinanceFrames ==
    ASSUME NEW a, NEW f, {f.mark, f.index, f.rate} \subseteq Decimals, f.time \in Int, venue = "BINANCE",
           NEW outcome, outcome = ParseBinance(a, f), outcome.messages # {}
    PROVE  Whole(outcome.messages, Carries(f), f.time)
<1> DEFINE reference == ParseVenueSymbol(a, f.symbol)
           carried == Carries(f)
           Mark == message(a, reference, "mark_price", f.time, "WEBSOCKET", ParsePrice(f.mark).v)
           Index == message(a, reference, "index_price", f.time, "WEBSOCKET", ParsePrice(f.index).v)
           Rate == message(a, reference, "funding", f.time, "WEBSOCKET", ParseRate(f.rate).v)
           short == f.rate = ErrEmpty \/ f.next <= 0
<1>1. /\ f.time > 0
      /\ Denotes(f.mark, ParsePrice(f.mark).v, PriceExp)
      /\ Denotes(f.index, ParsePrice(f.index).v, PriceExp)
      /\ IF short THEN outcome.messages = {Mark, Index}
         ELSE /\ outcome.messages = {Mark, Index} \cup {Rate}
              /\ Denotes(f.rate, ParseRate(f.rate).v, RateExp)
    BY MarkPriceFacts
<1>2. /\ Mark.specification.channel = "mark_price" /\ Mark.value = ParsePrice(f.mark).v
      /\ Mark.exchangeTime = millisecondsToNanoseconds(f.time)
      /\ Index.specification.channel = "index_price" /\ Index.value = ParsePrice(f.index).v
      /\ Index.exchangeTime = millisecondsToNanoseconds(f.time)
      /\ Rate.specification.channel = "funding" /\ Rate.value = ParseRate(f.rate).v
      /\ Rate.exchangeTime = millisecondsToNanoseconds(f.time)
    BY DEF message
<1>3. carried = [c \in {"mark_price", "index_price"} \cup (IF short THEN {} ELSE {"funding"}) |->
                     CASE c = "mark_price" -> f.mark [] c = "index_price" -> f.index [] OTHER -> f.rate]
    BY DEF Carries
<1>4. /\ DOMAIN carried = {"mark_price", "index_price"} \cup (IF short THEN {} ELSE {"funding"})
      /\ carried["mark_price"] = f.mark /\ carried["index_price"] = f.index
      /\ ~short => carried["funding"] = f.rate
    <2> HIDE DEF short
    <2>1. QED
        BY <1>3
<1>5. Scale("mark_price") = PriceExp /\ Scale("index_price") = PriceExp /\ Scale("funding") = RateExp
    BY DEF Scale
<1> HIDE DEF Mark, Index, Rate, carried, short
<1>6. \A m \in outcome.messages :
          \E channel \in DOMAIN carried :
              /\ m.specification.channel = channel
              /\ Denotes(carried[channel], m.value, Scale(channel))
              /\ m.exchangeTime = millisecondsToNanoseconds(f.time)
    <2>1. CASE short
        BY <1>1, <1>2, <1>4, <1>5, <2>1
    <2>2. CASE ~short
        BY <1>1, <1>2, <1>4, <1>5, <2>2
    <2>3. QED
        BY <2>1, <2>2
<1>7. \A channel \in DOMAIN carried : \E m \in outcome.messages : m.specification.channel = channel
    <2>1. CASE short
        BY <1>1, <1>2, <1>4, <2>1
    <2>2. CASE ~short
        BY <1>1, <1>2, <1>4, <2>2
    <2>3. QED
        BY <2>1, <2>2
<1>8. QED
    BY <1>1, <1>6, <1>7, WholeOf DEF carried

LEMMA TabdealFrames ==
    ASSUME NEW a, NEW f, {f.bids, f.asks} \subseteq Levels,
           NEW outcome, outcome = ParseTabdeal(a, f), NEW m \in outcome.messages
    PROVE  SideRead(f.bids, m.value.bids) /\ SideRead(f.asks, m.value.asks)
<1>1. (\A err : Failed(err).messages = {}) /\ Nothing.messages = {} /\ outcome.messages # {}
    BY DEF Failed, Nothing
<1>2. PICK reference, ms : /\ ~LevelsFail(f.bids) /\ ~LevelsFail(f.asks)
                           /\ outcome = book(a, reference, f.bids, f.asks, ms, "WEBSOCKET")
    BY <1>1, Zenon DEF ParseTabdeal
<1>3. f.bids \in Levels /\ f.asks \in Levels
    OBVIOUS
<1>4. PICK value, time :
          /\ outcome.messages = {message(a, reference, "orderbook", time, "WEBSOCKET", value)}
          /\ SideRead(f.bids, value.bids) /\ SideRead(f.asks, value.asks)
    <2>1. outcome = book(a, reference, f.bids, f.asks, ms, "WEBSOCKET") /\ outcome.messages # {}
        BY <1>1, <1>2
    <2>2. Booked(a, reference, f.bids, f.asks, "WEBSOCKET", outcome)
        BY <1>2, <1>3, <2>1, BookFacts
    <2>3. QED
        BY <2>2 DEF Booked
<1>5. m.value = value
    <2>1. m = message(a, reference, "orderbook", time, "WEBSOCKET", value)
        BY <1>4
    <2>2. message(a, reference, "orderbook", time, "WEBSOCKET", value).value = value
        BY DEF message
    <2>3. QED
        BY <2>1, <2>2
<1>6. QED
    BY <1>4, <1>5

\* A frame becomes messages for all it carries or for nothing, each with the number
\* that was written; the fallback's answer is what was asked for (binance/parse.go,
\* kucoin/parse.go, tabdeal/parse.go and each fetch.go).
THEOREM FramesAreWhole == Spec => []FramesWhole
<1>1. ASSUME VInv, got.kind = "frame", venue # "TABDEAL", got.out.messages # {}
      PROVE  Whole(got.out.messages, Carries(got.input), got.input.time)
    <2> DEFINE f == got.input
               outcome == got.out
    <2>1. got # nothing
        BY <1>1 DEF nothing
    <2>2. venue \in Venues /\ adapter.venue = venue /\ outcome = Parse(adapter, f)
        BY <1>1, <2>1, Said
    <2>3. {f.mark, f.index, f.rate} \subseteq Decimals /\ f.time \in Int
        BY <1>1, SaidNumbers
    <2>4. outcome.messages # {}
        BY <1>1
    <2> HIDE DEF f, outcome
    <2>5. CASE venue = "BINANCE"
        <3>1. outcome = ParseBinance(adapter, f)
            BY <2>2, <2>5 DEF Parse
        <3>2. QED
            BY <2>3, <2>4, <2>5, <3>1, BinanceFrames DEF f, outcome
    <2>6. CASE venue = "KUCOIN"
        <3>1. outcome = ParseKuCoin(adapter, f)
            BY <2>2, <2>6 DEF Parse
        <3>2. QED
            BY <2>3, <2>4, <2>6, <3>1, KuCoinFrames DEF f, outcome
    <2>7. QED
        BY <1>1, <2>2, <2>5, <2>6 DEF Venues
<1>2. ASSUME VInv, got.kind = "frame", venue = "TABDEAL", NEW m \in got.out.messages
      PROVE  SideRead(got.input.bids, m.value.bids) /\ SideRead(got.input.asks, m.value.asks)
    <2> DEFINE f == got.input
               outcome == got.out
    <2>1. got # nothing
        BY <1>2 DEF nothing
    <2>2. adapter.venue = "TABDEAL" /\ outcome = Parse(adapter, f)
        BY <1>2, <2>1, Said
    <2>3. {f.bids, f.asks} \subseteq Levels
        BY <1>2, SaidNumbers DEF IsDepth, Levels
    <2>4. m \in outcome.messages
        BY <1>2
    <2> HIDE DEF f, outcome
    <2>5. outcome = ParseTabdeal(adapter, f)
        BY <2>2 DEF Parse
    <2>6. QED
        BY <2>3, <2>4, <2>5, TabdealFrames DEF f
<1>3. ASSUME VInv, got.kind = "rest", NEW m \in got.out.messages
      PROVE  m.specification = got.specification /\ m.source = "REST"
    <2> DEFINE s == got.specification
               r == got.input
               outcome == got.out
    <2>1. got # nothing
        BY <1>3 DEF nothing
    <2>2. /\ stage = "up" /\ file \in Files /\ adapter.venue \in Venues /\ s \in plan.specifications
          /\ outcome = FetchOnce(adapter, s, r)
        BY <1>3, <2>1, Said
    <2>3. {r.bids, r.asks} \subseteq Levels
        BY <1>3, SaidNumbers DEF IsAnswer, Levels
    <2>4. m \in outcome.messages
        BY <1>3
    <2> HIDE DEF r, outcome
    <2>5. s \in Specifications(file)
        <3>1. PICK k \in DOMAIN plans : plan = plans[k]
            BY <1>3, <2>2 DEF VInv, PlanOK
        <3>2. \A x \in plans[k].specifications : x \in Specifications(file)
            BY <1>3, <2>2, ThePlans DEF VInv
        <3>3. QED
            BY <2>2, <3>1, <3>2
    <2>6. s = [instrument |-> s.instrument, channel |-> s.channel]
        <3> HIDE DEF s
        <3>1. PICK x \in Streams(file) :
                  s = [instrument |-> ParseCanonical(x.symbol, x.market), channel |-> x.channel]
            BY <2>5 DEF Specifications
        <3>2. QED
            BY <3>1
    <2> HIDE DEF s
    <2>7. QED
        BY <2>2, <2>3, <2>4, <2>6, FetchOnceFacts DEF s
<1>4. ASSUME VInv PROVE FramesWhole
    <2>1. ASSUME got.kind = "frame", venue # "TABDEAL", got.out.messages # {}
          PROVE  /\ {m.specification.channel : m \in got.out.messages} = DOMAIN Carries(got.input)
                 /\ \A m \in got.out.messages :
                        LET channel == m.specification.channel
                        IN  /\ Denotes(Carries(got.input)[channel], m.value, Scale(channel))
                            /\ got.input.time * Millisecond <= MaxInt
                               => m.exchangeTime = got.input.time * Millisecond /\ m.exchangeTime > 0
        BY <1>1, <1>4, <2>1, Zenon DEF Whole
    <2>2. ASSUME got.kind = "frame", venue = "TABDEAL", NEW m \in got.out.messages
          PROVE  /\ Len(m.value.bids) = Len(got.input.bids) /\ Len(m.value.asks) = Len(got.input.asks)
                 /\ \A side \in {"bids", "asks"} : \A n \in DOMAIN m.value[side] :
                        /\ Denotes(got.input[side][n][1], m.value[side][n][1], PriceExp)
                        /\ Denotes(got.input[side][n][2], m.value[side][n][2], SizeExp)
        <3>1. SideRead(got.input.bids, m.value.bids) /\ SideRead(got.input.asks, m.value.asks)
            BY <1>2, <1>4, <2>2
        <3>2. ASSUME NEW side, NEW numbers, SideRead(side, numbers), NEW n \in DOMAIN numbers
              PROVE  /\ Denotes(side[n][1], numbers[n][1], PriceExp)
                     /\ Denotes(side[n][2], numbers[n][2], SizeExp)
            BY <3>2 DEF SideRead, LevelRead
        <3>3. Len(m.value.bids) = Len(got.input.bids) /\ Len(m.value.asks) = Len(got.input.asks)
            BY <3>1 DEF SideRead
        <3>4. QED
            BY <3>1, <3>2, <3>3
    <2>3. QED
        BY <1>3, <1>4, <2>1, <2>2, Zenon DEF FramesWhole
<1>5. QED
    BY <1>4, VenueInductive, PTL DEF Spec

-----------------------------------------------------------------------------
(***************************************************************************)
(* Where a frame is filed                                                  *)
(***************************************************************************)

\* A message about an instrument.
About(a, reference, m) ==
    \E channel, ms, source, value : m = message(a, reference, channel, ms, source, value)

\* Nothing reads a frame without a symbol as an instrument's, so the symbol a frame is
\* read by is the one it came for.
LEMMA SymbolOfFrame ==
    ASSUME NEW a, a.venue \in Venues, NEW symbol, NEW s, s = symbol \/ s = <<>>,
           ParseVenueSymbol(a, s) # NoRef
    PROVE  s = symbol
<1>1. s # <<>>
    BY ParseVenueSymbolFacts
<1>2. QED
    BY <1>1

LEMMA BinanceFiled ==
    ASSUME NEW a, a.venue = "BINANCE", NEW symbol, NEW f, IsPriceFrame(symbol, f),
           NEW outcome, outcome = ParseBinance(a, f), NEW m \in outcome.messages
    PROVE  ParseVenueSymbol(a, symbol) # NoRef /\ About(a, ParseVenueSymbol(a, symbol), m)
<1> DEFINE reference == ParseVenueSymbol(a, f.symbol)
           Mark == message(a, reference, "mark_price", f.time, "WEBSOCKET", ParsePrice(f.mark).v)
           Index == message(a, reference, "index_price", f.time, "WEBSOCKET", ParsePrice(f.index).v)
           Rate == message(a, reference, "funding", f.time, "WEBSOCKET", ParseRate(f.rate).v)
           short == f.rate = ErrEmpty \/ f.next <= 0
<1>1. {f.mark, f.index, f.rate} \subseteq Decimals /\ f.time \in Int /\ f.symbol \in {symbol, <<>>}
    BY DEF IsPriceFrame
<1>2. outcome.messages # {} /\ a.venue \in Venues
    BY DEF Venues
<1>3. /\ reference # NoRef
      /\ IF short THEN outcome.messages = {Mark, Index}
         ELSE outcome.messages = {Mark, Index} \cup {Rate}
    BY <1>1, <1>2, MarkPriceFacts
<1>4. About(a, reference, Mark) /\ About(a, reference, Index) /\ About(a, reference, Rate)
    BY DEF About
<1> HIDE DEF Mark, Index, Rate, short
<1>5. About(a, reference, m)
    BY <1>3, <1>4
<1>6. f.symbol = symbol
    BY <1>1, <1>2, <1>3, SymbolOfFrame
<1>7. QED
    BY <1>3, <1>5, <1>6

LEMMA KuCoinFiled ==
    ASSUME NEW a, a.venue = "KUCOIN", NEW symbol, NEW f, IsPriceFrame(symbol, f),
           NEW outcome, outcome = ParseKuCoin(a, f), NEW m \in outcome.messages
    PROVE  ParseVenueSymbol(a, symbol) # NoRef /\ About(a, ParseVenueSymbol(a, symbol), m)
<1> DEFINE reference == ParseVenueSymbol(a, f.topic)
           Mark == message(a, reference, "mark_price", f.time, "WEBSOCKET", ParsePrice(f.mark).v)
           Index == message(a, reference, "index_price", f.time, "WEBSOCKET", ParsePrice(f.index).v)
           Rate == message(a, reference, "funding", f.time, "WEBSOCKET", ParseRate(f.rate).v)
<1>1. {f.mark, f.index, f.rate} \subseteq Decimals /\ f.topic \in {symbol, <<>>}
    BY DEF IsPriceFrame
<1>2. outcome.messages # {} /\ a.venue \in Venues
    BY DEF Venues
<1>3. (\A err : Failed(err).messages = {}) /\ Nothing.messages = {}
    BY DEF Failed, Nothing
<1>4. /\ reference # NoRef
      /\ outcome = parseMarkIndex(a, reference, f) \/ outcome = parseFunding(a, reference, f)
    BY <1>2, <1>3, Zenon DEF ParseKuCoin
<1>5. About(a, reference, Mark) /\ About(a, reference, Index) /\ About(a, reference, Rate)
    BY DEF About
<1>6. outcome.messages = {Mark, Index} \/ outcome.messages = {Rate}
    <2>1. CASE outcome = parseMarkIndex(a, reference, f)
        <3> HIDE DEF reference
        <3>1. QED
            BY <1>1, <1>2, <2>1, MarkIndexFacts
    <2>2. CASE outcome = parseFunding(a, reference, f)
        <3> HIDE DEF reference
        <3>1. QED
            BY <1>1, <1>2, <2>2, FundingFacts
    <2>3. QED
        BY <1>4, <2>1, <2>2
<1> HIDE DEF Mark, Index, Rate
<1>7. About(a, reference, m)
    BY <1>5, <1>6
<1>8. f.topic = symbol
    <2>1. ParseVenueSymbol(a, f.topic) # NoRef
        BY <1>4
    <2>2. f.topic = symbol \/ f.topic = <<>>
        BY <1>1, <1>2
    <2> HIDE DEF reference
    <2>3. QED
        BY <1>2, <2>1, <2>2, SymbolOfFrame
<1>9. QED
    BY <1>4, <1>7, <1>8

LEMMA TabdealFiled ==
    ASSUME NEW a, a.venue = "TABDEAL", NEW symbol, NEW f, IsDepth(symbol, f),
           NEW outcome, outcome = ParseTabdeal(a, f), NEW m \in outcome.messages
    PROVE  ParseVenueSymbol(a, symbol) # NoRef /\ About(a, ParseVenueSymbol(a, symbol), m)
<1> DEFINE named == IF f.symbol = <<>> THEN f.outer.symbol ELSE f.symbol
           reference == ParseVenueSymbol(a, named)
<1>1. f.bids \in Levels /\ f.asks \in Levels /\ named \in {symbol, <<>>}
    BY DEF IsDepth, Levels
<1>2. outcome.messages # {} /\ a.venue \in Venues
    BY DEF Venues
<1>3. (\A err : Failed(err).messages = {}) /\ Nothing.messages = {}
    BY DEF Failed, Nothing
<1>4. /\ reference # NoRef /\ ~LevelsFail(f.bids) /\ ~LevelsFail(f.asks)
      /\ \E ms : outcome = book(a, reference, f.bids, f.asks, ms, "WEBSOCKET")
    BY <1>2, <1>3, Zenon DEF ParseTabdeal
<1> HIDE DEF named
<1>5. named = symbol
    <2>1. ParseVenueSymbol(a, named) # NoRef
        BY <1>4
    <2> HIDE DEF reference
    <2>2. QED
        BY <1>1, <1>2, <2>1, SymbolOfFrame
<1>6. PICK ms : outcome = book(a, reference, f.bids, f.asks, ms, "WEBSOCKET")
    BY <1>4
<1> HIDE DEF reference
<1>7. Booked(a, reference, f.bids, f.asks, "WEBSOCKET", outcome)
    BY <1>1, <1>2, <1>4, <1>6, BookFacts
<1>8. About(a, reference, m)
    BY <1>7 DEF Booked, About
<1>9. QED
    BY <1>4, <1>5, <1>8 DEF reference

LEMMA OverridesTurned ==
    ASSUME PlanOK, file \in Files, stage = "up"
    PROVE  Overriding(adapter)
<1> DEFINE Overrides == file.overrides
<1>1. /\ adapter.venue = file.venue /\ adapter.options = file /\ adapter.reverse \in reverses(file)
      /\ Load(file)
    BY DEF PlanOK
<1>2. /\ file.venue \in Venues /\ DOMAIN Overrides \subseteq Seq(STRING)
      /\ Overrides \in [DOMAIN Overrides -> Seq(STRING)]
    BY FilesAssumption
<1>3. \A c \in DOMAIN Overrides : CanonicalRe(c)
    BY <1>1, Zenon DEF Load, validateFails, validateSymbolOverrides
<1>4. /\ adapter.reverse \in [Range(Overrides) -> DOMAIN Overrides]
      /\ \A s \in DOMAIN adapter.reverse : Overrides[adapter.reverse[s]] = s
    BY <1>1 DEF reverses
<1>5. \A c \in DOMAIN Overrides : Overrides[c] \in Range(Overrides)
    BY DEF Range
<1>6. \A c \in DOMAIN Overrides : c \in Seq(Fragments)
    BY <1>2, Strings
<1>7. /\ DOMAIN adapter.reverse = Range(Overrides)
      /\ \A s \in DOMAIN adapter.reverse : adapter.reverse[s] \in DOMAIN Overrides
    BY <1>4
<1> HIDE DEF Overrides
<1>8. adapter.options.overrides = Overrides
    BY <1>1 DEF Overrides
<1>9. QED
    BY <1>1, <1>2, <1>3, <1>4, <1>5, <1>6, <1>7, <1>8, Zenon DEF Overriding

\* The streams of what is up are of linear perpetuals with canonical symbols.
LEMMA Canonicals ==
    ASSUME PlanOK, file \in Files, stage = "up", NEW s \in Specifications(file)
    PROVE  \E c \in Seq(Fragments) : CanonicalRe(c) /\ s.instrument = ParseCanonical(c, MarketType)
<1>1. /\ Load(file) /\ ~PlanFails(adapter, Specifications(file))
    BY DEF PlanOK
<1>2. PICK x \in Streams(file) :
          s = [instrument |-> ParseCanonical(x.symbol, x.market), channel |-> x.channel]
    BY DEF Specifications
<1>3. s.instrument = ParseCanonical(x.symbol, x.market)
    BY <1>2
<1>4. x.symbol \in Seq(Fragments)
    <2>1. x.symbol \in Seq(STRING)
        BY FilesAssumption
    <2>2. QED
        BY <2>1, Strings
<1>5. CanonicalRe(x.symbol) /\ x.market \in MarketTypes
    <2>1. PICK n \in DOMAIN file.blocks :
              x \in {[market |-> ParseMarketType(file.blocks[n].market), symbol |-> symbol, channel |-> channel] :
                        symbol \in ToSet(file.blocks[n].symbols), channel \in ToSet(file.blocks[n].channels)}
        BY DEF Streams
    <2>2. x.market = ParseMarketType(file.blocks[n].market) /\ x.symbol \in ToSet(file.blocks[n].symbols)
        BY <2>1
    <2>3. ~resolveInstruments(file)
        BY <1>1 DEF Load, validateFails
    <2>4. /\ ParseMarketType(file.blocks[n].market) \in MarketTypes
          /\ \A symbol \in ToSet(file.blocks[n].symbols) : CanonicalRe(symbol)
        BY <2>3 DEF resolveInstruments
    <2>5. QED
        BY <2>2, <2>4
<1>6. x.market = MarketType
    <2>1. s.instrument.market = MarketType
        BY <1>1 DEF PlanFails, checkFails
    <2>2. ParseCanonical(x.symbol, x.market).market = x.market
        BY <1>4, <1>5, CanonicalFacts
    <2>3. QED
        BY <1>3, <2>1, <2>2
<1>7. QED
    BY <1>3, <1>4, <1>5, <1>6

\* What the streams are called is spelled from fragments, on Tabdeal with a separator
\* unless an override says otherwise.
LEMMA SymbolsSpelled ==
    ASSUME PlanOK, file \in Files, stage = "up", NEW symbol \in Symbols(file)
    PROVE  /\ symbol \in Seq(Fragments)
           /\ adapter.venue = "TABDEAL" => symbol \in DOMAIN adapter.reverse \/ Separator \in ToSet(symbol)
<1>1. adapter.venue = file.venue /\ adapter.options = file /\ Overriding(adapter)
    BY OverridesTurned DEF PlanOK
<1>2. PICK s \in Specifications(file) : symbol = VenueSymbol(adapter, s.instrument)
    BY <1>1, Called
<1>3. PICK c \in Seq(Fragments) : CanonicalRe(c) /\ s.instrument = ParseCanonical(c, MarketType)
    BY Canonicals
<1> DEFINE i == s.instrument
<1>4. Name(i.base) /\ Name(i.quote) /\ i.market = MarketType /\ Canonical(i) = c
    BY <1>3, CanonicalFacts, Suffix
<1>5. adapter.venue \in Venues
    BY <1>1 DEF Overriding
<1>6. symbol = IF c \in DOMAIN file.overrides THEN file.overrides[c] ELSE Plain(adapter.venue, i)
    <2> HIDE DEF i
    <2>1. QED
        BY <1>1, <1>2, <1>4, <1>5, Spellings DEF i
<1> HIDE DEF i
<1>7. CASE c \in DOMAIN file.overrides
    <2>1. file.overrides[c] \in Seq(STRING)
        BY <1>7, FilesAssumption
    <2>2. file.overrides[c] \in DOMAIN adapter.reverse
        BY <1>1, <1>7 DEF Overriding
    <2>3. QED
        BY <1>6, <1>7, <2>1, <2>2, Strings
<1>8. CASE c \notin DOMAIN file.overrides
    <2>1. i.base \in Seq(Fragments) /\ i.quote \in Seq(Fragments)
        BY <1>4 DEF Name
    <2>2. i.base \o i.quote \in Seq(Fragments)
        BY <2>1, Joined
    <2>3. (i.base \o i.quote) \o linearSuffix \in Seq(Fragments)
        BY <2>2, Suffix, Joined
    <2>4. Separator \in ToSet(c)
        BY <1>3, SeparatorIn
    <2>5. symbol = Plain(adapter.venue, i)
        BY <1>6, <1>8
    <2>6. CASE adapter.venue = "BINANCE"
        BY <2>2, <2>5, <2>6 DEF Plain
    <2>7. CASE adapter.venue = "KUCOIN"
        BY <2>3, <2>5, <2>7 DEF Plain
    <2>8. CASE adapter.venue = "TABDEAL"
        BY <1>3, <1>4, <2>4, <2>5, <2>8 DEF Plain
    <2>9. QED
        BY <1>5, <2>6, <2>7, <2>8 DEF Venues
<1>9. QED
    BY <1>7, <1>8

\* A frame is filed under an instrument that has the symbol it came for, and a stream
\* nothing else is spelled like gets what was sent for it (each venue's symbols.go and
\* parse.go, adapter.Message).
THEOREM FramesAreFiled == Spec => []FiledUnderItsStream
<1>1. ASSUME VInv PROVE FiledUnderItsStream
    <2> DEFINE symbol == got.symbol
               f == got.input
               outcome == got.out
    <2>1. SUFFICES ASSUME got.kind = "frame", NEW m \in outcome.messages
                   PROVE  LET reference == m.specification.instrument
                          IN  /\ symbol \in {VenueSymbol(adapter, reference), OwnSpelling(adapter, reference)}
                              /\ m.key = <<venue, MarketType, Canonical(reference), m.specification.channel>>
                              /\ \A s \in plan.specifications :
                                     VenueSymbol(adapter, s.instrument) = symbol
                                     /\ Unmistakable(adapter, s.instrument)
                                     => reference = s.instrument
        BY DEF FiledUnderItsStream
    <2>2. got # nothing
        BY <2>1 DEF nothing
    <2>3. /\ venue = file.venue /\ venue \in Venues /\ file \in Files /\ stage = "up"
          /\ adapter.venue = venue /\ adapter.options = file
          /\ symbol \in Symbols(file) /\ f \in FramesOf(venue, symbol) /\ outcome = Parse(adapter, f)
        BY <1>1, <2>1, <2>2, Said
    <2>4. PlanOK /\ Overriding(adapter)
        BY <1>1, <2>3, OverridesTurned DEF VInv
    <2>5. /\ symbol \in Seq(Fragments)
          /\ adapter.venue = "TABDEAL" => symbol \in DOMAIN adapter.reverse \/ Separator \in ToSet(symbol)
        BY <2>3, <2>4, SymbolsSpelled
    <2>6. IF venue = "TABDEAL" THEN IsDepth(symbol, f) ELSE IsPriceFrame(symbol, f)
        BY <2>3, PayloadsAssumption
    <2> HIDE DEF symbol, f, outcome
    <2> DEFINE reference == ParseVenueSymbol(adapter, symbol)
    <2>7. reference # NoRef /\ About(adapter, reference, m)
        <3>1. CASE venue = "BINANCE"
            <4>1. outcome = ParseBinance(adapter, f)
                BY <2>3, <3>1 DEF Parse
            <4>2. QED
                BY <2>1, <2>3, <2>6, <3>1, <4>1, BinanceFiled
        <3>2. CASE venue = "KUCOIN"
            <4>1. outcome = ParseKuCoin(adapter, f)
                BY <2>3, <3>2 DEF Parse
            <4>2. QED
                BY <2>1, <2>3, <2>6, <3>2, <4>1, KuCoinFiled
        <3>3. CASE venue = "TABDEAL"
            <4>1. outcome = ParseTabdeal(adapter, f)
                BY <2>3, <3>3 DEF Parse
            <4>2. QED
                BY <2>1, <2>3, <2>6, <3>3, <4>1, TabdealFiled
        <3>4. QED
            BY <2>3, <3>1, <3>2, <3>3 DEF Venues
    <2>8. /\ m.specification.instrument = reference
          /\ m.key = <<adapter.venue, reference.market, Canonical(reference), m.specification.channel>>
        <3> HIDE DEF reference
        <3>1. PICK channel, ms, source, value : m = message(adapter, reference, channel, ms, source, value)
            BY <2>7 DEF About
        <3>2. m.specification.instrument = reference /\ m.specification.channel = channel
            <4>1. message(adapter, reference, channel, ms, source, value).specification
                  = [instrument |-> reference, channel |-> channel]
                BY DEF message
            <4>2. QED
                BY <3>1, <4>1
        <3>3. m.key = <<adapter.venue, reference.market, Canonical(reference), channel>>
            <4>1. message(adapter, reference, channel, ms, source, value).key
                  = <<adapter.venue, reference.market, Canonical(reference), channel>>
                BY DEF message
            <4>2. QED
                BY <3>1, <4>1
        <3>4. QED
            BY <3>2, <3>3
    <2>9. reference.market = MarketType
          /\ symbol \in {VenueSymbol(adapter, reference), OwnSpelling(adapter, reference)}
        BY <2>4, <2>5, <2>7, ReadAsItsOwn
    <2>10. ASSUME NEW s \in plan.specifications, VenueSymbol(adapter, s.instrument) = symbol,
                  Unmistakable(adapter, s.instrument)
           PROVE  reference = s.instrument
        <3>1. s \in Specifications(file)
            <4>1. PICK k \in DOMAIN plans : plan = plans[k]
                BY <2>3, <2>4 DEF PlanOK
            <4>2. \A x \in plans[k].specifications : x \in Specifications(file)
                BY <2>3, <2>4, ThePlans
            <4>3. QED
                BY <2>10, <4>1, <4>2
        <3>2. PICK c \in Seq(Fragments) : CanonicalRe(c) /\ s.instrument = ParseCanonical(c, MarketType)
            BY <2>3, <2>4, <3>1, Canonicals
        <3>3. reference # NoRef
            BY <2>7
        <3>4. QED
            BY <2>4, <2>10, <3>2, <3>3, ReadBack
    <2> HIDE DEF reference
    <2>11. QED
        BY <2>3, <2>8, <2>9, <2>10
<1>2. QED
    BY <1>1, VenueInductive, PTL DEF Spec
=================================================================================
