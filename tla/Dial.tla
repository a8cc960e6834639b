---------------------------------- MODULE Dial ----------------------------------
(***************************************************************************)
(* Adapter.Dial and the connection it hands over: one socket for one plan. *)
(*                                                                         *)
(* Binance has the streams in the address, Tabdeal sends one SUBSCRIBE and *)
(* returns, and KuCoin asks for an address over REST, sends a subscribe    *)
(* frame per topic, waits for the acknowledgements under a watchdog that   *)
(* closes the socket, and hands over a connection with a ping goroutine.   *)
(*                                                                         *)
(* The venue may answer in any order or not at all, and the network may    *)
(* lose the connection.  A step is one call into the network, one select   *)
(* or one lock.  Time is abstract: a timer may fire at any moment.         *)
(***************************************************************************)
EXTENDS Integers, Sequences, FiniteSets

CONSTANTS
    MaxInbox    \* bound: frames on their way to us

ASSUME DialAssumption == MaxInbox \in Nat \ {0}

VARIABLES
    venue,      \* whose Dial it is
    asked,      \* the plan's topics, a sequence
    dial,       \* at; written, the subscribe frames sent; pending, the topics
                \* whose acknowledgement is outstanding
    socket,     \* the websocket: "none", "open", "lost" and "closed"
    watchdog,   \* closeAfter's goroutine: at, and whether stop() was called
    pinger,     \* pingingConn: at, and whether its channel closed is closed
    interval,   \* the ping interval of the bullet, in some unit
    inbox,      \* frames on their way to us
    accepted,   \* what the venue has subscribed us to
    cancelled   \* the context given to Dial has ended

dialVars == <<venue, asked, dial, socket, watchdog, pinger, interval, inbox, accepted, cancelled>>

DialAt(place) == dial.at = place

To(place) == dial' = [dial EXCEPT !.at = place]

\* An error return.
Give == dial' = [dial EXCEPT !.at = "failed", !.pending = {}]

\* Dial's start: a plan without topics is an error, and so is no budget for a
\* connection.
begin ==
    /\ DialAt("start")
    /\ \/ asked # <<>> /\ To(IF venue = "KUCOIN" THEN "bullet" ELSE "connect")
       \/ Give
    /\ UNCHANGED <<venue, asked, socket, watchdog, pinger, interval, inbox, accepted, cancelled>>

\* Mutant: the venue's ping interval is not looked at.
parseBulletUnchecked(answer) == answer.ok /\ answer.token /\ answer.servers # <<>>

\* parseBullet: a token, and a first server with an endpoint and a ping contract.
parseBullet(answer) ==
    /\ answer.ok /\ answer.token /\ answer.servers # <<>>
    /\ answer.servers[1].endpoint
    /\ answer.servers[1].pingInterval > 0 /\ answer.servers[1].pingTimeout > 0

\* What the bootstrap may answer: no answer at all, an error, a 200 with another
\* code, and offers whose fields may be missing.
Servers == [endpoint : BOOLEAN, pingInterval : {0, 1}, pingTimeout : {0, 1}]
Answers == [ok : BOOLEAN, token : BOOLEAN, servers : {<<>>} \cup {<<s>> : s \in Servers}]

\* fetchBullet: the limiter, the POST and what it answers.
fetchBullet(answer) ==
    /\ DialAt("bullet")
    /\ IF parseBullet(answer)
       THEN To("connect") /\ interval' = answer.servers[1].pingInterval
       ELSE Give /\ UNCHANGED interval
    /\ UNCHANGED <<venue, asked, socket, watchdog, pinger, inbox, accepted, cancelled>>

\* The streams are in the address: Binance refuses the handshake for one that it
\* does not know.
connectedBinance ==
    To("handed") /\ accepted' = {asked[n] : n \in 1..Len(asked)} /\ inbox' = <<>>

\* KuCoin's first frame is a welcome.
connectedKuCoin ==
    To("subscribe") /\ inbox' = <<[type |-> "welcome", topic |-> asked[1]]>> /\ UNCHANGED accepted

connectedTabdeal == To("write") /\ inbox' = <<>> /\ UNCHANGED accepted

\* transport.Dial.
connect ==
    /\ DialAt("connect")
    /\ \/ /\ socket' = "open"
          /\ CASE venue = "BINANCE" -> connectedBinance
               [] venue = "KUCOIN"  -> connectedKuCoin
               [] venue = "TABDEAL" -> connectedTabdeal
       \/ Give /\ UNCHANGED <<socket, accepted, inbox>>
    /\ UNCHANGED <<venue, asked, watchdog, pinger, interval, cancelled>>

\* subscribe: the limiter, then the watchdog.
subscribe ==
    /\ DialAt("subscribe")
    /\ \/ To("write") /\ watchdog' = [watchdog EXCEPT !.at = "armed"]
       \/ To("close") /\ UNCHANGED watchdog
    /\ UNCHANGED <<venue, asked, socket, pinger, interval, inbox, accepted, cancelled>>

\* subscribe's return: the deferred stop().
Returning(place) ==
    /\ To(place)
    /\ watchdog' = [watchdog EXCEPT !.stopped = TRUE]

\* One subscribe frame; Tabdeal sends one for all topics.
write ==
    /\ DialAt("write")
    /\ \/ /\ socket = "open"
          /\ IF venue = "TABDEAL"
             THEN To("handed")
             ELSE dial' = [dial EXCEPT !.written = @ + 1,
                                       !.pending = @ \cup {asked[dial.written + 1]},
                                       !.at = IF dial.written + 1 = Len(asked) THEN "acks" ELSE @]
          /\ UNCHANGED watchdog
       \/ Returning("close")
    /\ UNCHANGED <<venue, asked, socket, pinger, interval, inbox, accepted, cancelled>>

\* Mutant: a refusal settles a subscription as an acknowledgement does.
readLenient ==
    LET frame == Head(inbox)
    IN  /\ DialAt("acks") /\ dial.pending # {} /\ inbox # <<>> /\ socket # "closed"
        /\ inbox' = Tail(inbox)
        /\ CASE frame.type \in {"ack", "error"} ->
                    dial' = [dial EXCEPT !.pending = @ \ {frame.topic}] /\ UNCHANGED watchdog
             [] frame.type = "junk" -> Returning("close")
             [] OTHER -> UNCHANGED <<dial, watchdog>>
        /\ UNCHANGED <<venue, asked, socket, pinger, interval, accepted, cancelled>>

\* The handshake's next frame: an acknowledgement, a refusal, one that is not
\* JSON, or one that is dropped.
read ==
    LET frame == Head(inbox)
    IN  /\ DialAt("acks") /\ dial.pending # {} /\ inbox # <<>> /\ socket # "closed"
        /\ inbox' = Tail(inbox)
        /\ CASE frame.type = "ack" ->
                    dial' = [dial EXCEPT !.pending = @ \ {frame.topic}] /\ UNCHANGED watchdog
             [] frame.type \in {"error", "junk"} -> Returning("close")
             [] OTHER -> UNCHANGED <<dial, watchdog>>
        /\ UNCHANGED <<venue, asked, socket, pinger, interval, accepted, cancelled>>

\* The read fails: the socket is closed or lost, the context has ended or nothing
\* came within the read timeout.
readFails ==
    /\ DialAt("acks") /\ dial.pending # {}
    /\ socket # "open" \/ cancelled \/ inbox = <<>>
    /\ Returning("close")
    /\ UNCHANGED <<venue, asked, socket, pinger, interval, inbox, accepted, cancelled>>

\* Every acknowledgement is in: newPingingConn starts its goroutine.  What has
\* come besides is for whoever reads the connection now.
subscribed ==
    /\ DialAt("acks") /\ dial.pending = {}
    /\ Returning("handed")
    /\ pinger' = [pinger EXCEPT !.at = IF interval <= 0 THEN "done" ELSE "waiting"]
    /\ inbox' = <<>>
    /\ UNCHANGED <<venue, asked, socket, interval, accepted, cancelled>>

\* Mutant: what the failed handshake opened stays open.
closeForgotten ==
    /\ DialAt("close") /\ Give
    /\ UNCHANGED <<venue, asked, socket, watchdog, pinger, interval, inbox, accepted, cancelled>>

\* A handshake that failed closes what it opened.
close ==
    /\ DialAt("close") /\ Give
    /\ socket' = "closed"
    /\ UNCHANGED <<venue, asked, watchdog, pinger, interval, inbox, accepted, cancelled>>

DialStep ==
    \/ begin \/ connect \/ subscribe \/ write \/ read \/ readFails \/ subscribed \/ close
    \/ \E answer \in Answers : fetchBullet(answer)

-----------------------------------------------------------------------------
(* closeAfter *)

\* Mutant: the watchdog waits for stop() and nothing else.
watchdogFiresNever == watchdog.at = "armed" /\ FALSE /\ UNCHANGED dialVars

\* The timer or the context.  Where stop() has been called as well the select
\* may still choose this.
watchdogFires ==
    /\ watchdog.at = "armed"
    /\ watchdog' = [watchdog EXCEPT !.at = "firing"]
    /\ UNCHANGED <<venue, asked, dial, socket, pinger, interval, inbox, accepted, cancelled>>

watchdogStops ==
    /\ watchdog.at = "armed" /\ watchdog.stopped
    /\ watchdog' = [watchdog EXCEPT !.at = "over"]
    /\ UNCHANGED <<venue, asked, dial, socket, pinger, interval, inbox, accepted, cancelled>>

\* Close, from the watchdog's goroutine: it may come after Dial has returned.
watchdogCloses ==
    /\ watchdog.at = "firing"
    /\ watchdog' = [watchdog EXCEPT !.at = "over"]
    /\ socket' = "closed"
    /\ UNCHANGED <<venue, asked, dial, pinger, interval, inbox, accepted, cancelled>>

(* pingingConn *)

tick ==
    /\ pinger.at = "waiting"
    /\ pinger' = [pinger EXCEPT !.at = "writing"]
    /\ UNCHANGED <<venue, asked, dial, socket, watchdog, interval, inbox, accepted, cancelled>>

\* Mutant: a ping that fails is tried again at the next tick.
pingRetried ==
    /\ pinger.at = "writing"
    /\ pinger' = [pinger EXCEPT !.at = "waiting"]
    /\ UNCHANGED <<venue, asked, dial, socket, watchdog, interval, inbox, accepted, cancelled>>

\* ping: a write that fails closes the connection, which is what frees a read.
ping ==
    /\ pinger.at = "writing"
    /\ \/ socket = "open" /\ pinger' = [pinger EXCEPT !.at = "waiting"] /\ UNCHANGED socket
       \/ pinger' = [at |-> "done", closed |-> TRUE] /\ socket' = "closed"
    /\ UNCHANGED <<venue, asked, dial, watchdog, interval, inbox, accepted, cancelled>>

pingerReturns ==
    /\ pinger.at = "waiting" /\ pinger.closed
    /\ pinger' = [pinger EXCEPT !.at = "done"]
    /\ UNCHANGED <<venue, asked, dial, socket, watchdog, interval, inbox, accepted, cancelled>>

\* The caller closes the connection it was given, as often as it likes.
Close ==
    /\ DialAt("handed")
    /\ socket' = "closed"
    /\ pinger' = IF venue = "KUCOIN" THEN [pinger EXCEPT !.closed = TRUE] ELSE pinger
    /\ UNCHANGED <<venue, asked, dial, watchdog, interval, inbox, accepted, cancelled>>

-----------------------------------------------------------------------------
(* The venue and the network *)

Arrives(type, topic) ==
    /\ Len(inbox) < MaxInbox
    /\ inbox' = Append(inbox, [type |-> type, topic |-> topic])

\* A topic is answered once: with an acknowledgement or with an error.
VenueAnswers ==
    /\ socket = "open" /\ ~DialAt("handed")
    /\ \E topic \in dial.pending \ accepted :
           \/ Arrives("ack", topic) /\ accepted' = accepted \cup {topic}
           \/ Arrives("error", topic) /\ UNCHANGED accepted
    /\ UNCHANGED <<venue, asked, dial, socket, watchdog, pinger, interval, cancelled>>

\* Tabdeal takes up a subscription some time after Dial has returned.
VenueSubscribes ==
    /\ venue = "TABDEAL" /\ socket = "open" /\ DialAt("handed")
    /\ \E n \in 1..Len(asked) : accepted' = accepted \cup {asked[n]}
    /\ UNCHANGED <<venue, asked, dial, socket, watchdog, pinger, interval, inbox, cancelled>>

\* What else may come during the handshake: data of a topic that was taken up,
\* a frame that is not JSON.
VenueSends ==
    /\ socket = "open" /\ DialAt("acks")
    /\ \/ \E topic \in accepted : Arrives("message", topic)
       \/ Arrives("junk", asked[1])
    /\ UNCHANGED <<venue, asked, dial, socket, watchdog, pinger, interval, accepted, cancelled>>

ConnectionLost ==
    /\ socket = "open"
    /\ socket' = "lost"
    /\ UNCHANGED <<venue, asked, dial, watchdog, pinger, interval, inbox, accepted, cancelled>>

\* The context is Dial's: the connection outlives it.
Cancel ==
    /\ ~DialAt("handed") /\ ~DialAt("failed")
    /\ ~cancelled /\ cancelled' = TRUE
    /\ UNCHANGED <<venue, asked, dial, socket, watchdog, pinger, interval, inbox, accepted>>

DialInit(v, t) ==
    /\ venue = v /\ asked = t
    /\ dial = [at |-> "start", written |-> 0, pending |-> {}]
    /\ socket = "none"
    /\ watchdog = [at |-> "off", stopped |-> FALSE]
    /\ pinger = [at |-> "none", closed |-> FALSE]
    /\ interval = 0
    /\ inbox = <<>> /\ accepted = {} /\ cancelled = FALSE

DialNext ==
    \/ DialStep
    \/ watchdogFires \/ watchdogStops \/ watchdogCloses
    \/ tick \/ ping \/ pingerReturns
    \/ Close \/ VenueAnswers \/ VenueSubscribes \/ VenueSends \/ ConnectionLost \/ Cancel
=============================================================================
