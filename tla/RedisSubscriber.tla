--------------------------- MODULE RedisSubscriber ---------------------------
(***************************************************************************)
(* mq.go and redis.go of storage/mq: the client of the message queue over  *)
(* Redis.  Every Subscribe starts a goroutine that moves messages from a   *)
(* connection to a channel.  The connection is a field of the subscriber,  *)
(* which the next Subscribe overwrites and every goroutine reads anew for  *)
(* each message, without the lock: it finds its own connection or one of a *)
(* later call.  Two goroutines on one connection share its parser, which   *)
(* nothing guards.                                                         *)
(*                                                                         *)
(* With metrics, which are on by default, the subscriber is decorated: a   *)
(* second goroutine of each call, its relay, moves the messages on to a    *)
(* channel without a buffer, and Close waits for all relays.  The message  *)
(* a relay holds for its reader is kept at the head of the channel here,   *)
(* which has a place more for it: that a relay takes the next one is seen  *)
(* by nobody but a goroutine waiting for room.                             *)
(*                                                                         *)
(* The broker is outside the repository.  It takes a subscription some     *)
(* time after it was asked for, hands a message to the connections         *)
(* subscribed to its topic, in order, and closing the client ends them     *)
(* all.                                                                    *)
(***************************************************************************)
EXTENDS Integers, FiniteSets, SequencesExt

CONSTANTS
    Topics,         \* what can be subscribed to
    NoTopic,        \* that of a connection not made yet
    Buffer,         \* DefaultChannelBufferSize
    MaxSubs,        \* bound: the calls of Subscribe
    MaxInputs       \* bound: the calls, the messages published and the cancels together

ASSUME MQAssumptions ==
    /\ NoTopic \notin Topics
    /\ Buffer \in Nat /\ MaxSubs \in Nat /\ MaxInputs \in Nat

VARIABLES
    metrics,        \* mq.common.enable_metrics
    sent,           \* the topics of the messages published, in order
    conn,           \* conn[i]: the connection call i made, if there was one
    count,          \* the calls so far: connection "count" is in the field
    goro,           \* goro[i]: the goroutine of call i
    chan,           \* chan[i]: the buffer of its channel
    relayed,        \* the calls whose relay has ended
    cancelled,      \* the calls whose context was cancelled
    closer,         \* how far Close is: "open", "publisher", "subscriber",
                    \* "closed", or "stuck" for ever
    closeCh,        \* whether the channel of that name is closed
    got,            \* auxiliary: got[i]: what was read from channel i
    late            \* auxiliary: late[i]: what was put in after its end

brokerVars == <<sent, conn>>
goroVars == <<goro, chan, late>>
closeVars == <<metrics, cancelled, closer, closeCh>>
vars == <<brokerVars, count, goroVars, relayed, closeVars, got>>

Subs == 1 .. MaxSubs
Calls == 1 .. count

\* A connection is "open" while the broker has its subscription, and "shared" once
\* two goroutines were in ReceiveMessage on it at a time.  "log" is history: all the
\* broker ever handed to it.
Conn(topic) ==
    [topic |-> topic, open |-> FALSE, shared |-> FALSE, queue |-> <<>>, log |-> <<>>]
NoConn == Conn(NoTopic)

ClientOpen == closer = "open"

MoreInputs == count + Len(sent) + Cardinality(cancelled) < MaxInputs

\* A goroutine is before its select, in ReceiveMessage on connection "at", or
\* about to send message "msg"; or it has returned, and its channel is closed.
NotStarted == [pc |-> "none"]
Selecting == [pc |-> "select"]
Receiving(j) == [pc |-> "receive", at |-> j]
Sending(m) == [pc |-> "send", msg |-> m]
Returned == [pc |-> "returned"]

-----------------------------------------------------------------------------
\* The broker.
Handed(c, topic, n) ==
    IF c.open /\ c.topic = topic
    THEN [c EXCEPT !.queue = Append(@, n), !.log = Append(@, n)]
    ELSE c

\* Client.Publish sends its messages one by one and stops at an error; one
\* that the closed client, or the broker, refuses changes nothing.  Bound:
\* MaxInputs.
Publish(topic) ==
    /\ ClientOpen /\ MoreInputs
    /\ \E i \in Calls : conn[i].topic = topic
    /\ sent' = Append(sent, topic)
    /\ conn' = [i \in Subs |-> Handed(conn[i], topic, Len(sent) + 1)]
    /\ UNCHANGED <<count, goroVars, relayed, closeVars, got>>

\* The broker takes the subscription of a connection.  Nothing waits for that.
Establish(j) ==
    /\ ClientOpen /\ conn[j].topic # NoTopic /\ ~conn[j].open
    /\ conn' = [conn EXCEPT ![j].open = TRUE]
    /\ UNCHANGED <<sent, count, goroVars, relayed, closeVars, got>>

-----------------------------------------------------------------------------
\* Subscribe asks the broker, and drops the error if it could not.  On a client
\* closed before, the connection is dead from the start.  Bounds: MaxSubs, MaxInputs.
Subscribe(topic) ==
    /\ ~closeCh
    /\ count < MaxSubs /\ MoreInputs
    /\ count' = count + 1
    /\ conn' = [conn EXCEPT ![count + 1] = Conn(topic)]
    /\ goro' = [goro EXCEPT ![count + 1] = Selecting]
    /\ UNCHANGED <<sent, chan, late, relayed, closeVars, got>>

\* Once Close has come to the subscriber it gives a nil channel and no error.  A
\* relay ranges over that for ever, and a Close that waits for the relays with it.
SubscribeClosed ==
    /\ metrics /\ closer = "subscriber"
    /\ closer' = "stuck"
    /\ UNCHANGED <<brokerVars, count, goroVars, relayed, metrics, cancelled, closeCh, got>>

Cancel(i) ==
    /\ i \notin cancelled /\ ~closeCh /\ MoreInputs
    /\ cancelled' = cancelled \union {i}
    /\ UNCHANGED <<brokerVars, count, goroVars, relayed, metrics, closer, closeCh, got>>

\* For the history.
Over(i) == closeCh \/ i \in cancelled

\* Mutant of Ended: only Close ends a goroutine.
EndedByClose(i) == closeCh

Ended(i) == closeCh \/ i \in cancelled

\* Mutant of Readable: the field keeps the connection of the first call.
FirstConnection(i) == {1}

\* What goroutine i may find in the field.
Readable(i) == i .. count

Meets(i, j) == \E k \in Subs \ {i} : goro[k] = Receiving(j)

\* The outer select: a goroutine that has ended leaves, any other reads the field
\* and calls ReceiveMessage.
Select(i) ==
    /\ goro[i] = Selecting
    /\ \/ /\ Ended(i)
          /\ goro' = [goro EXCEPT ![i] = Returned]
          /\ UNCHANGED conn
       \/ /\ ~Ended(i)
          /\ \E j \in Readable(i) :
                /\ goro' = [goro EXCEPT ![i] = Receiving(j)]
                /\ conn' = [conn EXCEPT ![j].shared = @ \/ Meets(i, j)]
    /\ UNCHANGED <<sent, count, chan, late, relayed, closeVars, got>>

\* What a goroutine may find where ReceiveMessage puts what it read.
Receivable(c) == IF c.shared THEN Range(c.log) ELSE {Head(c.queue)}

\* How many messages it may have taken from the connection.
Consumed(c) == IF c.shared THEN 1 .. Len(c.queue) ELSE {1}

\* ReceiveMessage.  It does not watch the context.
Receive(i, j) ==
    /\ goro[i] = Receiving(j)
    /\ conn[j].queue # <<>>
    /\ \E m \in Receivable(conn[j]), n \in Consumed(conn[j]) :
          /\ goro' = [goro EXCEPT ![i] = Sending(m)]
          /\ conn' = [conn EXCEPT ![j].queue = SubSeq(@, n + 1, Len(@))]
    /\ UNCHANGED <<sent, count, chan, late, relayed, closeVars, got>>

\* Two goroutines in the same call race for one reader and one place for what was
\* read: each returns with a message, old or new, the same or another.
ReceiveTogether(i, k, j) ==
    /\ i # k /\ goro[i] = Receiving(j) /\ goro[k] = Receiving(j)
    /\ conn[j].queue # <<>>
    /\ \E m1, m2 \in Receivable(conn[j]), n \in Consumed(conn[j]) :
          /\ goro' = [goro EXCEPT ![i] = Sending(m1), ![k] = Sending(m2)]
          /\ conn' = [conn EXCEPT ![j].queue = SubSeq(@, n + 1, Len(@))]
    /\ UNCHANGED <<sent, count, chan, late, relayed, closeVars, got>>

Lose(j) == conn' = [conn EXCEPT ![j].queue = <<>>, ![j].open = FALSE]

\* Mutant of ReceiveFails: an error makes the goroutine try again.
ReceiveTriesAgain(i, j) ==
    /\ goro[i] = Receiving(j)
    /\ goro' = [goro EXCEPT ![i] = Selecting]
    /\ Lose(j)
    /\ UNCHANGED <<sent, count, chan, late, relayed, closeVars, got>>

\* Mutant of ReceiveFails: an error is only logged, and the call goes on.
ReceiveKeepsOn(i, j) ==
    /\ goro[i] = Receiving(j)
    /\ Lose(j)
    /\ UNCHANGED <<sent, count, goroVars, relayed, closeVars, got>>

\* An error ends the goroutine: the client is closed, the network failed, or
\* what two goroutines parsed together made no sense.  What was waiting in the
\* connection is lost, and the broker is asked again.
ReceiveFails(i, j) ==
    /\ goro[i] = Receiving(j)
    /\ goro' = [goro EXCEPT ![i] = Returned]
    /\ Lose(j)
    /\ UNCHANGED <<sent, count, chan, late, relayed, closeVars, got>>

\* The places of a channel, and the hand of its relay.
Room == IF metrics THEN Buffer + 1 ELSE Buffer

\* Mutant of Put: a message for which there is no room is dropped.
PutOrDrop(i, m) ==
    /\ chan' = IF Len(chan[i]) < Room THEN [chan EXCEPT ![i] = Append(@, m)] ELSE chan
    /\ late' = [late EXCEPT ![i] = IF Over(i) THEN @ + 1 ELSE @]

\* Mutant of Put: the channel is not bounded.
PutUnbounded(i, m) ==
    /\ chan' = [chan EXCEPT ![i] = Append(@, m)]
    /\ late' = [late EXCEPT ![i] = IF Over(i) THEN @ + 1 ELSE @]

Put(i, m) ==
    /\ Len(chan[i]) < Room
    /\ chan' = [chan EXCEPT ![i] = Append(@, m)]
    /\ late' = [late EXCEPT ![i] = IF Over(i) THEN @ + 1 ELSE @]

\* Mutant of Send: a message that was put is put again.
SendAgain(i) ==
    /\ goro[i].pc = "send"
    /\ \/ Put(i, goro[i].msg) /\ UNCHANGED goro
       \/ /\ Ended(i)
          /\ goro' = [goro EXCEPT ![i] = Returned]
          /\ UNCHANGED <<chan, late>>
    /\ UNCHANGED <<brokerVars, count, relayed, closeVars, got>>

\* The inner select: either case, when both are possible.
Send(i) ==
    /\ goro[i].pc = "send"
    /\ \/ Put(i, goro[i].msg) /\ goro' = [goro EXCEPT ![i] = Selecting]
       \/ /\ Ended(i)
          /\ goro' = [goro EXCEPT ![i] = Returned]
          /\ UNCHANGED <<chan, late>>
    /\ UNCHANGED <<brokerVars, count, relayed, closeVars, got>>

Goroutine(i) ==
    \/ Select(i)
    \/ \E j \in Subs :
          \/ Receive(i, j) \/ ReceiveFails(i, j)
          \/ \E k \in Subs : ReceiveTogether(i, k, j)
    \/ Send(i)

\* A relay that has moved everything on, from a channel that is closed, closes the
\* one that was handed out.
Relay(i) ==
    /\ metrics /\ i \notin relayed
    /\ goro[i] = Returned /\ chan[i] = <<>>
    /\ relayed' = relayed \union {i}
    /\ UNCHANGED <<brokerVars, count, goroVars, closeVars, got>>

\* The reader of a channel takes a message when it likes.
Take(i) ==
    /\ chan[i] # <<>>
    /\ got' = [got EXCEPT ![i] = Append(@, Head(chan[i]))]
    /\ chan' = [chan EXCEPT ![i] = Tail(@)]
    /\ UNCHANGED <<brokerVars, count, goro, late, relayed, closeVars>>

-----------------------------------------------------------------------------
\* Close: RedisPublisher.Close closes the client the subscriber uses as well.
ClosePublisher ==
    /\ closer = "open"
    /\ closer' = "publisher"
    /\ conn' = [i \in Subs |-> [conn[i] EXCEPT !.open = FALSE, !.queue = <<>>]]
    /\ UNCHANGED <<sent, count, goroVars, relayed, metrics, cancelled, closeCh, got>>

\* Mutant of EndAll: the channel that tells the goroutines is left open.
EndNone == UNCHANGED closeCh

EndAll == closeCh' = TRUE

\* RedisSubscriber.Close.  It waits for no goroutine.
CloseSubscriber ==
    /\ closer = "publisher"
    /\ closer' = "subscriber"
    /\ EndAll
    /\ UNCHANGED <<brokerVars, count, goroVars, relayed, metrics, cancelled, got>>

\* The decorator's Close does: it waits for the relays.
CloseReturns ==
    /\ closer = "subscriber"
    /\ metrics => Calls \subseteq relayed
    /\ closer' = "closed"
    /\ UNCHANGED <<brokerVars, count, goroVars, relayed, metrics, cancelled, closeCh, got>>

-----------------------------------------------------------------------------
Init ==
    /\ metrics \in BOOLEAN
    /\ sent = <<>>
    /\ conn = [i \in Subs |-> NoConn]
    /\ count = 0
    /\ goro = [i \in Subs |-> NotStarted]
    /\ chan = [i \in Subs |-> <<>>]
    /\ relayed = {}
    /\ cancelled = {}
    /\ closer = "open"
    /\ closeCh = FALSE
    /\ got = [i \in Subs |-> <<>>]
    /\ late = [i \in Subs |-> 0]

Next ==
    \/ \E topic \in Topics : Publish(topic) \/ Subscribe(topic)
    \/ SubscribeClosed
    \/ \E i \in Calls : Cancel(i) \/ Take(i) \/ Establish(i) \/ Goroutine(i) \/ Relay(i)
    \/ ClosePublisher \/ CloseSubscriber \/ CloseReturns

\* A goroutine that can run is run, and a Close that began goes on while it can.
\* Nobody has to read a channel, publish, or begin to close.
Fairness ==
    /\ \A i \in Subs : WF_vars(i \in Calls /\ Goroutine(i)) /\ WF_vars(i \in Calls /\ Relay(i))
    /\ WF_vars(CloseSubscriber) /\ WF_vars(CloseReturns)

Spec == Init /\ [][Next]_vars /\ Fairness

-----------------------------------------------------------------------------
Messages == Seq(Nat \ {0})
Conns ==
    [topic : Topics \union {NoTopic}, open : BOOLEAN, shared : BOOLEAN,
     queue : Messages, log : Messages]
Goroutines ==
    {NotStarted, Selecting, Returned}
    \union [pc : {"receive"}, at : Subs] \union [pc : {"send"}, msg : Nat \ {0}]

\* The types of the variables; no channel holds more than its buffer.
TypeOK ==
    /\ metrics \in BOOLEAN
    /\ relayed \subseteq Subs
    /\ sent \in Seq(Topics)
    /\ conn \in [Subs -> Conns]
    /\ count \in 0 .. MaxSubs
    /\ goro \in [Subs -> Goroutines]
    /\ chan \in [Subs -> Messages]
    /\ \A i \in Subs : Len(chan[i]) <= Room
    /\ cancelled \subseteq Subs
    /\ closer \in {"open", "publisher", "subscriber", "closed", "stuck"}
    /\ closeCh \in BOOLEAN
    /\ got \in [Subs -> Messages]
    /\ late \in [Subs -> Nat]

InHand(i) == IF goro[i].pc = "send" THEN <<goro[i].msg>> ELSE <<>>

\* What channel i has brought, and what is on its way there.
Brought(i) == got[i] \o chan[i]
Brings(i) == Brought(i) \o InHand(i)

\* What a channel brings was published to the topic of its own call or of a
\* later one: a goroutine can be drawn to the connection of a later call, and
\* never to that of an earlier one.
NeverFromEarlier ==
    \A i \in Calls : \A n \in Range(Brings(i)) :
        \E j \in i .. count : n \in Range(conn[j].log)

\* As long as a client has made one call, its channel brings what was published to
\* the topic since the broker took the subscription, all of it, once and in order,
\* until the channel is closed or the client is; and what it brought before that is
\* the beginning of it.
LoneCallGetsAll ==
    count = 1 =>
        /\ IsPrefix(Brought(1), conn[1].log)
        /\ ClientOpen /\ goro[1] # Returned =>
              Brings(1) \o conn[1].queue = conn[1].log

\* A channel brings the messages of a topic that was subscribed to once in the order
\* they were published, and none twice, unless two goroutines met in ReceiveMessage
\* on its connection: although one goroutine may read all connections in turn, and
\* several one after the other the same.
Sole(topic) ==
    \A j, k \in Calls : conn[j].topic = topic /\ conn[k].topic = topic => j = k
Unshared(topic) == \A j \in Calls : conn[j].topic = topic => ~conn[j].shared
InOrder(s) ==
    \A a, b \in DOMAIN s :
        a < b /\ sent[s[a]] = sent[s[b]] /\ Sole(sent[s[a]]) /\ Unshared(sent[s[a]])
            => s[a] < s[b]

OrderedByTopic == \A i \in Calls : InOrder(Brings(i))

\* At most one message gets into a channel after its context was cancelled or
\* the subscriber closed.
AtMostOneLate == \A i \in Subs : late[i] <= 1

\* Once a Close has begun every goroutine is at most three of its steps from its
\* return, and none goes back: it may put the message it has, look at the field
\* again, and wait in vain on a connection, whose error is the end of it.
StepsLeft(i) ==
    CASE goro[i].pc = "send" -> 3 [] goro[i].pc = "select" -> 2
      [] goro[i].pc = "receive" -> 1 [] OTHER -> 0

WindsDown ==
    [][~ClientOpen =>
          \A i \in Calls : goro'[i] = goro[i] \/ StepsLeft(i)' < StepsLeft(i)]_vars

\* After a Close has begun every channel that was handed out is closed in the end,
\* though nobody reads from any, but one whose relay holds a message for its reader.
ChannelClosed(i) == IF metrics THEN i \in relayed ELSE goro[i] = Returned
RelayHolds(i) == metrics /\ chan[i] # <<>>

EveryChannelCloses ==
    closer # "open" ~> \A i \in Calls : ChannelClosed(i) \/ RelayHolds(i)

\* With readers that go on reading Close returns, unless there is a Subscribe after
\* the subscriber was closed.
ReadersGoOn == \A i \in Subs : WF_vars(i \in Calls /\ Take(i))

CloseEnds == ReadersGoOn => (closer # "open" ~> closer \in {"closed", "stuck"})
=============================================================================
