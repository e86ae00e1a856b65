------------------------- MODULE RedisSubscriberProofs -------------------------
(***************************************************************************)
(* Theorems about RedisSubscriber, for any number of topics, calls and     *)
(* messages and any size of the channels.                                  *)
(***************************************************************************)
EXTENDS RedisSubscriber, SequenceTheorems, TLAPS

USE MQAssumptions

Positive == Nat \ {0}

-----------------------------------------------------------------------------
(* Sequences of messages.                                                   *)

LEMMA OneRange == ASSUME NEW n \in Positive PROVE Range(<<n>>) = {n}
<1>1. <<n>> \in Seq(Positive) /\ Len(<<n>>) = 1 /\ <<n>>[1] = n
  OBVIOUS
<1>2. Range(<<n>>) = {<<n>>[k] : k \in 1 .. 1}
  BY <1>1, RangeEquality
<1>3. 1 .. 1 = {1}
  OBVIOUS
<1>4. QED
  BY <1>1, <1>2, <1>3

LEMMA AppendRange ==
    ASSUME NEW s \in Messages, NEW n \in Positive
    PROVE  /\ Append(s, n) \in Messages
           /\ Append(s, n) = s \o <<n>>
           /\ Range(Append(s, n)) = Range(s) \union {n}
<1>1. <<n>> \in Seq(Positive) /\ s \in Seq(Positive)
  BY DEF Messages, Positive
<1>2. Append(s, n) = s \o <<n>> /\ Append(s, n) \in Messages
  BY <1>1 DEF Messages, Positive
<1>3. Range(<<n>>) = {n}
  BY OneRange
<1>4. Range(s \o <<n>>) = Range(s) \union Range(<<n>>)
  BY <1>1, RangeConcatenation
<1>5. QED
  BY <1>2, <1>3, <1>4

LEMMA HeadAndTail ==
    ASSUME NEW s \in Messages, s # <<>>
    PROVE  /\ Head(s) \in Positive /\ Tail(s) \in Messages
           /\ s = <<Head(s)>> \o Tail(s)
           /\ Head(s) \in Range(s) /\ Range(Tail(s)) \subseteq Range(s)
<1>1. s \in Seq(Positive) /\ Len(s) \in Nat \ {0}
  BY EmptySeq DEF Messages, Positive
<1>2. Head(s) \in Positive /\ Tail(s) \in Seq(Positive) /\ s = <<Head(s)>> \o Tail(s)
  BY <1>1
<1>3. <<Head(s)>> \in Seq(Positive)
  BY <1>2
<1>4. Range(s) = Range(<<Head(s)>>) \union Range(Tail(s))
  BY <1>2, <1>3, RangeConcatenation
<1>5. Head(s) \in Range(<<Head(s)>>)
  BY <1>2, OneRange
<1>6. QED
  BY <1>2, <1>4, <1>5 DEF Messages, Positive

\* What is left of a queue of which n messages were taken.
LEMMA Suffix ==
    ASSUME NEW s \in Messages, NEW n \in 1 .. Len(s)
    PROVE  /\ SubSeq(s, n + 1, Len(s)) \in Messages
           /\ Len(SubSeq(s, n + 1, Len(s))) = Len(s) - n
           /\ \A a \in 1 .. Len(s) - n : SubSeq(s, n + 1, Len(s))[a] = s[a + n]
           /\ Range(SubSeq(s, n + 1, Len(s))) \subseteq Range(s)
<1> DEFINE t == SubSeq(s, n + 1, Len(s))
<1>1. s \in Seq(Positive) /\ Len(s) \in Nat
  BY DEF Messages, Positive
<1>2. /\ t \in Seq(Positive) /\ Len(t) = Len(s) - n
      /\ \A a \in 1 .. Len(s) - n : t[a] = s[a + n]
  BY <1>1
<1> HIDE DEF t
<1>3. Range(t) = {t[a] : a \in 1 .. Len(t)} /\ Range(s) = {s[a] : a \in 1 .. Len(s)}
  BY <1>1, <1>2, RangeEquality
<1>4. \A a \in 1 .. Len(t) : a + n \in 1 .. Len(s)
  BY <1>1, <1>2
<1>5. Range(t) \subseteq Range(s)
  BY <1>2, <1>3, <1>4
<1>6. QED
  BY <1>2, <1>5 DEF t, Messages, Positive

LEMMA SuffixIsTail ==
    ASSUME NEW s \in Messages, s # <<>>
    PROVE  SubSeq(s, 2, Len(s)) = Tail(s)
<1>1. s \in Seq(Positive) /\ Len(s) \in Nat \ {0}
  BY EmptySeq DEF Messages, Positive
<1>2. QED
  BY <1>1

-----------------------------------------------------------------------------
(* Types.                                                                   *)

LEMMA CallsAreSubs == ASSUME TypeOK PROVE Calls \subseteq Subs /\ count \in Nat
  BY DEF TypeOK, Calls, Subs

\* What the broker hands to a connection.
LEMMA HandedFacts ==
    ASSUME NEW c \in Conns, NEW topic, NEW n \in Positive
    PROVE  /\ Handed(c, topic, n) \in Conns
           /\ Handed(c, topic, n).open = c.open
           /\ \/ Handed(c, topic, n) = c
              \/ /\ c.open
                 /\ Handed(c, topic, n).queue = Append(c.queue, n)
                 /\ Handed(c, topic, n).log = Append(c.log, n)
<1>1. Append(c.queue, n) \in Messages /\ Append(c.log, n) \in Messages
  BY AppendRange DEF Conns
<1>2. QED
  BY <1>1 DEF Handed, Conns

\* What may be found where a message was read, and how many are gone.
LEMMA ReceivablePositive ==
    ASSUME NEW c, c.queue \in Messages, c.log \in Messages, c.queue # <<>>
    PROVE  Receivable(c) \subseteq Positive
<1>1. Range(c.log) \subseteq Positive
  <2>1. c.log \in Seq(Positive)
    BY DEF Messages, Positive
  <2>2. Range(c.log) = {c.log[a] : a \in 1 .. Len(c.log)}
    BY <2>1, RangeEquality
  <2>3. QED
    BY <2>1, <2>2
<1>2. Head(c.queue) \in Positive
  BY HeadAndTail
<1>3. QED
  BY <1>1, <1>2 DEF Receivable

LEMMA ConsumedSome ==
    ASSUME NEW c, c.queue \in Messages, c.queue # <<>>
    PROVE  Consumed(c) \subseteq 1 .. Len(c.queue)
<1>1. Len(c.queue) \in Nat \ {0}
  BY EmptySeq DEF Messages
<1>2. QED
  BY <1>1 DEF Consumed

LEMMA TypeInit == Init => TypeOK
<1>1. <<>> \in Messages /\ <<>> \in Seq(Topics)
  BY EmptySeq DEF Messages
<1>2. NoConn \in Conns
  BY <1>1 DEF NoConn, Conn, Conns
<1>3. NotStarted \in Goroutines /\ Len(<<>>) = 0
  BY DEF Goroutines
<1>4. ASSUME Init PROVE TypeOK
  <2>1. /\ sent \in Seq(Topics) /\ conn \in [Subs -> Conns]
        /\ goro \in [Subs -> Goroutines]
    BY <1>1, <1>2, <1>3, <1>4 DEF Init
  <2>2. chan \in [Subs -> Messages] /\ got \in [Subs -> Messages]
    BY <1>1, <1>4 DEF Init
  <2>3. \A i \in Subs : chan[i] = <<>>
    BY <1>4 DEF Init
  <2>4. \A i \in Subs : Len(chan[i]) <= Room
    BY <1>3, <2>3 DEF Room
  <2>5. /\ count \in 0 .. MaxSubs /\ cancelled \subseteq Subs /\ closeCh \in BOOLEAN
        /\ closer \in {"open", "publisher", "subscriber", "closed", "stuck"}
        /\ metrics \in BOOLEAN /\ relayed \subseteq Subs /\ late \in [Subs -> Nat]
    <3>1. count \in 0 .. MaxSubs
      BY <1>4 DEF Init
    <3>2. late \in [Subs -> Nat]
      BY <1>4 DEF Init
    <3>3. QED
      BY <1>4, <3>1, <3>2 DEF Init
  <2>6. QED
    BY <2>1, <2>2, <2>4, <2>5 DEF TypeOK
<1>5. QED
  BY <1>4

LEMMA TypePublish == ASSUME TypeOK, NEW topic \in Topics, Publish(topic) PROVE TypeOK'
<1>1. sent' \in Seq(Topics)
  BY DEF TypeOK, Publish
<1>2. Len(sent) + 1 \in Positive
  BY DEF TypeOK, Positive
<1>3. conn' \in [Subs -> Conns]
  BY <1>2, HandedFacts DEF TypeOK, Publish
<1>4. QED
  BY <1>1, <1>3 DEF TypeOK, Publish, goroVars, closeVars, Room

LEMMA TypeSubscribe == ASSUME TypeOK, NEW topic \in Topics, Subscribe(topic) PROVE TypeOK'
<1>1. count + 1 \in Subs /\ count' \in 0 .. MaxSubs
  BY DEF TypeOK, Subscribe, Subs
<1>2. <<>> \in Messages
  BY EmptySeq DEF Messages
<1>3. Conn(topic) \in Conns
  BY <1>2 DEF Conn, Conns
<1>4. Selecting \in Goroutines
  BY DEF Goroutines
<1>5. conn' \in [Subs -> Conns] /\ goro' \in [Subs -> Goroutines]
  BY <1>3, <1>4 DEF TypeOK, Subscribe
<1>6. QED
  BY <1>1, <1>5 DEF TypeOK, Subscribe, closeVars, Room

\* One that opens, or is lost, or is met on, is still a connection.
LEMMA ConnChanges ==
    ASSUME TypeOK, NEW j \in Subs
    PROVE  /\ \A b \in BOOLEAN : [conn EXCEPT ![j].open = b] \in [Subs -> Conns]
           /\ \A b \in BOOLEAN : [conn EXCEPT ![j].shared = b] \in [Subs -> Conns]
           /\ \A q \in Messages : [conn EXCEPT ![j].queue = q] \in [Subs -> Conns]
           /\ [conn EXCEPT ![j].queue = <<>>, ![j].open = FALSE] \in [Subs -> Conns]
<1>1. <<>> \in Messages /\ conn \in [Subs -> Conns]
  BY EmptySeq DEF Messages, TypeOK
<1>2. QED
  BY <1>1 DEF Conns

\* The outer select: whatever connection is chosen, only its being shared changes.
LEMMA SelectFacts ==
    ASSUME TypeOK, NEW i \in Subs, Select(i)
    PROVE  /\ goro[i] = Selecting
           /\ UNCHANGED <<sent, count, chan, late, relayed, closeVars, got>>
           /\ \/ goro' = [goro EXCEPT ![i] = Returned] /\ Ended(i) /\ conn' = conn
              \/ \E j \in Readable(i) :
                    /\ goro' = [goro EXCEPT ![i] = Receiving(j)] /\ ~Ended(i)
                    /\ conn' = [conn EXCEPT ![j].shared = conn[j].shared \/ Meets(i, j)]
  BY DEF Select

\* The connections when n messages were taken from j, and the goroutines when
\* one has a message to send, or two.
After(j, n) ==
    [conn EXCEPT ![j].queue = SubSeq(conn[j].queue, n + 1, Len(conn[j].queue))]
Gets(i, m) == [goro EXCEPT ![i] = Sending(m)]
BothGet(i, m1, k, m2) == [goro EXCEPT ![i] = Sending(m1), ![k] = Sending(m2)]

\* ReceiveMessage of one goroutine.
LEMMA ReceiveFacts ==
    ASSUME TypeOK, NEW i \in Subs, NEW j \in Subs, Receive(i, j)
    PROVE  /\ goro[i] = Receiving(j) /\ conn[j].queue # <<>>
           /\ UNCHANGED <<sent, count, chan, late, relayed, closeVars, got>>
           /\ \E m \in Positive, n \in 1 .. Len(conn[j].queue) :
                 /\ m \in Receivable(conn[j]) /\ n \in Consumed(conn[j])
                 /\ goro' = Gets(i, m)
                 /\ conn' = After(j, n)
<1>1. conn[j].queue \in Messages /\ conn[j].log \in Messages
  BY DEF TypeOK, Conns
<1>2. PICK m \in Receivable(conn[j]), n \in Consumed(conn[j]) :
          /\ goro' = Gets(i, m)
          /\ conn' = After(j, n)
  BY DEF Receive, After, Gets
<1>3. m \in Positive
  BY <1>1, <1>2, ReceivablePositive DEF Receive
<1>4. n \in 1 .. Len(conn[j].queue)
  BY <1>1, <1>2, ConsumedSome DEF Receive
<1>5. QED
  BY <1>2, <1>3, <1>4 DEF Receive

\* And of two at a time.
LEMMA TogetherFacts ==
    ASSUME TypeOK, NEW i \in Subs, NEW k \in Subs, NEW j \in Subs, ReceiveTogether(i, k, j)
    PROVE  /\ i # k /\ goro[i] = Receiving(j) /\ goro[k] = Receiving(j)
           /\ conn[j].queue # <<>>
           /\ UNCHANGED <<sent, count, chan, late, relayed, closeVars, got>>
           /\ \E m1, m2 \in Positive, n \in 1 .. Len(conn[j].queue) :
                 /\ {m1, m2} \subseteq Receivable(conn[j]) /\ n \in Consumed(conn[j])
                 /\ goro' = BothGet(i, m1, k, m2)
                 /\ conn' = After(j, n)
<1>1. conn[j].queue \in Messages /\ conn[j].log \in Messages
  BY DEF TypeOK, Conns
<1>2. PICK m1, m2 \in Receivable(conn[j]), n \in Consumed(conn[j]) :
          /\ goro' = BothGet(i, m1, k, m2)
          /\ conn' = After(j, n)
  BY DEF ReceiveTogether, After, BothGet
<1>3. m1 \in Positive /\ m2 \in Positive
  BY <1>1, <1>2, ReceivablePositive DEF ReceiveTogether
<1>4. n \in 1 .. Len(conn[j].queue)
  BY <1>1, <1>2, ConsumedSome DEF ReceiveTogether
<1>5. QED
  BY <1>2, <1>3, <1>4 DEF ReceiveTogether

\* An error of it.
LEMMA FailsFacts ==
    ASSUME TypeOK, NEW i \in Subs, NEW j \in Subs, ReceiveFails(i, j)
    PROVE  /\ goro[i] = Receiving(j) /\ goro' = [goro EXCEPT ![i] = Returned]
           /\ conn' = [conn EXCEPT ![j].queue = <<>>, ![j].open = FALSE]
           /\ UNCHANGED <<sent, count, chan, late, relayed, closeVars, got>>
  BY DEF ReceiveFails, Lose

LEMMA TypeGoroutine == ASSUME TypeOK, NEW i \in Calls, Goroutine(i) PROVE TypeOK'
<1>1. i \in Subs
  BY DEF Calls, Subs, TypeOK
<1>0. ASSUME UNCHANGED <<sent, count, chan, late, relayed, closeVars, got>>,
             goro' \in [Subs -> Goroutines], conn' \in [Subs -> Conns]
      PROVE  TypeOK'
  BY <1>0 DEF TypeOK, closeVars, Room
<1>2. CASE Select(i)
  <2>1. Returned \in Goroutines /\ Readable(i) \subseteq Subs
        /\ \A j \in Readable(i) : Receiving(j) \in Goroutines
    BY <1>1 DEF Goroutines, Returned, Receiving, Readable, Subs, TypeOK
  <2>2. CASE goro' = [goro EXCEPT ![i] = Returned] /\ conn' = conn
    BY <1>0, <1>1, <1>2, <2>1, <2>2, SelectFacts DEF TypeOK
  <2>3. ASSUME NEW j \in Readable(i), goro' = [goro EXCEPT ![i] = Receiving(j)],
               conn' = [conn EXCEPT ![j].shared = conn[j].shared \/ Meets(i, j)]
        PROVE  TypeOK'
    <3>1. (conn[j].shared \/ Meets(i, j)) \in BOOLEAN
      BY <2>1 DEF Meets
    <3>2. conn' \in [Subs -> Conns] /\ goro' \in [Subs -> Goroutines]
      BY <1>1, <2>1, <2>3, <3>1, ConnChanges DEF TypeOK
    <3>3. QED
      BY <1>0, <1>1, <1>2, <3>2, SelectFacts
  <2>4. QED
    BY <1>1, <1>2, <2>2, <2>3, SelectFacts
<1>3. ASSUME NEW j \in Subs, Receive(i, j) PROVE TypeOK'
  <2>1. PICK m \in Positive, n \in 1 .. Len(conn[j].queue) :
            /\ goro' = Gets(i, m)
            /\ conn' = After(j, n)
    BY <1>1, <1>3, ReceiveFacts
  <2>2. Sending(m) \in Goroutines
    BY DEF Sending, Goroutines, Positive
  <2>3. conn[j].queue \in Messages
    BY DEF TypeOK, Conns
  <2>4. goro' \in [Subs -> Goroutines] /\ conn' \in [Subs -> Conns]
    BY <1>1, <2>1, <2>2, <2>3, Suffix, ConnChanges DEF TypeOK, After, Gets, BothGet
  <2>5. QED
    BY <1>0, <1>1, <1>3, <2>4, ReceiveFacts
<1>4. ASSUME NEW j \in Subs, ReceiveFails(i, j) PROVE TypeOK'
  <2>1. goro' \in [Subs -> Goroutines] /\ conn' \in [Subs -> Conns]
    <3>1. Returned \in Goroutines
      BY DEF Goroutines
    <3>2. /\ goro' = [goro EXCEPT ![i] = Returned]
          /\ conn' = [conn EXCEPT ![j].queue = <<>>, ![j].open = FALSE]
      BY <1>1, <1>4, FailsFacts
    <3>3. [conn EXCEPT ![j].queue = <<>>, ![j].open = FALSE] \in [Subs -> Conns]
      BY ConnChanges
    <3>4. QED
      BY <1>1, <3>1, <3>2, <3>3 DEF TypeOK
  <2>2. QED
    BY <1>0, <1>1, <1>4, <2>1, FailsFacts
<1>5. ASSUME NEW j \in Subs, NEW k \in Subs, ReceiveTogether(i, k, j) PROVE TypeOK'
  <2>1. PICK m1 \in Positive, m2 \in Positive, n \in 1 .. Len(conn[j].queue) :
            /\ goro' = BothGet(i, m1, k, m2)
            /\ conn' = After(j, n)
    BY <1>1, <1>5, TogetherFacts
  <2>2. Sending(m1) \in Goroutines /\ Sending(m2) \in Goroutines
    BY DEF Sending, Goroutines, Positive
  <2>3. conn[j].queue \in Messages
    BY DEF TypeOK, Conns
  <2>4. goro' \in [Subs -> Goroutines] /\ conn' \in [Subs -> Conns]
    BY <1>1, <2>1, <2>2, <2>3, Suffix, ConnChanges DEF TypeOK, After, Gets, BothGet
  <2>5. QED
    BY <1>0, <1>1, <1>5, <2>4, TogetherFacts
<1>6. CASE Send(i)
  <2>1. goro[i].msg \in Positive
    <3>1. goro[i].pc = "send" /\ goro[i] \in Goroutines
      BY <1>1, <1>6 DEF Send, TypeOK
    <3>2. goro[i] \in [pc : {"send"}, msg : Nat \ {0}]
      BY <3>1 DEF Goroutines, NotStarted, Selecting, Returned
    <3>3. QED
      BY <3>2 DEF Positive
  <2>2. CASE Put(i, goro[i].msg) /\ goro' = [goro EXCEPT ![i] = Selecting]
    <3>1. Append(chan[i], goro[i].msg) \in Messages
          /\ Len(Append(chan[i], goro[i].msg)) = Len(chan[i]) + 1
      BY <1>1, <2>1, AppendRange DEF Messages, Positive, TypeOK
    <3>2. Len(chan[i]) \in Nat /\ Len(chan[i]) < Room /\ Room \in Nat
      BY <1>1, <2>2 DEF Put, Messages, TypeOK, Room
    <3>3. /\ chan' \in [Subs -> Messages]
          /\ \A k \in Subs : Len(chan'[k]) <= Room
      BY <1>1, <2>2, <3>1, <3>2 DEF Put, TypeOK
    <3>4. late' \in [Subs -> Nat] /\ goro' \in [Subs -> Goroutines]
      BY <1>1, <2>2 DEF Put, Goroutines, TypeOK
    <3>5. Room' = Room
      BY <1>6 DEF Send, closeVars, Room
    <3>6. QED
      BY <1>6, <3>3, <3>4, <3>5 DEF Send, brokerVars, closeVars, TypeOK
  <2>3. CASE goro' = [goro EXCEPT ![i] = Returned] /\ UNCHANGED <<chan, late>>
    <3>1. goro' \in [Subs -> Goroutines]
      BY <2>3 DEF Goroutines, TypeOK
    <3>2. Room' = Room
      BY <1>6 DEF Send, closeVars, Room
    <3>3. QED
      BY <1>6, <2>3, <3>1, <3>2 DEF Send, brokerVars, closeVars, TypeOK
  <2>4. QED
    BY <1>6, <2>2, <2>3 DEF Send
<1>7. QED
  BY <1>2, <1>3, <1>4, <1>5, <1>6 DEF Goroutine

LEMMA TypeTake == ASSUME TypeOK, NEW i \in Calls, Take(i) PROVE TypeOK'
<1>1. i \in Subs
  BY DEF Calls, Subs, TypeOK
<1>2. chan[i] \in Messages /\ chan[i] # <<>> /\ got[i] \in Messages
  BY <1>1 DEF Take, TypeOK
<1>3. Head(chan[i]) \in Positive /\ Tail(chan[i]) \in Messages
      /\ Len(Tail(chan[i])) = Len(chan[i]) - 1 /\ Len(chan[i]) \in Nat
  <2>1. Head(chan[i]) \in Positive /\ Tail(chan[i]) \in Messages
    BY <1>2, HeadAndTail
  <2>2. Len(Tail(chan[i])) = Len(chan[i]) - 1 /\ Len(chan[i]) \in Nat
    BY <1>2 DEF Messages
  <2>3. QED
    BY <2>1, <2>2
<1>4. Append(got[i], Head(chan[i])) \in Messages
  BY <1>2, <1>3, AppendRange
<1>5. /\ got' \in [Subs -> Messages] /\ chan' \in [Subs -> Messages]
      /\ \A k \in Subs : Len(chan'[k]) <= Room
  <2>1. Room \in Nat /\ Len(chan[i]) <= Room
    BY <1>1 DEF Room, TypeOK
  <2>2. QED
    BY <1>1, <1>3, <1>4, <2>1 DEF Take, TypeOK
<1>6. QED
  BY <1>5 DEF Take, TypeOK, brokerVars, closeVars, Room

\* Steps that touch neither a goroutine nor a connection.
Aside == SubscribeClosed \/ CloseReturns \/ \E i \in Calls : Relay(i)

LEMMA AsideFacts ==
    ASSUME Aside
    PROVE  /\ UNCHANGED <<sent, conn, count, goro, chan, late, metrics, cancelled, closeCh, got>>
           /\ ClientOpen' = ClientOpen
<1>1. UNCHANGED <<sent, conn, count, goro, chan, late, metrics, cancelled, closeCh, got>>
  BY DEF Aside, SubscribeClosed, CloseReturns, Relay, brokerVars, goroVars, closeVars
<1>2. ClientOpen' = ClientOpen
  BY DEF Aside, SubscribeClosed, CloseReturns, Relay, closeVars, ClientOpen
<1>3. QED
  BY <1>1, <1>2

LEMMA TypeClose ==
    ASSUME TypeOK, ClosePublisher \/ CloseSubscriber \/ Aside PROVE TypeOK'
<1>1. CASE ClosePublisher
  <2>1. <<>> \in Messages
    BY EmptySeq DEF Messages
  <2>2. conn' \in [Subs -> Conns]
    BY <1>1, <2>1 DEF ClosePublisher, TypeOK, Conns
  <2>3. QED
    BY <1>1, <2>2 DEF ClosePublisher, TypeOK, goroVars, Room
<1>2. CASE CloseSubscriber
  BY <1>2 DEF CloseSubscriber, EndAll, TypeOK, brokerVars, goroVars, Room
<1>3. CASE Aside
  <2>1. relayed' \subseteq Subs
    <3>1. ASSUME NEW i \in Calls, Relay(i) PROVE relayed' \subseteq Subs
      BY <3>1 DEF Relay, TypeOK, Calls, Subs
    <3>2. CASE SubscribeClosed \/ CloseReturns
      BY <3>2 DEF SubscribeClosed, CloseReturns, TypeOK
    <3>3. QED
      BY <1>3, <3>1, <3>2 DEF Aside
  <2>2. closer' \in {"open", "publisher", "subscriber", "closed", "stuck"}
    BY <1>3 DEF Aside, SubscribeClosed, CloseReturns, Relay, TypeOK, closeVars
  <2>3. QED
    BY <1>3, <2>1, <2>2, AsideFacts DEF TypeOK, Room
<1>4. QED
  BY <1>1, <1>2, <1>3

LEMMA TypeEstablish == ASSUME TypeOK, NEW j \in Calls, Establish(j) PROVE TypeOK'
<1>1. j \in Subs
  BY DEF TypeOK, Calls, Subs
<1>2. conn' \in [Subs -> Conns]
  BY <1>1, ConnChanges DEF Establish
<1>3. QED
  BY <1>2 DEF Establish, TypeOK, goroVars, closeVars, Room

LEMMA TypeStep == TypeOK /\ [Next]_vars => TypeOK'
<1>1. SUFFICES ASSUME TypeOK, [Next]_vars PROVE TypeOK'
  OBVIOUS
<1>2. ASSUME NEW i \in Calls, Cancel(i) PROVE TypeOK'
  <2>1. i \in Subs
    BY <1>1 DEF TypeOK, Calls, Subs
  <2>2. cancelled' \subseteq Subs
    BY <1>1, <1>2, <2>1 DEF Cancel, TypeOK
  <2>3. QED
    BY <1>1, <1>2, <2>2 DEF Cancel, TypeOK, brokerVars, goroVars, Room
<1>3. CASE UNCHANGED vars
  BY <1>1, <1>3 DEF vars, TypeOK, brokerVars, goroVars, closeVars, Room
<1>4. QED
  BY <1>1, <1>2, <1>3, TypePublish, TypeSubscribe, TypeTake, TypeGoroutine, TypeClose,
     TypeEstablish
  DEF Next, Aside

\* Every variable keeps its type, and no channel holds more than its buffer.
THEOREM TypeCorrect == Spec => []TypeOK
  BY TypeInit, TypeStep, PTL DEF Spec

-----------------------------------------------------------------------------
(* What a step does to a connection.                                        *)

\* Its topic stays, and that it was shared; and either what waits in it stays as
\* well, or some of that is taken, or all lost, or a message comes.
Same(j) == conn'[j].topic = conn[j].topic /\ (conn[j].shared => conn'[j].shared)
Keeps(j) == Same(j) /\ conn'[j].log = conn[j].log /\ conn'[j].queue = conn[j].queue
Loses(j) == Same(j) /\ conn'[j].log = conn[j].log /\ conn'[j].queue = <<>>
Shortens(j) ==
    /\ Same(j) /\ conn'[j].log = conn[j].log
    /\ \E n \in 1 .. Len(conn[j].queue) :
          conn'[j].queue = SubSeq(conn[j].queue, n + 1, Len(conn[j].queue))
Grows(j) ==
    /\ Same(j)
    /\ conn'[j].log = Append(conn[j].log, Len(sent) + 1)
    /\ conn'[j].queue = Append(conn[j].queue, Len(sent) + 1)
    /\ sent' = Append(sent, conn[j].topic)

\* A connection after a step that publishes nothing and makes no call.
Quiet(j) == UNCHANGED <<sent, count>> /\ (Keeps(j) \/ Loses(j) \/ Shortens(j))

LEMMA ConnUnchanged ==
    ASSUME NEW j \in Subs, UNCHANGED conn PROVE Keeps(j)
  BY DEF Keeps, Same

LEMMA ConnGoroutine ==
    ASSUME TypeOK, NEW i \in Calls, Goroutine(i), NEW j \in Subs
    PROVE  Quiet(j)
<1>1. i \in Subs /\ conn \in [Subs -> Conns]
  BY CallsAreSubs DEF TypeOK
<1>2. CASE Select(i)
  <2>1. UNCHANGED <<sent, count>>
    BY <1>1, <1>2, SelectFacts
  <2>2. ASSUME NEW k \in Readable(i),
               conn' = [conn EXCEPT ![k].shared = conn[k].shared \/ Meets(i, k)]
        PROVE  Keeps(j)
    BY <1>1, <2>2 DEF Keeps, Same, Conns
  <2>3. QED
    BY <1>1, <1>2, <2>1, <2>2, SelectFacts, ConnUnchanged DEF Quiet
<1>3. ASSUME NEW k \in Subs, NEW n \in 1 .. Len(conn[k].queue), conn' = After(k, n)
      PROVE  Keeps(j) \/ Shortens(j)
  <2>1. CASE j = k
    BY <1>1, <1>3, <2>1 DEF Shortens, Same, After, Conns
  <2>2. CASE j # k
    BY <1>1, <1>3, <2>2 DEF Keeps, Same, After, Conns
  <2>3. QED
    BY <2>1, <2>2
<1>4. ASSUME NEW k \in Subs, Receive(i, k) PROVE Quiet(j)
  BY <1>1, <1>3, <1>4, ReceiveFacts DEF Quiet
<1>5. ASSUME NEW k \in Subs, NEW l \in Subs, ReceiveTogether(i, l, k) PROVE Quiet(j)
  BY <1>1, <1>3, <1>5, TogetherFacts DEF Quiet
<1>6. ASSUME NEW k \in Subs, ReceiveFails(i, k) PROVE Quiet(j)
  <2>1. /\ UNCHANGED <<sent, count>>
        /\ conn' = [conn EXCEPT ![k].queue = <<>>, ![k].open = FALSE]
    BY <1>1, <1>6, FailsFacts
  <2>2. Keeps(j) \/ Loses(j)
    BY <1>1, <2>1 DEF Keeps, Loses, Same, Conns
  <2>3. QED
    BY <2>1, <2>2 DEF Quiet
<1>7. CASE Send(i)
  BY <1>7, ConnUnchanged DEF Send, brokerVars, Quiet
<1>8. QED
  BY <1>2, <1>4, <1>5, <1>6, <1>7 DEF Goroutine

LEMMA ConnPublish ==
    ASSUME TypeOK, NEW topic \in Topics, Publish(topic), NEW j \in Subs
    PROVE  Keeps(j) \/ Grows(j)
<1>1. conn \in [Subs -> Conns] /\ conn'[j] = Handed(conn[j], topic, Len(sent) + 1)
  BY DEF TypeOK, Publish
<1>2. CASE conn[j].open /\ conn[j].topic = topic
  <2>1. sent' = Append(sent, conn[j].topic)
    BY <1>2 DEF Publish
  <2>2. QED
    BY <1>1, <1>2, <2>1 DEF Grows, Same, Handed, Conns
<1>3. CASE ~(conn[j].open /\ conn[j].topic = topic)
  BY <1>1, <1>3 DEF Keeps, Same, Handed
<1>4. QED
  BY <1>2, <1>3

LEMMA ConnSubscribe ==
    ASSUME TypeOK, NEW topic \in Topics, Subscribe(topic), NEW j \in Subs
    PROVE  /\ j # count + 1 => Keeps(j)
           /\ j = count + 1 => conn'[j] = Conn(topic)
  BY DEF TypeOK, Subscribe, Keeps, Same

\* The other actions.
LEMMA ConnOther ==
    ASSUME TypeOK, NEW j \in Subs,
           \/ ClosePublisher \/ CloseSubscriber \/ Aside \/ UNCHANGED vars
           \/ \E i \in Calls : Cancel(i) \/ Take(i) \/ Establish(i)
    PROVE  Quiet(j)
<1>1. conn \in [Subs -> Conns]
  BY DEF TypeOK
<1>2. CASE ClosePublisher
  BY <1>1, <1>2 DEF ClosePublisher, Quiet, Loses, Same, Conns
<1>3. ASSUME NEW i \in Calls, Establish(i) PROVE Quiet(j)
  BY <1>1, <1>3 DEF Establish, Quiet, Keeps, Same, Conns
<1>4. CASE CloseSubscriber \/ Aside \/ UNCHANGED vars \/ \E i \in Calls : Cancel(i) \/ Take(i)
  <2>1. UNCHANGED <<sent, count, conn>>
    BY <1>4, AsideFacts DEF CloseSubscriber, vars, Cancel, Take, brokerVars
  <2>2. QED
    BY <2>1, ConnUnchanged DEF Quiet
<1>5. QED
  BY <1>2, <1>3, <1>4

LEMMA ConnStep ==
    ASSUME TypeOK, [Next]_vars, NEW j \in Subs
    PROVE  \/ Quiet(j)
           \/ count' = count /\ (Keeps(j) \/ Grows(j)) /\ ClientOpen
              /\ \E topic \in Topics : Publish(topic)
           \/ sent' = sent /\ count' = count + 1
              /\ \/ j # count + 1 /\ Keeps(j)
                 \/ j = count + 1 /\ \E topic \in Topics : conn'[j] = Conn(topic)
<1>1. ASSUME NEW topic \in Topics, Publish(topic)
      PROVE  count' = count /\ (Keeps(j) \/ Grows(j)) /\ ClientOpen
  BY <1>1, ConnPublish DEF Publish
<1>2. ASSUME NEW topic \in Topics, Subscribe(topic)
      PROVE  sent' = sent /\ count' = count + 1
             /\ \/ j # count + 1 /\ Keeps(j)
                \/ j = count + 1 /\ conn'[j] = Conn(topic)
  BY <1>2, ConnSubscribe DEF Subscribe
<1>3. QED
  BY <1>1, <1>2, ConnGoroutine, ConnOther DEF Next, Aside

-----------------------------------------------------------------------------
(* What goes on behind the calls.                                           *)

\* A call that was not made has nothing.
Unstarted ==
    \A i \in Subs :
        /\ goro[i] = NotStarted <=> i > count
        /\ i > count => got[i] = <<>> /\ chan[i] = <<>> /\ late[i] = 0

\* A goroutine receives on a connection of its own call or of a later one,
Drawn == \A i, j \in Subs : goro[i] = Receiving(j) => j \in i .. count

\* and where two receive, the connection is shared.
Met ==
    \A i, k, j \in Subs :
        i # k /\ goro[i] = Receiving(j) /\ goro[k] = Receiving(j) => conn[j].shared

\* What waits in a connection was handed to it,
QueuesLogged == \A j \in Subs : Range(conn[j].queue) \subseteq Range(conn[j].log)

\* and nothing waits in one of a closed client.
Emptied == ~ClientOpen => \A j \in Subs : conn[j].queue = <<>>

Behind == TypeOK /\ Unstarted /\ Drawn /\ Met /\ QueuesLogged /\ Emptied

\* The goroutines are told apart by what they do.
LEMMA Stages ==
    /\ \A j : Receiving(j) # NotStarted /\ Receiving(j) # Selecting
              /\ Receiving(j) # Returned
    /\ \A m : Sending(m) # NotStarted /\ \A j : Sending(m) # Receiving(j)
    /\ \A j, k : Receiving(j) = Receiving(k) => j = k
    /\ Selecting # NotStarted /\ Returned # NotStarted /\ Selecting # Returned
  BY DEF Receiving, Sending, NotStarted, Selecting, Returned

LEMMA EmptyRange == Range(<<>>) = {} /\ <<>> \in Messages /\ Len(<<>>) = 0
  BY EmptySeq DEF Range, Messages

\* What waits in the connections, after a step.
LEMMA QueueStep == Behind /\ [Next]_vars => QueuesLogged'
<1>1. SUFFICES ASSUME Behind, [Next]_vars, NEW j \in Subs
               PROVE  Range(conn'[j].queue) \subseteq Range(conn[j].log')
  BY DEF QueuesLogged, Subs
<1>2. /\ conn[j].queue \in Messages /\ conn[j].log \in Messages
      /\ Range(conn[j].queue) \subseteq Range(conn[j].log)
      /\ Len(sent) + 1 \in Positive
  <2>1. conn[j] \in Conns /\ Len(sent) \in Nat
    BY <1>1 DEF Behind, TypeOK
  <2>2. conn[j].queue \in Messages /\ conn[j].log \in Messages
    BY <2>1 DEF Conns
  <2>3. QED
    BY <1>1, <2>1, <2>2 DEF Behind, QueuesLogged, Positive
<1>3. CASE Keeps(j) \/ Loses(j)
  BY <1>2, <1>3, EmptyRange DEF Keeps, Loses
<1>4. CASE Shortens(j)
  BY <1>2, <1>4, Suffix DEF Shortens
<1>5. CASE Grows(j)
  BY <1>2, <1>5, AppendRange DEF Grows
<1>6. ASSUME NEW topic, conn'[j] = Conn(topic)
      PROVE  Range(conn'[j].queue) \subseteq Range(conn[j].log')
  BY <1>6, EmptyRange DEF Conn
<1>7. TypeOK
  BY <1>1 DEF Behind
<1>8. QED
  BY <1>1, <1>3, <1>4, <1>5, <1>6, <1>7, ConnStep DEF Quiet

LEMMA EmptiedStep == TypeOK /\ Emptied /\ [Next]_vars => Emptied'
<1>1. SUFFICES ASSUME TypeOK, Emptied, [Next]_vars, ~ClientOpen', NEW j \in Subs
               PROVE  conn'[j].queue = <<>>
  BY DEF Emptied, Subs
<1>2. conn \in [Subs -> Conns] /\ conn[j] \in Conns
  BY <1>1 DEF TypeOK
<1>3. CASE ClientOpen
  <2>1. CASE ClosePublisher
    BY <1>2, <2>1 DEF ClosePublisher, Conns
  <2>2. CASE Aside
    BY <1>1, <1>3, <2>2, AsideFacts
  <2>3. ASSUME NEW i \in Calls, Goroutine(i) PROVE FALSE
    BY <1>1, <1>3, <2>3 DEF Goroutine, ClientOpen, closeVars, Select, Receive, ReceiveTogether,
       ReceiveFails, Send
  <2>4. CASE \/ UNCHANGED vars \/ CloseSubscriber
             \/ \E topic \in Topics : Publish(topic) \/ Subscribe(topic)
             \/ \E i \in Calls : Cancel(i) \/ Take(i) \/ Establish(i)
    BY <1>1, <1>3, <2>4 DEF vars, CloseSubscriber, Publish, Subscribe, Cancel, Take, Establish,
       closeVars, ClientOpen
  <2>5. QED
    BY <1>1, <2>1, <2>2, <2>3, <2>4 DEF Next, Aside
<1>4. CASE ~ClientOpen
  <2>1. conn[j].queue = <<>>
    BY <1>1, <1>4 DEF Emptied
  <2>2. ~Shortens(j)
    BY <2>1, EmptyRange DEF Shortens
  <2>3. Keeps(j) \/ Loses(j) => conn'[j].queue = <<>>
    BY <2>1 DEF Keeps, Loses
  <2>4. ASSUME NEW topic, conn'[j] = Conn(topic) PROVE conn'[j].queue = <<>>
    BY <2>4 DEF Conn
  <2>5. QED
    BY <1>1, <1>4, <2>2, <2>3, <2>4, ConnStep DEF Quiet
<1>5. QED
  BY <1>3, <1>4

\* What a step of goroutine i does to the goroutines: it, or it and another that
\* receives on the same connection, go on.
LEMMA GoroutineStep ==
    ASSUME TypeOK, NEW i \in Calls, Goroutine(i)
    PROVE  /\ UNCHANGED <<sent, count, relayed, closeVars, got>>
           /\ \E k \in Subs :
                 /\ i # k => \E j \in Subs : goro[i] = Receiving(j) /\ goro[k] = Receiving(j)
                 /\ \A l \in Subs \ {i, k} :
                       goro'[l] = goro[l] /\ chan'[l] = chan[l] /\ late'[l] = late[l]
                 /\ i # k => UNCHANGED <<chan, late>>
                 /\ goro[i] \notin {NotStarted, Returned}
                 /\ goro[k] \notin {NotStarted, Returned}
                 /\ goro'[i] # NotStarted /\ goro'[k] # NotStarted
<1>1. i \in Subs /\ goro \in [Subs -> Goroutines]
  BY CallsAreSubs DEF TypeOK
<1>2. CASE Select(i)
  <2>1. goro[i] \notin {NotStarted, Returned} /\ goro'[i] # NotStarted
        /\ \A l \in Subs \ {i} : goro'[l] = goro[l]
    BY <1>1, <1>2, SelectFacts, Stages
  <2>2. QED
    BY <1>1, <1>2, <2>1, SelectFacts
<1>3. ASSUME NEW j \in Subs, Receive(i, j) \/ ReceiveFails(i, j)
      PROVE  /\ goro[i] \notin {NotStarted, Returned} /\ goro'[i] # NotStarted
             /\ \A l \in Subs \ {i} : goro'[l] = goro[l]
             /\ UNCHANGED <<sent, count, relayed, closeVars, got, chan, late>>
  <2>1. CASE Receive(i, j)
    <3>1. PICK m \in Positive : goro' = Gets(i, m)
      BY <1>1, <2>1, ReceiveFacts
    <3>2. goro'[i] = Sending(m) /\ \A l \in Subs \ {i} : goro'[l] = goro[l]
      BY <1>1, <3>1 DEF Gets
    <3>3. QED
      BY <1>1, <2>1, <3>2, ReceiveFacts, Stages
  <2>2. CASE ReceiveFails(i, j)
    <3>1. /\ goro[i] = Receiving(j) /\ goro' = [goro EXCEPT ![i] = Returned]
          /\ UNCHANGED <<sent, count, relayed, closeVars, got, chan, late>>
      BY <1>1, <2>2, FailsFacts
    <3>2. goro'[i] = Returned /\ \A l \in Subs \ {i} : goro'[l] = goro[l]
      BY <1>1, <3>1
    <3>3. QED
      BY <3>1, <3>2, Stages
  <2>3. QED
    BY <1>3, <2>1, <2>2
<1>4. ASSUME NEW k \in Subs, NEW j \in Subs, ReceiveTogether(i, k, j)
      PROVE  /\ goro[i] = Receiving(j) /\ goro[k] = Receiving(j)
             /\ goro'[i] # NotStarted /\ goro'[k] # NotStarted
             /\ \A l \in Subs \ {i, k} : goro'[l] = goro[l]
             /\ UNCHANGED <<sent, count, relayed, closeVars, got, chan, late>>
  <2>1. PICK m1 \in Positive, m2 \in Positive : goro' = BothGet(i, m1, k, m2)
    BY <1>1, <1>4, TogetherFacts
  <2>2. goro'[i] \in {Sending(m1), Sending(m2)} /\ goro'[k] = Sending(m2)
        /\ \A l \in Subs \ {i, k} : goro'[l] = goro[l]
    BY <1>1, <2>1 DEF BothGet
  <2>3. QED
    BY <1>1, <1>4, <2>2, TogetherFacts, Stages
<1>5. CASE Send(i)
  <2>1. /\ goro[i] \notin {NotStarted, Returned} /\ goro'[i] \in {Selecting, Returned}
        /\ \A l \in Subs \ {i} :
              goro'[l] = goro[l] /\ chan'[l] = chan[l] /\ late'[l] = late[l]
    BY <1>1, <1>5 DEF Send, Put, NotStarted, Returned, TypeOK
  <2>2. QED
    BY <1>1, <1>5, <2>1, Stages DEF Send, brokerVars
<1>6. QED
  <2>1. CASE Select(i) \/ Send(i)
    BY <1>2, <1>5, <2>1
  <2>2. ASSUME NEW j \in Subs, Receive(i, j) \/ ReceiveFails(i, j)
        PROVE  /\ UNCHANGED <<sent, count, relayed, closeVars, got>>
               /\ \A l \in Subs \ {i, i} :
                     goro'[l] = goro[l] /\ chan'[l] = chan[l] /\ late'[l] = late[l]
               /\ goro[i] \notin {NotStarted, Returned} /\ goro'[i] # NotStarted
    BY <1>3, <2>2
  <2>3. ASSUME NEW k \in Subs, NEW j \in Subs, ReceiveTogether(i, k, j)
        PROVE  /\ UNCHANGED <<sent, count, relayed, closeVars, got, chan, late>>
               /\ goro[i] = Receiving(j) /\ goro[k] = Receiving(j)
               /\ \A l \in Subs \ {i, k} :
                     goro'[l] = goro[l] /\ chan'[l] = chan[l] /\ late'[l] = late[l]
               /\ goro[i] \notin {NotStarted, Returned}
               /\ goro[k] \notin {NotStarted, Returned}
               /\ goro'[i] # NotStarted /\ goro'[k] # NotStarted
    BY <1>4, <2>3, Stages
  <2>4. QED
    BY <1>1, <2>1, <2>2, <2>3 DEF Goroutine

LEMMA UnstartedStep == Behind /\ [Next]_vars => Unstarted'
<1>1. SUFFICES ASSUME Behind, [Next]_vars PROVE Unstarted'
  OBVIOUS
<1> USE DEF Behind, Unstarted
<1>2. Calls \subseteq Subs /\ count \in Nat
  BY <1>1, CallsAreSubs
<1>3. ASSUME NEW topic \in Topics, Subscribe(topic) PROVE Unstarted'
  BY <1>1, <1>2, <1>3, Stages DEF Subscribe, TypeOK, Subs
<1>4. ASSUME NEW i \in Calls, Goroutine(i) PROVE Unstarted'
  <2>1. PICK k \in Subs :
            /\ UNCHANGED <<count, got>>
            /\ \A l \in Subs \ {i, k} :
                  goro'[l] = goro[l] /\ chan'[l] = chan[l] /\ late'[l] = late[l]
            /\ goro[i] # NotStarted /\ goro[k] # NotStarted
            /\ goro'[i] # NotStarted /\ goro'[k] # NotStarted
    BY <1>1, <1>4, GoroutineStep
  <2>2. ~(i > count) /\ ~(k > count)
    BY <1>1, <1>2, <2>1
  <2>3. QED
    BY <1>1, <2>1, <2>2
<1>5. ASSUME NEW i \in Calls, Take(i) PROVE Unstarted'
  BY <1>1, <1>2, <1>5 DEF Take, Calls, TypeOK
<1>6. ASSUME NEW i \in Calls, Cancel(i) \/ Establish(i) PROVE Unstarted'
  BY <1>1, <1>6 DEF Cancel, Establish, goroVars
<1>7. ASSUME NEW topic \in Topics, Publish(topic) PROVE Unstarted'
  BY <1>1, <1>7 DEF Publish, goroVars
<1>8. CASE ClosePublisher \/ CloseSubscriber \/ UNCHANGED vars
  BY <1>1, <1>8 DEF ClosePublisher, CloseSubscriber, goroVars, vars
<1>9. CASE Aside
  BY <1>1, <1>9, AsideFacts
<1>10. QED
  BY <1>1, <1>3, <1>4, <1>5, <1>6, <1>7, <1>8, <1>9 DEF Next, Aside

\* Which goroutines receive after a step, and where: those that did, and one more.
LEMMA ReceivingStep ==
    ASSUME Behind, [Next]_vars, NEW i \in Subs, NEW j, goro'[i] = Receiving(j)
    PROVE  /\ count' \in Nat /\ count' >= count
           /\ \/ goro[i] = Receiving(j)
              \/ /\ i \in Calls /\ Select(i) /\ j \in Readable(i)
                 /\ conn' = [conn EXCEPT ![j].shared = conn[j].shared \/ Meets(i, j)]
                 /\ \A k \in Subs \ {i} : goro'[k] = goro[k]
<1> USE DEF Behind
<1>1. /\ Calls \subseteq Subs /\ count \in Nat
      /\ goro \in [Subs -> Goroutines]
  BY CallsAreSubs DEF TypeOK
<1>2. ASSUME NEW topic \in Topics, Subscribe(topic)
      PROVE  count' = count + 1 /\ goro[i] = Receiving(j)
  BY <1>1, <1>2, Stages DEF Subscribe
<1>3. ASSUME NEW k \in Calls, Select(k)
      PROVE  /\ count' = count
             /\ \/ goro[i] = Receiving(j)
                \/ /\ i \in Calls /\ Select(i) /\ j \in Readable(i)
                   /\ conn' = [conn EXCEPT ![j].shared = conn[j].shared \/ Meets(i, j)]
                   /\ \A l \in Subs \ {i} : goro'[l] = goro[l]
  <2>1. count' = count
    BY <1>1, <1>3, SelectFacts
  <2>2. CASE goro' = [goro EXCEPT ![k] = Returned]
    BY <1>1, <2>1, <2>2, Stages
  <2>3. ASSUME NEW l \in Readable(k), goro' = [goro EXCEPT ![k] = Receiving(l)],
               conn' = [conn EXCEPT ![l].shared = conn[l].shared \/ Meets(k, l)]
        PROVE  \/ goro[i] = Receiving(j)
               \/ /\ i \in Calls /\ Select(i) /\ j \in Readable(i)
                  /\ conn' = [conn EXCEPT ![j].shared = conn[j].shared \/ Meets(i, j)]
                  /\ \A m \in Subs \ {i} : goro'[m] = goro[m]
    <3>1. CASE i = k
      <4>1. l = j
        BY <1>1, <2>3, <3>1, Stages
      <4>2. QED
        BY <1>1, <1>3, <2>3, <3>1, <4>1
    <3>2. CASE i # k
      BY <1>1, <2>3, <3>2
    <3>3. QED
      BY <3>1, <3>2
  <2>4. QED
    BY <1>1, <1>3, <2>1, <2>2, <2>3, SelectFacts
<1>4. ASSUME NEW k \in Calls, NEW l \in Subs, Receive(k, l)
      PROVE  count' = count /\ goro[i] = Receiving(j)
  <2>1. PICK m \in Positive : goro' = Gets(k, m) /\ count' = count
    BY <1>1, <1>4, ReceiveFacts
  <2>2. QED
    BY <1>1, <2>1, Stages DEF Gets
<1>5. ASSUME NEW k \in Calls, NEW m \in Subs, NEW l \in Subs, ReceiveTogether(k, m, l)
      PROVE  count' = count /\ goro[i] = Receiving(j)
  <2>1. PICK m1 \in Positive, m2 \in Positive :
            goro' = BothGet(k, m1, m, m2) /\ count' = count
    BY <1>1, <1>5, TogetherFacts
  <2>2. QED
    BY <1>1, <2>1, Stages DEF BothGet
<1>6. ASSUME NEW k \in Calls, NEW l \in Subs, ReceiveFails(k, l)
      PROVE  count' = count /\ goro[i] = Receiving(j)
  BY <1>1, <1>6, FailsFacts, Stages
<1>7. ASSUME NEW k \in Calls, Send(k) PROVE count' = count /\ goro[i] = Receiving(j)
  BY <1>1, <1>7, Stages DEF Send
<1>8. ASSUME \/ ClosePublisher \/ CloseSubscriber \/ UNCHANGED vars
             \/ (\E k \in Calls : Cancel(k) \/ Take(k) \/ Establish(k))
             \/ (\E topic \in Topics : Publish(topic))
      PROVE  count' = count /\ goro[i] = Receiving(j)
  BY <1>8 DEF ClosePublisher, CloseSubscriber, vars, Cancel, Take, Establish, Publish,
     brokerVars, goroVars
<1>9. CASE Aside
  BY <1>1, <1>9, AsideFacts
<1>10. QED
  BY <1>1, <1>2, <1>3, <1>4, <1>5, <1>6, <1>7, <1>8, <1>9 DEF Next, Goroutine, Aside

LEMMA DrawnStep == Behind /\ [Next]_vars => Drawn'
<1>1. SUFFICES ASSUME Behind, [Next]_vars, NEW i \in Subs, NEW j \in Subs,
                      goro'[i] = Receiving(j)
               PROVE  j \in i .. count'
  BY DEF Drawn, Subs, Receiving
<1>2. /\ count' \in Nat /\ count' >= count /\ count \in Nat
      /\ goro[i] = Receiving(j) \/ j \in Readable(i)
  BY <1>1, ReceivingStep, CallsAreSubs DEF Behind
<1>3. j \in i .. count
  BY <1>1, <1>2 DEF Behind, Drawn, Readable
<1>4. QED
  BY <1>2, <1>3 DEF Subs

LEMMA MetStep == Behind /\ [Next]_vars => Met'
<1>1. SUFFICES ASSUME Behind, [Next]_vars, NEW i \in Subs, NEW k \in Subs, NEW j \in Subs,
                      i # k, goro'[i] = Receiving(j), goro'[k] = Receiving(j)
               PROVE  conn'[j].shared
  BY DEF Met, Subs, Receiving
<1>2. conn \in [Subs -> Conns] /\ TypeOK /\ count \in Nat
  BY <1>1, CallsAreSubs DEF Behind, TypeOK
<1>3. ASSUME NEW a \in Subs, NEW b \in Subs, a # b, goro'[b] = Receiving(j),
             conn' = [conn EXCEPT ![j].shared = conn[j].shared \/ Meets(a, j)],
             \A c \in Subs \ {a} : goro'[c] = goro[c]
      PROVE  conn'[j].shared
  <2>1. goro[b] = Receiving(j)
    BY <1>3
  <2>2. Meets(a, j)
    BY <1>3, <2>1 DEF Meets
  <2>3. QED
    BY <1>2, <1>3, <2>2 DEF Conns
<1>4. CASE goro[i] = Receiving(j) /\ goro[k] = Receiving(j)
  <2>1. conn[j].shared /\ j \in i .. count
    BY <1>1, <1>4 DEF Behind, Met, Drawn
  <2>2. Same(j)
    BY <1>1, <1>2, <2>1, ConnStep DEF Quiet, Keeps, Loses, Shortens, Grows, Subs
  <2>3. QED
    BY <2>1, <2>2 DEF Same
<1>5. CASE goro[i] # Receiving(j)
  BY <1>1, <1>3, <1>5, ReceivingStep
<1>6. CASE goro[k] # Receiving(j)
  BY <1>1, <1>3, <1>6, ReceivingStep
<1>7. QED
  BY <1>4, <1>5, <1>6

LEMMA BehindInit == Init => Behind
<1>1. SUFFICES ASSUME Init PROVE Behind
  OBVIOUS
<1>2. TypeOK
  BY <1>1, TypeInit
<1>3. Unstarted
  BY <1>1 DEF Init, Unstarted, Subs
<1>4. Drawn /\ Met
  BY <1>1, Stages DEF Init, Drawn, Met
<1>5. QueuesLogged /\ Emptied
  BY <1>1 DEF Init, QueuesLogged, Emptied, ClientOpen, NoConn, Conn
<1>6. QED
  BY <1>2, <1>3, <1>4, <1>5 DEF Behind

LEMMA BehindStep == Behind /\ [Next]_vars => Behind'
  BY TypeStep, UnstartedStep, DrawnStep, MetStep, QueueStep, EmptiedStep DEF Behind

-----------------------------------------------------------------------------
(* At most one message gets into a channel late.                            *)

\* One that got in was the last the goroutine sent.
LateInv ==
    \A i \in Subs :
        late[i] = 0 \/ (late[i] = 1 /\ Over(i) /\ goro[i] \in {Selecting, Returned})

LEMMA LateStep == Behind /\ LateInv /\ [Next]_vars => LateInv'
<1>1. SUFFICES ASSUME Behind, LateInv, [Next]_vars PROVE LateInv'
  OBVIOUS
<1> USE DEF LateInv, Behind, Over
<1>2. Calls \subseteq Subs /\ count \in Nat
  BY <1>1, CallsAreSubs
<1>3. ASSUME UNCHANGED <<goro, late, cancelled, closeCh>> PROVE LateInv'
  BY <1>1, <1>3
<1>4. ASSUME NEW topic \in Topics, Subscribe(topic) PROVE LateInv'
  <2>1. \A i \in Subs : goro'[i] = goro[i] \/ goro'[i] = Selecting
    BY <1>1, <1>4 DEF Subscribe, TypeOK
  <2>2. QED
    BY <1>1, <1>4, <2>1 DEF Subscribe, closeVars
<1>5. ASSUME NEW i \in Calls, Cancel(i) PROVE LateInv'
  BY <1>1, <1>5 DEF Cancel, goroVars
<1>6. ASSUME NEW i \in Calls, Goroutine(i) PROVE LateInv'
  <2>0. i \in Subs
    BY <1>2
  <2>1. CASE Select(i)
    <3>1. goro[i] = Selecting /\ UNCHANGED <<late, cancelled, closeCh>>
      BY <1>1, <2>0, <2>1, SelectFacts DEF closeVars
    <3>2. goro'[i] # Returned => ~Over(i)
      BY <1>1, <2>0, <2>1, SelectFacts DEF Ended, TypeOK
    <3>3. \A k \in Subs \ {i} : goro'[k] = goro[k]
      BY <1>1, <2>0, <2>1, SelectFacts DEF TypeOK
    <3>4. QED
      BY <1>1, <3>1, <3>2, <3>3
  <2>2. CASE ~Select(i) /\ ~Send(i)
    <3>1. PICK k \in Subs :
              /\ \A l \in Subs \ {i, k} : goro'[l] = goro[l] /\ late'[l] = late[l]
              /\ i # k => \E j \in Subs : goro[i] = Receiving(j) /\ goro[k] = Receiving(j)
      BY <1>1, <1>6, GoroutineStep
    <3>2. (\E j \in Subs : goro[i] = Receiving(j)) /\ UNCHANGED <<late, cancelled, closeCh>>
      BY <1>6, <2>2 DEF Goroutine, Receive, ReceiveTogether, ReceiveFails, closeVars
    <3>3. late[i] = 0 /\ late[k] = 0
      BY <1>1, <2>0, <3>1, <3>2, Stages
    <3>4. QED
      BY <1>1, <3>1, <3>2, <3>3
  <2>3. CASE Send(i)
    <3>1. goro[i] # Selecting /\ goro[i] # Returned
      BY <2>3 DEF Send, Selecting, Returned
    <3>2. late[i] = 0
      BY <1>1, <2>0, <3>1
    <3>3. /\ \A k \in Subs \ {i} : goro'[k] = goro[k] /\ late'[k] = late[k]
          /\ goro'[i] \in {Selecting, Returned}
          /\ late'[i] = 0 \/ (late'[i] = 1 /\ Over(i))
          /\ closeCh' = closeCh /\ cancelled' = cancelled
      BY <1>1, <2>0, <2>3, <3>2 DEF Send, Put, TypeOK, closeVars
    <3>4. QED
      BY <1>1, <3>3
  <2>4. QED
    BY <2>1, <2>2, <2>3
<1>7. CASE \/ ClosePublisher \/ UNCHANGED vars
           \/ (\E i \in Calls : Take(i) \/ Establish(i))
           \/ (\E topic \in Topics : Publish(topic))
  BY <1>3, <1>7 DEF ClosePublisher, vars, Take, Establish, Publish, goroVars, closeVars
<1>8. CASE Aside
  BY <1>3, <1>8, AsideFacts
<1>9. CASE CloseSubscriber
  <2>1. /\ closeCh' /\ late' = late /\ goro' = goro
    BY <1>9 DEF CloseSubscriber, EndAll, goroVars
  <2>2. QED
    BY <1>1, <2>1
<1>10. QED
  BY <1>1, <1>4, <1>5, <1>6, <1>7, <1>8, <1>9 DEF Next, Aside

LEMMA LateInit == Init => LateInv
  BY DEF Init, LateInv

\* After its context was cancelled or the subscriber closed, a channel gets at
\* most one more message.
THEOREM FewLate == Spec => []AtMostOneLate
<1>1. LateInv => AtMostOneLate
  BY DEF LateInv, AtMostOneLate
<1>2. QED
  BY BehindInit, BehindStep, LateInit, LateStep, <1>1, PTL DEF Spec

-----------------------------------------------------------------------------
(* What a channel brings was published to its topic or that of a later call. *)

\* What goroutine i holds, as a set; what it and its channel ever had.
Held(i) == {n \in Positive : goro[i] = Sending(n)}
Has(i) == Range(got[i]) \union Range(chan[i]) \union Held(i)

FromLater(i, n) == \E j \in i .. count : n \in Range(conn[j].log)

Sourced == \A i \in Subs : \A n \in Has(i) : FromLater(i, n)

\* What a connection was handed is never taken back, and calls are not undone.
LEMMA LogsGrow ==
    Behind /\ [Next]_vars =>
        /\ count' \in Nat /\ count' >= count
        /\ \A j \in Calls : Range(conn[j].log) \subseteq Range(conn'[j].log)
<1>1. SUFFICES ASSUME Behind, [Next]_vars
               PROVE  /\ count' \in Nat /\ count' >= count
                      /\ \A j \in Calls : Range(conn[j].log) \subseteq Range(conn'[j].log)
  OBVIOUS
<1>2. Calls \subseteq Subs /\ count \in Nat /\ TypeOK /\ TypeOK'
  BY <1>1, CallsAreSubs, TypeStep DEF Behind
<1>3. ASSUME NEW j \in Calls PROVE Range(conn[j].log) \subseteq Range(conn'[j].log)
  <2>1. j \in Subs /\ j # count + 1
    BY <1>2 DEF Calls
  <2>2. conn[j].log \in Messages /\ Len(sent) + 1 \in Positive
    <3>1. conn[j] \in Conns /\ Len(sent) \in Nat
      BY <1>2, <2>1 DEF TypeOK
    <3>2. QED
      BY <3>1 DEF Conns, Positive
  <2>3. Grows(j) => Range(conn[j].log) \subseteq Range(conn'[j].log)
    BY <2>2, AppendRange DEF Grows
  <2>4. Keeps(j) \/ Loses(j) \/ Shortens(j) => conn'[j].log = conn[j].log
    BY DEF Keeps, Loses, Shortens
  <2>5. QED
    BY <1>1, <1>2, <2>1, <2>3, <2>4, ConnStep DEF Quiet
<1>4. count' >= count
  <2>1. ASSUME NEW topic, Publish(topic) \/ Subscribe(topic) PROVE count' >= count
    BY <1>2, <2>1 DEF Publish, Subscribe
  <2>2. ASSUME NEW i \in Calls, Goroutine(i) PROVE count' = count
    BY <1>2, <2>2, GoroutineStep
  <2>3. ASSUME \/ ClosePublisher \/ CloseSubscriber \/ UNCHANGED vars
               \/ \E i \in Calls : Cancel(i) \/ Take(i) \/ Establish(i)
        PROVE  count' = count
    BY <2>3 DEF ClosePublisher, CloseSubscriber, vars, Cancel, Take, Establish
  <2>4. Aside => count' = count
    BY AsideFacts
  <2>5. QED
    BY <1>1, <1>2, <2>1, <2>2, <2>3, <2>4 DEF Next, Aside
<1>5. count' \in Nat
  BY <1>2 DEF TypeOK
<1>6. QED
  BY <1>3, <1>4, <1>5

\* A message of an earlier state is still from where it was.
LEMMA LaterGrows ==
    ASSUME Behind, [Next]_vars, NEW i \in Subs, NEW n, FromLater(i, n)
    PROVE  FromLater(i, n)'
<1>1. /\ count \in Nat /\ count' \in Nat /\ count' >= count
      /\ \A j \in Calls : Range(conn[j].log) \subseteq Range(conn'[j].log)
  BY LogsGrow, CallsAreSubs DEF Behind
<1>2. PICK j \in i .. count : n \in Range(conn[j].log)
  BY DEF FromLater
<1>3. j \in Calls /\ j \in i .. count'
  BY <1>1, <1>2 DEF Calls, Subs
<1>4. n \in Range(conn'[j].log)
  BY <1>1, <1>2, <1>3
<1>5. QED
  BY <1>3, <1>4 DEF FromLater

\* What a goroutine may receive was handed to the connection it receives on.
LEMMA ReceivableLogged ==
    ASSUME Behind, NEW l \in Subs, NEW j \in Subs, goro[l] = Receiving(j),
           conn[j].queue # <<>>, NEW n \in Receivable(conn[j])
    PROVE  n \in Range(conn[j].log) /\ j \in Calls /\ FromLater(l, n)
<1>1. conn[j] \in Conns
  BY DEF Behind, TypeOK
<1>2. conn[j].queue \in Messages
  BY <1>1 DEF Conns
<1>3. Head(conn[j].queue) \in Range(conn[j].queue)
  BY <1>2, HeadAndTail
<1>4. n \in Range(conn[j].log)
  BY <1>3 DEF Receivable, Behind, QueuesLogged
<1>5. j \in l .. count
  BY DEF Behind, Drawn
<1>6. j \in Calls
  BY <1>5, CallsAreSubs DEF Calls, Subs, Behind
<1>7. QED
  BY <1>4, <1>5, <1>6 DEF FromLater

\* Whatever a channel or a goroutine has after a step it had before, or has
\* just received.
LEMMA HasStep ==
    ASSUME Behind, [Next]_vars, NEW l \in Subs, NEW n, n \in Has(l)'
    PROVE  n \in Has(l) \/ FromLater(l, n)
<1> USE DEF Behind
<1>1. Calls \subseteq Subs /\ count \in Nat
  BY CallsAreSubs
<1>2. /\ got[l] \in Messages /\ chan[l] \in Messages
  BY DEF TypeOK
<1>3. ASSUME got'[l] = got[l], chan'[l] = chan[l],
             \A m \in Positive : goro'[l] = Sending(m) => goro[l] = Sending(m)
      PROVE  n \in Has(l)
  BY <1>3 DEF Has, Held
<1>4. ASSUME NEW topic \in Topics, Publish(topic) \/ Subscribe(topic)
      PROVE  n \in Has(l)
  <2>1. got'[l] = got[l] /\ chan'[l] = chan[l]
    BY <1>4 DEF Publish, Subscribe, goroVars
  <2>2. goro'[l] = goro[l] \/ goro'[l] = Selecting
    BY <1>4 DEF Publish, Subscribe, goroVars, TypeOK
  <2>3. QED
    BY <1>3, <2>1, <2>2 DEF Sending, Selecting
<1>5. ASSUME NEW i \in Calls, Goroutine(i) PROVE n \in Has(l) \/ FromLater(l, n)
  <2>0. i \in Subs
    BY <1>1
  <2>1. CASE Select(i)
    <3>1. got'[l] = got[l] /\ chan'[l] = chan[l]
      BY <2>1 DEF Select
    <3>2. goro'[l] = goro[l] \/ goro'[l] = Returned \/ \E j : goro'[l] = Receiving(j)
      BY <2>1 DEF Select, TypeOK
    <3>3. \A m : Sending(m) # Returned
      BY DEF Sending, Returned
    <3>4. QED
      BY <1>3, <3>1, <3>2, <3>3, Stages
  <2>2. ASSUME NEW j \in Subs, Receive(i, j) PROVE n \in Has(l) \/ FromLater(l, n)
    <3>1. PICK m \in Positive :
              /\ goro[i] = Receiving(j) /\ conn[j].queue # <<>>
              /\ got' = got /\ chan' = chan
              /\ m \in Receivable(conn[j]) /\ goro' = Gets(i, m)
      BY <2>0, <2>2, ReceiveFacts
    <3>2. CASE l = i /\ n \in Held(l)'
      <4>1. goro'[i] = Sending(m) /\ goro'[i] = Sending(n)
        BY <2>0, <3>1, <3>2 DEF Held, TypeOK, Gets
      <4>2. n = m
        BY <4>1 DEF Sending
      <4>3. QED
        BY <2>0, <3>1, <3>2, <4>2, ReceivableLogged
    <3>3. CASE l # i
      <4>1. goro'[l] = goro[l]
        BY <3>1, <3>3 DEF TypeOK, Gets
      <4>2. QED
        BY <1>3, <3>1, <4>1
    <3>4. QED
      BY <3>1, <3>2, <3>3 DEF Has
  <2>3. ASSUME NEW j \in Subs, ReceiveFails(i, j) PROVE n \in Has(l)
    <3>1. got'[l] = got[l] /\ chan'[l] = chan[l]
      BY <2>0, <2>3, FailsFacts
    <3>2. goro'[l] = goro[l] \/ goro'[l] = Returned
      BY <2>0, <2>3, FailsFacts DEF TypeOK
    <3>3. QED
      BY <1>3, <3>1, <3>2 DEF Sending, Returned
  <2>4. ASSUME NEW j \in Subs, NEW k \in Subs, ReceiveTogether(i, k, j)
        PROVE  n \in Has(l) \/ FromLater(l, n)
    <3>1. PICK m1 \in Positive, m2 \in Positive :
              /\ goro[i] = Receiving(j) /\ goro[k] = Receiving(j) /\ conn[j].queue # <<>>
              /\ got' = got /\ chan' = chan
              /\ {m1, m2} \subseteq Receivable(conn[j]) /\ goro' = BothGet(i, m1, k, m2)
      BY <2>0, <2>4, TogetherFacts
    <3>2. CASE (l = i \/ l = k) /\ n \in Held(l)'
      <4>1. goro'[l] \in {Sending(m1), Sending(m2)} /\ goro'[l] = Sending(n)
        BY <2>0, <3>1, <3>2 DEF Held, TypeOK, BothGet
      <4>2. n \in {m1, m2}
        BY <4>1 DEF Sending
      <4>3. QED
        BY <2>0, <3>1, <3>2, <4>2, ReceivableLogged
    <3>3. CASE l # i /\ l # k
      <4>1. goro'[l] = goro[l]
        BY <3>1, <3>3 DEF TypeOK, BothGet
      <4>2. QED
        BY <1>3, <3>1, <4>1
    <3>4. QED
      BY <3>1, <3>2, <3>3 DEF Has
  <2>5. CASE Send(i)
    <3>1. /\ goro[i].pc = "send" /\ got'[l] = got[l]
          /\ goro'[i] \in {Selecting, Returned}
          /\ l # i => goro'[l] = goro[l] /\ chan'[l] = chan[l]
      BY <1>1, <2>5 DEF Send, Put, TypeOK
    <3>2. CASE l # i
      BY <1>3, <3>1, <3>2
    <3>3. CASE l = i
      <4>1. goro[i] = Sending(goro[i].msg) /\ goro[i].msg \in Positive
        <5>1. goro[i] \in Goroutines
          BY <1>1 DEF TypeOK
        <5>2. goro[i] \in [pc : {"send"}, msg : Nat \ {0}]
          BY <3>1, <5>1 DEF Goroutines, NotStarted, Selecting, Returned
        <5>3. QED
          BY <5>2 DEF Sending, Positive
      <4>2. chan'[i] = chan[i] \/ chan'[i] = Append(chan[i], goro[i].msg)
        BY <1>1, <2>5 DEF Send, Put, TypeOK
      <4>3. Range(chan'[i]) \subseteq Range(chan[i]) \union {goro[i].msg}
        BY <1>2, <3>3, <4>1, <4>2, AppendRange
      <4>4. goro[i].msg \in Held(i)
        BY <4>1 DEF Held
      <4>5. \A m : goro'[i] # Sending(m)
        BY <3>1 DEF Sending, Selecting, Returned
      <4>6. QED
        BY <3>1, <3>3, <4>3, <4>4, <4>5 DEF Has, Held
    <3>4. QED
      BY <3>2, <3>3
  <2>6. QED
    BY <1>5, <2>1, <2>2, <2>3, <2>4, <2>5 DEF Goroutine
<1>6. ASSUME NEW i \in Calls, Take(i) PROVE n \in Has(l)
  <2>1. CASE l # i
    BY <1>3, <1>6, <2>1 DEF Take, TypeOK
  <2>2. CASE l = i
    <3>1. /\ chan[i] # <<>> /\ goro' = goro
          /\ got'[i] = Append(got[i], Head(chan[i])) /\ chan'[i] = Tail(chan[i])
      BY <1>1, <1>6 DEF Take, TypeOK
    <3>2. Head(chan[i]) \in Positive /\ Head(chan[i]) \in Range(chan[i])
          /\ Range(Tail(chan[i])) \subseteq Range(chan[i])
      BY <1>2, <2>2, <3>1, HeadAndTail
    <3>3. Range(got'[i]) = Range(got[i]) \union {Head(chan[i])}
      BY <1>2, <2>2, <3>1, <3>2, AppendRange
    <3>4. QED
      BY <2>2, <3>1, <3>2, <3>3 DEF Has, Held
  <2>3. QED
    BY <2>1, <2>2
<1>7. ASSUME NEW i \in Calls, Cancel(i) \/ Establish(i) PROVE n \in Has(l)
  BY <1>3, <1>7 DEF Cancel, Establish, goroVars
<1>8. CASE ClosePublisher \/ CloseSubscriber \/ Aside \/ UNCHANGED vars
  <2>1. got' = got /\ chan' = chan /\ goro' = goro
    BY <1>8, AsideFacts DEF ClosePublisher, CloseSubscriber, goroVars, vars
  <2>2. QED
    BY <1>3, <2>1
<1>9. QED
  BY <1>4, <1>5, <1>6, <1>7, <1>8 DEF Next, Aside

LEMMA SourcedStep == Behind /\ Sourced /\ [Next]_vars => Sourced'
<1>1. SUFFICES ASSUME Behind, Sourced, [Next]_vars,
                      NEW i \in Subs, NEW n, n \in Has(i)'
               PROVE  FromLater(i, n)'
  BY DEF Sourced
<1>2. FromLater(i, n)
  BY <1>1, HasStep DEF Sourced
<1>3. QED
  BY <1>1, <1>2, LaterGrows

LEMMA SourcedInit == Init => Sourced
<1>1. SUFFICES ASSUME Init, NEW i \in Subs, NEW n, n \in Has(i) PROVE FALSE
  BY DEF Sourced
<1>2. got[i] = <<>> /\ chan[i] = <<>> /\ goro[i] = NotStarted
  BY <1>1 DEF Init
<1>3. Range(<<>>) = {}
  BY DEF Range
<1>4. QED
  BY <1>1, <1>2, <1>3, Stages DEF Has, Held

LEMMA ThreeRanges ==
    ASSUME NEW s \in Seq(Positive), NEW t \in Seq(Positive), NEW u \in Seq(Positive)
    PROVE  Range(s \o t \o u) = Range(s) \union Range(t) \union Range(u)
<1>1. PICK st \in Seq(Positive) : st = s \o t
  BY ConcatProperties
<1>2. Range(st) = Range(s) \union Range(t)
  BY <1>1, RangeConcatenation
<1>3. Range(st \o u) = Range(st) \union Range(u)
  BY RangeConcatenation
<1>4. QED
  BY <1>1, <1>2, <1>3

\* The range of what a channel brought, has and is about to get.
LEMMA HasIsRange ==
    ASSUME TypeOK, NEW i \in Subs
    PROVE  Range(Brings(i)) = Has(i)
<1>1. /\ got[i] \in Seq(Positive) /\ chan[i] \in Seq(Positive) /\ goro[i] \in Goroutines
  BY DEF TypeOK, Messages, Positive
<1>2. InHand(i) \in Seq(Positive) /\ Range(InHand(i)) = Held(i)
  <2>1. CASE goro[i].pc = "send"
    <3>1. goro[i] \in [pc : {"send"}, msg : Nat \ {0}]
      BY <1>1, <2>1 DEF Goroutines, NotStarted, Selecting, Returned
    <3>2. goro[i] = Sending(goro[i].msg) /\ goro[i].msg \in Positive
      BY <3>1 DEF Sending, Positive
    <3>3. Held(i) = {goro[i].msg}
      BY <3>2 DEF Held, Sending
    <3>4. InHand(i) = <<goro[i].msg>>
      BY <2>1 DEF InHand
    <3>5. QED
      BY <3>2, <3>3, <3>4, OneRange
  <2>2. CASE goro[i].pc # "send"
    <3>1. Held(i) = {}
      BY <2>2 DEF Held, Sending
    <3>2. InHand(i) = <<>>
      BY <2>2 DEF InHand
    <3>3. Range(<<>>) = {}
      BY DEF Range
    <3>4. QED
      BY <3>1, <3>2, <3>3
  <2>3. QED
    BY <2>1, <2>2
<1>3. QED
  BY <1>1, <1>2, ThreeRanges DEF Has, Brings, Brought

\* A channel never brings what was published to the topic of an earlier call
\* only: the goroutines are drawn to later connections, never to earlier ones.
THEOREM NothingFromEarlier == Spec => []NeverFromEarlier
<1>1. Behind /\ Sourced => NeverFromEarlier
  <2>1. SUFFICES ASSUME Behind, Sourced, NEW i \in Calls,
                        NEW n \in Range(Brings(i))
                 PROVE  \E j \in i .. count : n \in Range(conn[j].log)
    BY DEF NeverFromEarlier
  <2>2. i \in Subs
    BY <2>1, CallsAreSubs DEF Behind
  <2>3. n \in Has(i)
    BY <2>1, <2>2, HasIsRange DEF Behind
  <2>4. QED
    BY <2>1, <2>2, <2>3 DEF Sourced, FromLater
<1>2. QED
  BY BehindInit, BehindStep, SourcedInit, SourcedStep, <1>1, PTL DEF Spec

-----------------------------------------------------------------------------
(* A client that has made one call gets everything.                         *)

\* Sequences that are put together in two ways.
LEMMA EmptyEnds ==
    ASSUME NEW s \in Messages
    PROVE  s \o <<>> = s /\ <<>> \o s = s /\ <<>> \in Messages
  BY EmptySeq DEF Messages

LEMMA TakeMoves ==
    ASSUME NEW s \in Messages, NEW t \in Messages, t # <<>>
    PROVE  Append(s, Head(t)) \o Tail(t) = s \o t
<1>1. /\ s \in Seq(Positive) /\ t \in Seq(Positive) /\ Head(t) \in Positive
      /\ Tail(t) \in Seq(Positive) /\ t = <<Head(t)>> \o Tail(t)
      /\ Append(s, Head(t)) = s \o <<Head(t)>> /\ <<Head(t)>> \in Seq(Positive)
  BY HeadAndTail, AppendRange DEF Messages, Positive
<1>2. (s \o <<Head(t)>>) \o Tail(t) = s \o (<<Head(t)>> \o Tail(t))
  BY <1>1, ConcatAssociative
<1>3. QED
  BY <1>1, <1>2

LEMMA PutMoves ==
    ASSUME NEW s \in Messages, NEW t \in Messages, NEW m \in Positive
    PROVE  s \o Append(t, m) = s \o t \o <<m>>
<1>1. s \in Seq(Positive) /\ t \in Seq(Positive) /\ <<m>> \in Seq(Positive)
  BY DEF Messages, Positive
<1>2. Append(t, m) = t \o <<m>>
  BY AppendRange
<1>3. (s \o t) \o <<m>> = s \o (t \o <<m>>)
  BY <1>1, ConcatAssociative
<1>4. QED
  BY <1>2, <1>3

LEMMA Assembled ==
    ASSUME NEW s \in Messages, NEW t \in Messages, NEW u \in Messages
    PROVE  s \o t \in Messages /\ (s \o t) \o u = s \o (t \o u)
<1>1. s \in Seq(Positive) /\ t \in Seq(Positive) /\ u \in Seq(Positive)
  BY DEF Messages, Positive
<1>2. (s \o t) \o u = s \o (t \o u) /\ s \o t \in Seq(Positive)
  BY <1>1, ConcatAssociative
<1>3. QED
  BY <1>2 DEF Messages, Positive

LEMMA PrefixOfConcat ==
    ASSUME NEW s \in Messages, NEW t \in Messages
    PROVE  IsPrefix(s, s \o t)
<1>1. s \in Seq(Positive) /\ t \in Seq(Positive) /\ Len(s) \in Nat /\ Len(t) \in Nat
  BY DEF Messages, Positive
<1>2. /\ s \o t \in Seq(Positive) /\ Len(s \o t) = Len(s) + Len(t)
      /\ \A k \in 1 .. Len(s) : (s \o t)[k] = s[k]
  BY <1>1
<1>3. \A k \in 1 .. Len(s) : k \in 1 .. Len(s \o t)
  BY <1>1, <1>2
<1>4. s = SubSeq(s \o t, 1, Len(s))
  <2> DEFINE b == SubSeq(s \o t, 1, Len(s))
  <2>1. b \in Seq(Positive) /\ Len(b) = Len(s) /\ \A k \in 1 .. Len(s) : b[k] = (s \o t)[k]
    BY <1>1, <1>2
  <2>2. \A k \in 1 .. Len(s) : b[k] = s[k]
    BY <1>2, <2>1
  <2>3. QED
    BY <1>1, <2>1, <2>2, SeqEqual
<1>5. QED
  BY <1>1, <1>2, <1>4 DEF IsPrefix

LoneInv ==
    count = 1 =>
        /\ ~conn[1].shared
        /\ \E r \in Messages : Brings(1) \o r = conn[1].log
        /\ ClientOpen /\ goro[1] # Returned => Brings(1) \o conn[1].queue = conn[1].log

LEMMA InHandFacts ==
    ASSUME TypeOK, NEW i \in Subs
    PROVE  /\ InHand(i) \in Messages
           /\ goro[i].pc = "send" => goro[i].msg \in Positive /\ InHand(i) = <<goro[i].msg>>
<1>1. goro[i] \in Goroutines
  BY DEF TypeOK
<1>2. CASE goro[i].pc = "send"
  <2>1. goro[i] \in [pc : {"send"}, msg : Nat \ {0}]
    BY <1>1, <1>2 DEF Goroutines, NotStarted, Selecting, Returned
  <2>2. goro[i].msg \in Positive
    BY <2>1 DEF Positive
  <2>3. QED
    BY <1>2, <2>2 DEF InHand, Messages, Positive
<1>3. CASE goro[i].pc # "send"
  BY <1>3, EmptySeq DEF InHand, Messages
<1>4. QED
  BY <1>2, <1>3

LEMMA NothingInHand ==
    /\ \A i : goro[i] = Selecting \/ goro[i] = Returned \/ goro[i] = NotStarted
                 => InHand(i) = <<>>
    /\ \A i, j : goro[i] = Receiving(j) => InHand(i) = <<>>
    /\ \A i, m : goro[i] = Sending(m) => InHand(i) = <<m>>
  BY DEF InHand, Selecting, Returned, NotStarted, Receiving, Sending

\* The invariant is kept by a step that leaves the log and what was brought, and
\* loses what waits in the connection only when it need not be kept.
LEMMA LoneKept ==
    ASSUME LoneInv, count = 1, Brings(1)' = Brings(1), conn'[1].log = conn[1].log,
           conn'[1].shared = conn[1].shared,
           \/ conn'[1].queue = conn[1].queue
           \/ goro'[1] = Returned \/ ~ClientOpen',
           goro[1] = Returned => goro'[1] = Returned, ClientOpen' => ClientOpen
    PROVE  LoneInv'
  BY DEF LoneInv

LEMMA LoneStep == Behind /\ LoneInv /\ [Next]_vars => LoneInv'
<1>1. SUFFICES ASSUME Behind, LoneInv, [Next]_vars, count' = 1 PROVE LoneInv'
  BY DEF LoneInv
<1> USE DEF Behind
<1>2. /\ Calls \subseteq Subs /\ count \in Nat
      /\ got \in [Subs -> Messages] /\ chan \in [Subs -> Messages]
      /\ conn \in [Subs -> Conns] /\ goro \in [Subs -> Goroutines]
  BY <1>1, CallsAreSubs DEF TypeOK
<1>3. 1 \in Subs
  BY <1>1, <1>2, LogsGrow, TypeStep DEF TypeOK, Subs
<1>4. /\ got[1] \in Messages /\ chan[1] \in Messages /\ InHand(1) \in Messages
      /\ conn[1].queue \in Messages /\ conn[1].log \in Messages
  BY <1>1, <1>2, <1>3, InHandFacts DEF Conns
<1>5. ASSUME NEW topic \in Topics, Subscribe(topic) PROVE LoneInv'
  <2>1. count = 0
    BY <1>1, <1>2, <1>5 DEF Subscribe
  <2>2. /\ got'[1] = <<>> /\ chan'[1] = <<>> /\ InHand(1)' = <<>>
        /\ conn'[1].queue = <<>> /\ conn'[1].log = <<>> /\ ~conn'[1].shared
    <3>1. got[1] = <<>> /\ chan[1] = <<>>
      BY <1>1, <1>3, <2>1 DEF Unstarted
    <3>2. goro'[1] = Selecting /\ conn'[1] = Conn(topic)
      BY <1>2, <1>3, <1>5, <2>1 DEF Subscribe
    <3>3. QED
      BY <1>5, <3>1, <3>2, NothingInHand DEF Subscribe, Conn, InHand, Selecting
  <2>3. Brings(1)' = <<>> /\ Brings(1)' \o <<>> = <<>> /\ <<>> \in Messages
    <3>1. <<>> \o <<>> \o <<>> = <<>> /\ <<>> \o <<>> = <<>> /\ <<>> \in Messages
      BY EmptySeq, EmptyEnds DEF Messages
    <3>2. QED
      BY <2>2, <3>1 DEF Brings, Brought
  <2>4. QED
    BY <2>2, <2>3 DEF LoneInv
<1>6. ASSUME count = 1, NEW topic \in Topics, Publish(topic) PROVE LoneInv'
  <2>1. /\ Brings(1)' = Brings(1) /\ goro' = goro /\ closer' = closer
        /\ conn'[1] = Handed(conn[1], topic, Len(sent) + 1)
        /\ conn'[1].shared = conn[1].shared
    <3>1. /\ got' = got /\ chan' = chan /\ goro' = goro /\ closer' = closer
          /\ conn'[1] = Handed(conn[1], topic, Len(sent) + 1)
      BY <1>3, <1>6 DEF Publish, goroVars, closeVars
    <3>2. conn'[1].shared = conn[1].shared
      BY <1>2, <1>3, <3>1 DEF Handed, Conns
    <3>3. QED
      BY <3>1, <3>2 DEF Brings, Brought, InHand
  <2>2. Len(sent) + 1 \in Positive
    BY <1>1 DEF TypeOK, Positive
  <2>3. Brings(1) \in Messages
    <3>1. PICK s \in Messages : s = got[1] \o chan[1]
      BY <1>4, Assembled
    <3>2. QED
      BY <1>4, <3>1, Assembled DEF Brings, Brought
  <2>4. CASE conn'[1] = conn[1]
    BY <1>1, <1>6, <2>1, <2>4, LoneKept DEF ClientOpen
  <2>5. CASE /\ conn'[1].queue = Append(conn[1].queue, Len(sent) + 1)
             /\ conn'[1].log = Append(conn[1].log, Len(sent) + 1)
    <3>1. ASSUME NEW r \in Messages, Brings(1) \o r = conn[1].log
          PROVE  /\ Append(r, Len(sent) + 1) \in Messages
                 /\ Brings(1) \o Append(r, Len(sent) + 1) = conn'[1].log
      <4>1. Brings(1) \o Append(r, Len(sent) + 1) = (Brings(1) \o r) \o <<Len(sent) + 1>>
        BY <2>2, <2>3, PutMoves
      <4>2. Append(conn[1].log, Len(sent) + 1) = conn[1].log \o <<Len(sent) + 1>>
        BY <1>4, <2>2, AppendRange
      <4>3. QED
        BY <2>2, <2>5, <3>1, <4>1, <4>2, AppendRange
    <3>2. \E r \in Messages : Brings(1)' \o r = conn'[1].log
      BY <1>1, <1>6, <2>1, <3>1 DEF LoneInv
    <3>3. ClientOpen' /\ goro'[1] # Returned => Brings(1)' \o conn'[1].queue = conn'[1].log
      BY <1>1, <1>4, <1>6, <2>1, <2>5, <3>1 DEF LoneInv, ClientOpen
    <3>4. ~conn'[1].shared
      BY <1>1, <1>6, <2>1 DEF LoneInv
    <3>5. QED
      BY <3>2, <3>3, <3>4 DEF LoneInv
  <2>6. QED
    <3> DEFINE h == Handed(conn[1], topic, Len(sent) + 1)
    <3>1. \/ h = conn[1]
          \/ /\ h.queue = Append(conn[1].queue, Len(sent) + 1)
             /\ h.log = Append(conn[1].log, Len(sent) + 1)
      BY <1>2, <1>3, <2>2, HandedFacts
    <3>2. QED
      BY <2>1, <2>4, <2>5, <3>1
<1>7. ASSUME count = 1, NEW i \in Calls, Goroutine(i) PROVE LoneInv'
  <2>0. i = 1 /\ \A k \in Subs \ {1} : goro[k] = NotStarted
    BY <1>1, <1>7 DEF Unstarted, Calls, Subs
  <2>1. CASE Select(1)
    <3>1. /\ goro[1] = Selecting /\ UNCHANGED <<got, chan, closer>>
          /\ \/ goro'[1] = Returned /\ conn' = conn
             \/ \E j \in Readable(1) :
                   /\ goro'[1] = Receiving(j)
                   /\ conn' = [conn EXCEPT ![j].shared = conn[j].shared \/ Meets(1, j)]
      BY <1>1, <1>2, <1>3, <2>1, SelectFacts DEF closeVars
    <3>2. InHand(1) = <<>> /\ InHand(1)' = <<>> /\ goro[1] # Returned
      <4>1. InHand(1) = <<>> /\ goro[1] # Returned
        BY <3>1, Stages DEF InHand, Selecting
      <4>2. CASE goro'[1] = Returned
        BY <4>1, <4>2 DEF InHand, Returned
      <4>3. ASSUME NEW j, goro'[1] = Receiving(j) PROVE InHand(1)' = <<>>
        BY <4>3 DEF InHand, Receiving
      <4>4. QED
        BY <3>1, <4>1, <4>2, <4>3
    <3>3. ASSUME NEW j PROVE ~Meets(1, j)
      BY <2>0, Stages DEF Meets
    <3>4. /\ conn'[1].log = conn[1].log /\ conn'[1].queue = conn[1].queue
          /\ conn'[1].shared = conn[1].shared
      <4>1. ASSUME NEW j \in Readable(1),
                   conn' = [conn EXCEPT ![j].shared = conn[j].shared \/ Meets(1, j)]
            PROVE  <3>4
        <5>1. j = 1
          BY <1>7 DEF Readable
        <5>2. conn[1].shared \in BOOLEAN
          BY <1>2, <1>3 DEF Conns
        <5>3. QED
          BY <1>2, <1>3, <3>3, <4>1, <5>1, <5>2 DEF Conns
      <4>2. QED
        BY <3>1, <4>1
    <3>5. Brings(1)' = Brings(1)
      BY <3>1, <3>2 DEF Brings, Brought
    <3>6. QED
      BY <1>1, <1>7, <3>1, <3>2, <3>4, <3>5, LoneKept DEF ClientOpen
  <2>2. ASSUME NEW j \in Subs, Receive(1, j) PROVE LoneInv'
    <3>0. PICK m \in Positive, n \in 1 .. Len(conn[j].queue) :
              /\ goro[1] = Receiving(j) /\ conn[j].queue # <<>>
              /\ got' = got /\ chan' = chan /\ closer' = closer
              /\ m \in Receivable(conn[j]) /\ n \in Consumed(conn[j])
              /\ goro' = Gets(1, m) /\ conn' = After(j, n)
      BY <1>1, <1>3, <2>2, ReceiveFacts DEF closeVars
    <3>1. j = 1
      BY <1>1, <1>3, <1>7, <3>0 DEF Drawn, Subs
    <3>a. m = Head(conn[1].queue) /\ n = 1
      BY <1>1, <1>7, <3>0, <3>1 DEF LoneInv, Receivable, Consumed
    <3>2. /\ goro[1] = Receiving(1) /\ conn[1].queue # <<>>
          /\ goro'[1] = Sending(Head(conn[1].queue))
          /\ conn'[1].queue = Tail(conn[1].queue) /\ conn'[1].log = conn[1].log
          /\ conn'[1].shared = conn[1].shared
          /\ got' = got /\ chan' = chan /\ closer' = closer
      <4>1. conn'[1].queue = SubSeq(conn[1].queue, n + 1, Len(conn[1].queue))
            /\ conn'[1].log = conn[1].log /\ conn'[1].shared = conn[1].shared
        BY <1>2, <1>3, <3>0, <3>1 DEF After, Conns
      <4>2. goro'[1] = Sending(m)
        BY <1>2, <1>3, <3>0 DEF Gets
      <4>3. SubSeq(conn[1].queue, 2, Len(conn[1].queue)) = Tail(conn[1].queue)
        BY <1>4, <3>0, <3>1, SuffixIsTail
      <4>4. n + 1 = 2
        BY <3>a
      <4>5. QED
        BY <3>0, <3>1, <3>a, <4>1, <4>2, <4>3, <4>4
    <3>3. ClientOpen /\ goro[1] # Returned
      BY <1>1, <1>3, <3>2, Stages DEF Emptied
    <3>4. InHand(1) = <<>> /\ InHand(1)' = <<Head(conn[1].queue)>>
      BY <3>2 DEF InHand, Receiving, Sending
    <3>5. PICK s \in Messages : s = got[1] \o chan[1]
      BY <1>4, Assembled
    <3>6. s \o conn[1].queue = conn[1].log
      <4>1. Brings(1) = s
        BY <3>4, <3>5, EmptyEnds DEF Brings, Brought
      <4>2. QED
        BY <1>1, <1>7, <3>3, <4>1 DEF LoneInv
    <3>7. /\ Brings(1)' = Append(s, Head(conn[1].queue))
          /\ Tail(conn[1].queue) \in Messages /\ Brings(1)' \in Messages
      <4>1. Head(conn[1].queue) \in Positive /\ Tail(conn[1].queue) \in Messages
        BY <1>4, <3>2, HeadAndTail
      <4>2. Append(s, Head(conn[1].queue)) = s \o <<Head(conn[1].queue)>>
            /\ Append(s, Head(conn[1].queue)) \in Messages
        BY <4>1, AppendRange
      <4>3. Brings(1)' = s \o <<Head(conn[1].queue)>>
        BY <3>2, <3>4, <3>5 DEF Brings, Brought
      <4>4. QED
        BY <4>1, <4>2, <4>3
    <3>8. Brings(1)' \o conn'[1].queue = conn'[1].log
      BY <1>4, <3>2, <3>6, <3>7, TakeMoves
    <3>9. ~conn'[1].shared
      BY <1>1, <1>7, <3>2 DEF LoneInv
    <3>10. QED
      BY <3>2, <3>7, <3>8, <3>9 DEF LoneInv
  <2>3. ASSUME NEW j \in Subs, ReceiveFails(1, j) PROVE LoneInv'
    <3>1. /\ goro[1] = Receiving(j) /\ goro' = [goro EXCEPT ![1] = Returned]
          /\ conn' = [conn EXCEPT ![j].queue = <<>>, ![j].open = FALSE]
          /\ got' = got /\ chan' = chan /\ closer' = closer
      BY <1>1, <1>3, <2>3, FailsFacts DEF closeVars
    <3>2. goro'[1] = Returned
      BY <1>2, <1>3, <3>1
    <3>3. conn'[1].log = conn[1].log /\ conn'[1].shared = conn[1].shared
      BY <1>2, <1>3, <3>1 DEF Conns
    <3>4. InHand(1)' = InHand(1)
      BY <3>1, <3>2 DEF InHand, Receiving, Returned
    <3>5. Brings(1)' = Brings(1)
      BY <3>1, <3>4 DEF Brings, Brought
    <3>6. QED
      BY <1>1, <1>7, <3>1, <3>2, <3>3, <3>5, LoneKept DEF ClientOpen
  <2>4. ASSUME NEW j \in Subs, NEW k \in Subs, ReceiveTogether(1, k, j) PROVE FALSE
    BY <2>0, <2>4, Stages DEF ReceiveTogether
  <2>5. CASE Send(1)
    <3>1. /\ conn' = conn /\ got' = got /\ closer' = closer /\ goro[1].pc = "send"
      BY <2>5 DEF Send, brokerVars, closeVars
    <3>2. goro[1].msg \in Positive /\ InHand(1) = <<goro[1].msg>> /\ goro[1] # Returned
      BY <1>1, <1>3, <3>1, InHandFacts DEF Returned
    <3>3. CASE Put(1, goro[1].msg) /\ goro' = [goro EXCEPT ![1] = Selecting]
      <4>1. chan'[1] = Append(chan[1], goro[1].msg) /\ InHand(1)' = <<>>
        BY <1>2, <1>3, <3>3 DEF Put, InHand, Selecting
      <4>2. PICK s \in Messages : s = got[1] \o Append(chan[1], goro[1].msg)
        BY <1>4, <3>2, AppendRange, Assembled
      <4>3. s = Brings(1)
        <5>1. got[1] \o Append(chan[1], goro[1].msg) = got[1] \o chan[1] \o <<goro[1].msg>>
          BY <1>4, <3>2, PutMoves
        <5>2. QED
          BY <3>2, <4>2, <5>1 DEF Brings, Brought
      <4>4. Brings(1)' = s \o <<>>
        BY <3>1, <4>1, <4>2 DEF Brings, Brought
      <4>5. Brings(1)' = Brings(1)
        BY <4>3, <4>4, EmptyEnds
      <4>6. QED
        BY <1>1, <1>7, <3>1, <3>2, <4>5, LoneKept DEF ClientOpen
    <3>4. CASE goro' = [goro EXCEPT ![1] = Returned] /\ UNCHANGED <<chan, late>>
      <4>1. goro'[1] = Returned /\ InHand(1)' = <<>> /\ chan' = chan
        BY <1>2, <1>3, <3>4 DEF InHand, Returned
      <4>2. PICK s \in Messages : s = got[1] \o chan[1]
        BY <1>4, Assembled
      <4>3. Brings(1) = s \o <<goro[1].msg>> /\ Brings(1)' = s
        BY <3>1, <3>2, <4>1, <4>2, EmptyEnds DEF Brings, Brought
      <4>4. PICK r \in Messages : Brings(1) \o r = conn[1].log
        BY <1>1, <1>7 DEF LoneInv
      <4>5. /\ <<goro[1].msg>> \o r \in Messages
            /\ s \o (<<goro[1].msg>> \o r) = conn[1].log
        <5>1. PICK m \in Messages : m = <<goro[1].msg>>
          BY <1>4, <3>2
        <5>2. m \o r \in Messages /\ (s \o m) \o r = s \o (m \o r)
          BY <4>4, Assembled
        <5>3. QED
          BY <4>3, <4>4, <5>1, <5>2
      <4>6. QED
        BY <1>1, <1>7, <3>1, <4>1, <4>3, <4>5 DEF LoneInv
    <3>5. QED
      BY <2>5, <3>3, <3>4 DEF Send
  <2>6. QED
    BY <1>7, <2>0, <2>1, <2>2, <2>3, <2>4, <2>5 DEF Goroutine
<1>8. ASSUME count = 1, NEW i \in Calls, Take(i) PROVE LoneInv'
  <2>1. i = 1
    BY <1>8 DEF Calls, Subs
  <2>2. /\ chan[1] # <<>> /\ conn' = conn /\ closer' = closer /\ goro' = goro
        /\ got'[1] = Append(got[1], Head(chan[1])) /\ chan'[1] = Tail(chan[1])
    BY <1>2, <1>3, <1>8, <2>1 DEF Take, brokerVars, closeVars
  <2>3. got'[1] \o chan'[1] = got[1] \o chan[1]
    BY <1>4, <2>2, TakeMoves
  <2>4. InHand(1)' = InHand(1)
    BY <2>2 DEF InHand
  <2>5. Brings(1)' = Brings(1)
    BY <2>3, <2>4 DEF Brings, Brought
  <2>6. QED
    BY <1>1, <1>8, <2>2, <2>5, LoneKept DEF ClientOpen
<1>9. ASSUME count = 1, ClosePublisher PROVE LoneInv'
  <2>1. /\ conn'[1].log = conn[1].log /\ ~ClientOpen' /\ ClientOpen
        /\ conn'[1].shared = conn[1].shared
        /\ goro' = goro /\ got' = got /\ chan' = chan
    BY <1>2, <1>3, <1>9 DEF ClosePublisher, goroVars, ClientOpen, Conns
  <2>2. Brings(1)' = Brings(1)
    BY <2>1 DEF Brings, Brought, InHand
  <2>3. QED
    BY <1>1, <1>9, <2>1, <2>2, LoneKept
<1>10. ASSUME count = 1, CloseSubscriber PROVE LoneInv'
  <2>1. /\ conn' = conn /\ ~ClientOpen' /\ ~ClientOpen
        /\ goro' = goro /\ got' = got /\ chan' = chan
    BY <1>10 DEF CloseSubscriber, brokerVars, goroVars, ClientOpen
  <2>2. Brings(1)' = Brings(1)
    BY <2>1 DEF Brings, Brought, InHand
  <2>3. QED
    BY <1>1, <1>10, <2>1, <2>2, LoneKept
<1>11. ASSUME count = 1, UNCHANGED vars \/ Aside \/ \E i \in Calls : Cancel(i)
       PROVE LoneInv'
  <2>1. /\ conn' = conn /\ ClientOpen' = ClientOpen
        /\ goro' = goro /\ got' = got /\ chan' = chan
    BY <1>11, AsideFacts DEF vars, Cancel, brokerVars, goroVars, closeVars, ClientOpen
  <2>2. Brings(1)' = Brings(1)
    BY <2>1 DEF Brings, Brought, InHand
  <2>3. QED
    BY <1>1, <1>11, <2>1, <2>2, LoneKept
<1>12. ASSUME count = 1, NEW j \in Calls, Establish(j) PROVE LoneInv'
  <2>1. /\ conn' = [conn EXCEPT ![j].open = TRUE] /\ closer' = closer
        /\ goro' = goro /\ got' = got /\ chan' = chan
    BY <1>12 DEF Establish, goroVars, closeVars
  <2>2. /\ conn'[1].log = conn[1].log /\ conn'[1].queue = conn[1].queue
        /\ conn'[1].shared = conn[1].shared
    BY <1>2, <1>3, <2>1 DEF Conns
  <2>3. Brings(1)' = Brings(1)
    BY <2>1 DEF Brings, Brought, InHand
  <2>4. QED
    BY <1>1, <1>12, <2>1, <2>2, <2>3, LoneKept DEF ClientOpen
<1>13. count = 1 \/ \E topic \in Topics : Subscribe(topic)
  <2>1. ASSUME NEW i \in Calls, Goroutine(i) PROVE count' = count
    BY <1>1, <2>1, GoroutineStep
  <2>2. Aside => count' = count
    BY AsideFacts
  <2>3. QED
    BY <1>1, <2>1, <2>2 DEF Next, Aside, Publish, Cancel, Take, Establish, ClosePublisher,
       CloseSubscriber, vars
<1>14. QED
  BY <1>1, <1>5, <1>6, <1>7, <1>8, <1>9, <1>10, <1>11, <1>12, <1>13 DEF Next, Aside

LEMMA LoneInit == Init => LoneInv
  BY DEF Init, LoneInv

\* A client that has made one call gets all that is published to its topic, once
\* and in order, until its channel or the client is closed.
THEOREM LoneCallIsServed == Spec => []LoneCallGetsAll
<1>1. Behind /\ LoneInv => LoneCallGetsAll
  <2>1. SUFFICES ASSUME Behind, LoneInv, count = 1
                 PROVE  /\ IsPrefix(Brought(1), conn[1].log)
                        /\ ClientOpen /\ goro[1] # Returned =>
                             Brings(1) \o conn[1].queue = conn[1].log
    BY DEF LoneCallGetsAll
  <2>2. 1 \in Subs
    BY <2>1 DEF Behind, TypeOK, Subs
  <2>3. got[1] \in Messages /\ chan[1] \in Messages /\ InHand(1) \in Messages
    BY <2>1, <2>2, InHandFacts DEF Behind, TypeOK
  <2>4. PICK r \in Messages : Brings(1) \o r = conn[1].log
    BY <2>1 DEF LoneInv
  <2>5. PICK s \in Messages : s = got[1] \o chan[1]
    BY <2>3, Assembled
  <2>6. InHand(1) \o r \in Messages /\ s \o (InHand(1) \o r) = conn[1].log
    <3>1. InHand(1) \o r \in Messages /\ (s \o InHand(1)) \o r = s \o (InHand(1) \o r)
      BY <2>3, Assembled
    <3>2. QED
      BY <2>4, <2>5, <3>1 DEF Brings, Brought
  <2>7. IsPrefix(s, conn[1].log)
    BY <2>6, PrefixOfConcat
  <2>8. QED
    BY <2>1, <2>5, <2>7 DEF LoneInv, Brings, Brought
<1>2. QED
  BY BehindInit, BehindStep, LoneInit, LoneStep, <1>1, PTL DEF Spec

-----------------------------------------------------------------------------
(* The messages of one topic come in order, and each once.                  *)

\* What the broker handed to a connection is of its topic.
LogsOfTopic ==
    \A j \in Subs : \A n \in Range(conn[j].log) :
        n \in 1 .. Len(sent) /\ sent[n] = conn[j].topic

\* What waits in a connection waits in the order it was published,
QueuesRise ==
    \A j \in Subs : \A a, b \in 1 .. Len(conn[j].queue) :
        a < b => conn[j].queue[a] < conn[j].queue[b]

\* and after all of its topic that any channel brought, if the topic has one
\* connection and no two goroutines met on it.
Clear(topic) == Sole(topic) /\ Unshared(topic)

QueuesAhead ==
    \A i \in Subs : \A j \in Calls : \A n \in Has(i) : \A m \in Range(conn[j].queue) :
        sent[n] = conn[j].topic /\ Clear(conn[j].topic) => n < m

ChannelsRise == \A i \in Subs : InOrder(Brings(i))

OrderInv == Sourced /\ LogsOfTopic /\ QueuesRise /\ QueuesAhead /\ ChannelsRise

\* A sequence of messages, its elements and what is put after it.
LEMMA AtOf ==
    ASSUME NEW s \in Messages
    PROVE  /\ Len(s) \in Nat /\ DOMAIN s = 1 .. Len(s)
           /\ \A a \in 1 .. Len(s) : s[a] \in Positive /\ s[a] \in Range(s)
           /\ \A n \in Range(s) : \E a \in 1 .. Len(s) : s[a] = n
<1>1. s \in Seq(Positive)
  BY DEF Messages, Positive
<1>2. Range(s) = {s[a] : a \in 1 .. Len(s)}
  BY <1>1, RangeEquality
<1>3. QED
  BY <1>1, <1>2

LEMMA OneMore ==
    ASSUME NEW s \in Messages, NEW n \in Positive
    PROVE  /\ s \o <<n>> \in Messages /\ Len(s \o <<n>>) = Len(s) + 1
           /\ (s \o <<n>>)[Len(s) + 1] = n
           /\ \A a \in 1 .. Len(s) : (s \o <<n>>)[a] = s[a]
           /\ Range(s \o <<n>>) = Range(s) \union {n}
<1>1. s \o <<n>> = Append(s, n) /\ Append(s, n) \in Messages /\ s \in Seq(Positive)
      /\ Range(Append(s, n)) = Range(s) \union {n}
  BY AppendRange DEF Messages, Positive
<1>2. /\ Len(Append(s, n)) = Len(s) + 1 /\ Append(s, n)[Len(s) + 1] = n
      /\ \A a \in 1 .. Len(s) : Append(s, n)[a] = s[a]
  BY <1>1
<1>3. QED
  BY <1>1, <1>2

\* The first of a rising queue is before all the others.
LEMMA FirstIsFirst ==
    ASSUME NEW s \in Messages, s # <<>>,
           \A a, b \in 1 .. Len(s) : a < b => s[a] < s[b]
    PROVE  /\ Tail(s) \in Messages
           /\ \A a, b \in 1 .. Len(Tail(s)) : a < b => Tail(s)[a] < Tail(s)[b]
           /\ Head(s) \in Range(s) /\ \A m \in Range(Tail(s)) : Head(s) < m
<1>1. s \in Seq(Positive) /\ Len(s) \in Nat \ {0} /\ Head(s) = s[1]
  BY EmptySeq DEF Messages, Positive
<1>2. /\ Tail(s) \in Messages /\ Head(s) \in Range(s)
  BY HeadAndTail
<1>3. Len(Tail(s)) = Len(s) - 1 /\ \A a \in 1 .. Len(Tail(s)) : Tail(s)[a] = s[a + 1]
  BY <1>1
<1>4. \A a, b \in 1 .. Len(Tail(s)) : a < b => Tail(s)[a] < Tail(s)[b]
  BY <1>1, <1>3
<1>5. \A a \in 1 .. Len(Tail(s)) : Head(s) < Tail(s)[a]
  BY <1>1, <1>3
<1>6. QED
  BY <1>2, <1>4, <1>5, AtOf

\* What is left of a rising queue rises.
LEMMA SuffixRises ==
    ASSUME NEW s \in Messages, NEW n \in 1 .. Len(s),
           \A a, b \in 1 .. Len(s) : a < b => s[a] < s[b], NEW t,
           t = SubSeq(s, n + 1, Len(s))
    PROVE  \A a, b \in 1 .. Len(t) : a < b => t[a] < t[b]
<1>1. /\ Len(s) \in Nat /\ Len(t) = Len(s) - n
      /\ \A a \in 1 .. Len(s) - n : t[a] = s[a + n]
  BY Suffix, AtOf
<1>2. ASSUME NEW a \in 1 .. Len(t), NEW b \in 1 .. Len(t), a < b PROVE t[a] < t[b]
  <2>1. a + n \in 1 .. Len(s) /\ b + n \in 1 .. Len(s) /\ a + n < b + n
    BY <1>1, <1>2
  <2>2. QED
    BY <1>1, <1>2, <2>1
<1>3. QED
  BY <1>2

\* What waits in the connections after a step: less, or one message more that is
\* new; and nothing in the connection of a new call.
Waiting ==
    /\ sent' = sent \/ \E topic \in Topics : sent' = Append(sent, topic)
    /\ Calls \subseteq Calls'
    /\ \A j \in Calls :
          /\ Same(j)
          /\ Range(conn'[j].queue) \subseteq Range(conn[j].queue) \union {Len(sent) + 1}
    /\ \A j \in Calls' \ Calls : Range(conn'[j].queue) = {}

Connections == LogsOfTopic' /\ QueuesRise' /\ Waiting

\* A step that publishes nothing and makes no call.
LEMMA ConnectionsQuiet ==
    ASSUME Behind, LogsOfTopic, QueuesRise, UNCHANGED <<sent, count>>,
           \A j \in Subs : Quiet(j)
    PROVE  Connections
<1>1. Calls \subseteq Subs /\ Calls' = Calls /\ conn \in [Subs -> Conns]
  BY CallsAreSubs DEF Behind, Calls, TypeOK
<1>2. ASSUME NEW j \in Subs
      PROVE  /\ Same(j) /\ conn'[j].log = conn[j].log
             /\ Range(conn'[j].queue) \subseteq Range(conn[j].queue)
             /\ \A a, b \in 1 .. Len(conn'[j].queue) :
                   a < b => conn'[j].queue[a] < conn'[j].queue[b]
  <2>1. CASE Keeps(j)
    BY <2>1 DEF Keeps, QueuesRise
  <2>2. CASE Loses(j)
    BY <2>2, EmptyRange DEF Loses
  <2>3. CASE Shortens(j)
    <3>1. PICK n \in 1 .. Len(conn[j].queue) :
              conn'[j].queue = SubSeq(conn[j].queue, n + 1, Len(conn[j].queue))
      BY <2>3 DEF Shortens
    <3>2. PICK s \in Messages : s = conn[j].queue
      BY <1>1 DEF Conns
    <3>3. \A a, b \in 1 .. Len(s) : a < b => s[a] < s[b]
      BY <3>2 DEF QueuesRise
    <3>4. PICK t : t = SubSeq(s, n + 1, Len(s))
      OBVIOUS
    <3>5. \A a, b \in 1 .. Len(t) : a < b => t[a] < t[b]
      BY <3>1, <3>2, <3>3, <3>4, SuffixRises
    <3>6. Range(t) \subseteq Range(s)
      BY <3>1, <3>2, <3>4, Suffix
    <3>7. conn'[j].queue = t
      BY <3>1, <3>2, <3>4
    <3>8. QED
      BY <2>3, <3>2, <3>5, <3>6, <3>7 DEF Shortens
  <2>4. QED
    BY <2>1, <2>2, <2>3 DEF Quiet
<1>3. LogsOfTopic' /\ QueuesRise'
  BY <1>2 DEF LogsOfTopic, QueuesRise, Same
<1>4. Waiting
  BY <1>1, <1>2 DEF Waiting
<1>5. QED
  BY <1>3, <1>4 DEF Connections

LEMMA ConnectionsPublish ==
    ASSUME Behind, LogsOfTopic, QueuesRise, NEW topic \in Topics, Publish(topic)
    PROVE  Connections
<1> DEFINE n == Len(sent) + 1
<1>1. /\ Calls \subseteq Subs /\ conn \in [Subs -> Conns] /\ TypeOK
      /\ sent \in Seq(Topics) /\ Len(sent) \in Nat
  BY CallsAreSubs DEF Behind, TypeOK
<1>2. \A j \in Subs : conn[j].queue \in Messages /\ conn[j].log \in Messages
  BY <1>1 DEF Conns
<1>3. n \in Positive /\ count' = count /\ sent' = Append(sent, topic)
  BY <1>1 DEF Publish, Positive
<1>4. /\ Len(sent') = n /\ sent'[n] = topic
      /\ \A a \in 1 .. Len(sent) : sent'[a] = sent[a]
  BY <1>1, <1>3
<1>5. ASSUME NEW j \in Subs
      PROVE  /\ Same(j)
             /\ \/ conn'[j].queue = conn[j].queue /\ conn'[j].log = conn[j].log
                \/ /\ conn[j].topic = topic
                   /\ conn'[j].queue = Append(conn[j].queue, n)
                   /\ conn'[j].log = Append(conn[j].log, n)
  <2>1. ASSUME Grows(j) PROVE conn[j].topic = topic
    <3>1. Append(sent, conn[j].topic) = Append(sent, topic)
      BY <1>3, <2>1 DEF Grows
    <3>2. conn[j].topic = Append(sent, conn[j].topic)[Len(sent) + 1]
      BY <1>1
    <3>3. QED
      BY <1>1, <3>1, <3>2
  <2>2. QED
    BY <1>1, <2>1, ConnPublish DEF Keeps, Grows
<1>6. ASSUME NEW j \in Subs
      PROVE  /\ Range(conn'[j].queue) \subseteq Range(conn[j].queue) \union {n}
             /\ \A m \in Range(conn'[j].log) :
                   m \in 1 .. Len(sent') /\ sent'[m] = conn'[j].topic
  <2>1. CASE conn'[j].queue = conn[j].queue /\ conn'[j].log = conn[j].log
    BY <1>1, <1>3, <1>4, <1>5, <2>1 DEF LogsOfTopic, Same
  <2>2. CASE /\ conn[j].topic = topic
             /\ conn'[j].queue = Append(conn[j].queue, n)
             /\ conn'[j].log = Append(conn[j].log, n)
    <3>1. /\ Range(conn'[j].queue) = Range(conn[j].queue) \union {n}
          /\ Range(conn'[j].log) = Range(conn[j].log) \union {n}
      BY <1>2, <1>3, <2>2, AppendRange
    <3>2. conn'[j].topic = conn[j].topic
      BY <1>5 DEF Same
    <3>3. QED
      BY <1>1, <1>3, <1>4, <2>2, <3>1, <3>2 DEF LogsOfTopic, Positive
  <2>3. QED
    BY <1>5, <2>1, <2>2
<1>7. ASSUME NEW j \in Subs, NEW a \in 1 .. Len(conn'[j].queue),
             NEW b \in 1 .. Len(conn'[j].queue), a < b
      PROVE  conn'[j].queue[a] < conn'[j].queue[b]
  <2>1. CASE conn'[j].queue = conn[j].queue
    BY <1>7, <2>1 DEF QueuesRise
  <2>2. CASE conn'[j].queue = Append(conn[j].queue, n)
    <3>0. PICK s \in Messages : s = conn[j].queue
      BY <1>2
    <3>1. conn'[j].queue = s \o <<n>>
      BY <1>3, <2>2, <3>0, AppendRange
    <3>2. /\ Len(conn'[j].queue) = Len(s) + 1 /\ conn'[j].queue[Len(s) + 1] = n
          /\ \A c \in 1 .. Len(s) : conn'[j].queue[c] = s[c]
          /\ Len(s) \in Nat
      BY <1>3, <3>1, OneMore, AtOf
    <3>3. \A c \in 1 .. Len(s) : s[c] \in 1 .. Len(sent)
      <4>1. \A c \in 1 .. Len(s) : s[c] \in Range(conn[j].log)
        BY <3>0, AtOf DEF Behind, QueuesLogged
      <4>2. QED
        BY <4>1 DEF LogsOfTopic
    <3>4. a \in 1 .. Len(s)
      BY <1>7, <3>2
    <3>5. CASE b = Len(s) + 1
      BY <1>1, <3>2, <3>3, <3>4, <3>5
    <3>6. CASE b # Len(s) + 1
      <4>1. b \in 1 .. Len(s)
        BY <3>2, <3>6
      <4>2. QED
        BY <1>7, <3>0, <3>2, <3>4, <4>1 DEF QueuesRise
    <3>7. QED
      BY <3>5, <3>6
  <2>3. QED
    BY <1>5, <2>1, <2>2
<1>8. LogsOfTopic' /\ QueuesRise'
  BY <1>6, <1>7 DEF LogsOfTopic, QueuesRise
<1>9. Waiting
  BY <1>1, <1>3, <1>5, <1>6 DEF Waiting, Calls
<1>10. QED
  BY <1>8, <1>9 DEF Connections

LEMMA ConnectionsSubscribe ==
    ASSUME Behind, LogsOfTopic, QueuesRise, NEW topic \in Topics, Subscribe(topic)
    PROVE  Connections
<1>1. /\ TypeOK /\ Calls \subseteq Subs /\ count \in Nat
      /\ sent' = sent /\ count' = count + 1 /\ count + 1 \in Subs
  <2>1. TypeOK
    BY DEF Behind
  <2>2. count \in Nat /\ Calls \subseteq Subs
    BY <2>1, CallsAreSubs
  <2>3. sent' = sent /\ count' = count + 1 /\ count < MaxSubs
    BY DEF Subscribe, brokerVars
  <2>4. count + 1 \in Subs
    BY <2>2, <2>3, MQAssumptions DEF Subs
  <2>5. QED
    BY <2>1, <2>2, <2>3, <2>4
<1>2. \A j \in Subs \ {count + 1} : Keeps(j)
  BY <1>1, ConnSubscribe
<1>3. conn'[count + 1].queue = <<>> /\ conn'[count + 1].log = <<>>
  <2>1. conn'[count + 1] = Conn(topic)
    BY <1>1, ConnSubscribe
  <2>2. QED
    BY <2>1 DEF Conn
<1>4. LogsOfTopic' /\ QueuesRise'
  BY <1>1, <1>2, <1>3, EmptyRange DEF LogsOfTopic, QueuesRise, Keeps, Same
<1>5. Calls' = Calls \union {count + 1} /\ count + 1 \notin Calls
  BY <1>1 DEF Calls
<1>6. Waiting
  BY <1>1, <1>2, <1>3, <1>5, EmptyRange DEF Waiting, Keeps
<1>7. QED
  BY <1>4, <1>6 DEF Connections

LEMMA ConnectionsStep ==
    ASSUME Behind, LogsOfTopic, QueuesRise, [Next]_vars
    PROVE  Connections
<1>1. TypeOK
  BY DEF Behind
<1>2. ASSUME NEW i \in Calls, Goroutine(i) PROVE Connections
  <2>1. UNCHANGED <<sent, count>>
    BY <1>1, <1>2, GoroutineStep
  <2>2. QED
    BY <1>1, <1>2, <2>1, ConnGoroutine, ConnectionsQuiet
<1>3. ASSUME \/ ClosePublisher \/ CloseSubscriber \/ Aside \/ UNCHANGED vars
             \/ \E i \in Calls : Cancel(i) \/ Take(i) \/ Establish(i)
      PROVE  Connections
  <2>1. UNCHANGED <<sent, count>>
    BY <1>3, AsideFacts DEF ClosePublisher, CloseSubscriber, vars, Cancel, Take, Establish,
       brokerVars
  <2>2. \A j \in Subs : Quiet(j)
    BY <1>1, <1>3, ConnOther
  <2>3. QED
    BY <2>1, <2>2, ConnectionsQuiet
<1>4. QED
  BY <1>2, <1>3, ConnectionsPublish, ConnectionsSubscribe DEF Next, Aside

\* What a step does to what a channel brings: nothing, or the message in hand is
\* lost, or one received is put after the others.
Unmoved(i) == Brings(i)' = Brings(i)
LostLast(i) == \E n \in Positive : Brings(i) = Brings(i)' \o <<n>>
Received(i) ==
    \E j \in Calls, n \in Positive :
        /\ Brings(i)' = Brings(i) \o <<n>>
        /\ n \in Range(conn[j].log)
        /\ \/ conn[j].shared
           \/ /\ n \in Range(conn[j].queue)
              /\ \A m \in Range(conn'[j].queue) : n < m

LEMMA BringsFacts ==
    ASSUME TypeOK, NEW i \in Subs
    PROVE  Brings(i) \in Messages /\ Range(Brings(i)) = Has(i)
<1>1. got[i] \in Messages /\ chan[i] \in Messages /\ InHand(i) \in Messages
  BY InHandFacts DEF TypeOK
<1>2. PICK s \in Messages : s = got[i] \o chan[i]
  BY <1>1, Assembled
<1>3. s \o InHand(i) \in Messages
  BY <1>1, Assembled
<1>4. QED
  BY <1>2, <1>3, HasIsRange DEF Brings, Brought

\* What is received from a connection on which no two goroutines met comes before
\* all that is left.
LEMMA ReceivedFirst ==
    ASSUME Behind, QueuesRise, NEW j \in Subs, conn[j].queue # <<>>, ~conn[j].shared,
           NEW m \in Receivable(conn[j]), NEW n \in Consumed(conn[j]),
           conn'[j].queue = SubSeq(conn[j].queue, n + 1, Len(conn[j].queue))
    PROVE  m \in Range(conn[j].queue) /\ \A q \in Range(conn'[j].queue) : m < q
<1>1. conn[j] \in Conns
  BY DEF Behind, TypeOK
<1>2. PICK s \in Messages : s = conn[j].queue /\ s # <<>>
  BY <1>1 DEF Conns
<1>3. m = Head(s) /\ n + 1 = 2
  BY <1>2 DEF Receivable, Consumed
<1>4. conn'[j].queue = Tail(s)
  BY <1>2, <1>3, SuffixIsTail
<1>5. \A a, b \in 1 .. Len(s) : a < b => s[a] < s[b]
  BY <1>2 DEF QueuesRise
<1>6. Head(s) \in Range(s) /\ \A q \in Range(Tail(s)) : Head(s) < q
  BY <1>2, <1>5, FirstIsFirst
<1>7. QED
  BY <1>2, <1>3, <1>4, <1>6

\* A goroutine with nothing in its hand gets a message.
LEMMA HandFills ==
    ASSUME TypeOK, NEW i \in Subs, NEW n \in Positive, InHand(i) = <<>>,
           InHand(i)' = <<n>>, got'[i] = got[i], chan'[i] = chan[i]
    PROVE  Brings(i)' = Brings(i) \o <<n>>
<1>1. got[i] \in Messages /\ chan[i] \in Messages
  BY DEF TypeOK
<1>2. PICK s \in Messages : s = got[i] \o chan[i]
  BY <1>1, Assembled
<1>3. Brings(i) = s /\ Brings(i)' = s \o <<n>>
  BY <1>2, EmptyEnds DEF Brings, Brought
<1>4. QED
  BY <1>3

LEMMA BringsStep ==
    ASSUME Behind, QueuesRise, [Next]_vars, NEW i \in Subs
    PROVE  Unmoved(i) \/ LostLast(i) \/ Received(i)
<1> USE DEF Behind
<1>1. /\ Calls \subseteq Subs /\ count \in Nat
      /\ goro \in [Subs -> Goroutines] /\ conn \in [Subs -> Conns]
      /\ got \in [Subs -> Messages] /\ chan \in [Subs -> Messages]
  BY CallsAreSubs DEF TypeOK
<1>2. got[i] \in Messages /\ chan[i] \in Messages /\ InHand(i) \in Messages
  BY <1>1, InHandFacts
<1>3. ASSUME got'[i] = got[i], chan'[i] = chan[i], InHand(i)' = InHand(i)
      PROVE  Unmoved(i)
  BY <1>3 DEF Unmoved, Brings, Brought
<1>4. ASSUME got'[i] = got[i], chan'[i] = chan[i], goro'[i] = goro[i]
      PROVE  Unmoved(i)
  BY <1>3, <1>4 DEF InHand
<1>5. ASSUME NEW topic \in Topics, Subscribe(topic) PROVE Unmoved(i)
  <2>1. got' = got /\ chan' = chan
    BY <1>5 DEF Subscribe
  <2>2. CASE i # count + 1
    BY <1>1, <1>4, <1>5, <2>1, <2>2 DEF Subscribe
  <2>3. CASE i = count + 1
    <3>1. goro[i] = NotStarted /\ goro'[i] = Selecting
      BY <1>1, <1>5, <2>3 DEF Subscribe, Unstarted
    <3>2. InHand(i) = <<>> /\ InHand(i)' = <<>>
      BY <3>1 DEF InHand, NotStarted, Selecting
    <3>3. QED
      BY <1>3, <2>1, <3>2
  <2>4. QED
    BY <2>2, <2>3
<1>6. ASSUME NEW k \in Calls, Select(k) PROVE Unmoved(i)
  <2>1. got' = got /\ chan' = chan
    BY <1>6 DEF Select
  <2>2. CASE i # k
    BY <1>1, <1>4, <1>6, <2>1, <2>2 DEF Select
  <2>3. CASE i = k
    <3>1. goro[i] = Selecting /\ (goro'[i] = Returned \/ \E j : goro'[i] = Receiving(j))
      BY <1>1, <1>6, <2>3, SelectFacts
    <3>2. InHand(i) = <<>>
      BY <3>1, NothingInHand
    <3>3. InHand(i)' = <<>>
      <4>1. CASE goro'[i] = Returned
        BY <4>1 DEF InHand, Returned
      <4>2. ASSUME NEW j, goro'[i] = Receiving(j) PROVE InHand(i)' = <<>>
        BY <4>2 DEF InHand, Receiving
      <4>3. QED
        BY <3>1, <4>1, <4>2
    <3>4. QED
      BY <1>3, <2>1, <3>2, <3>3
  <2>4. QED
    BY <2>2, <2>3
<1>7. ASSUME NEW k \in Calls, NEW j \in Subs, Receive(k, j) PROVE Unmoved(i) \/ Received(i)
  <2>1. got' = got /\ chan' = chan /\ sent' = sent
    BY <1>7 DEF Receive
  <2>2. CASE i # k
    BY <1>1, <1>4, <1>7, <2>1, <2>2 DEF Receive
  <2>3. CASE i = k
    <3>1. PICK m \in Positive, n \in 1 .. Len(conn[j].queue) :
              /\ goro[i] = Receiving(j) /\ conn[j].queue # <<>>
              /\ m \in Receivable(conn[j]) /\ n \in Consumed(conn[j])
              /\ goro' = Gets(i, m) /\ conn' = After(j, n)
      BY <1>7, <2>3, ReceiveFacts
    <3>2. goro'[i] = Sending(m)
      BY <1>1, <3>1 DEF Gets
    <3>3. conn'[j].queue = SubSeq(conn[j].queue, n + 1, Len(conn[j].queue))
      BY <1>1, <3>1 DEF After, Conns
    <3>4. InHand(i) = <<>> /\ InHand(i)' = <<m>>
      BY <3>1, <3>2 DEF InHand, Receiving, Sending
    <3>5. Brings(i)' = Brings(i) \o <<m>>
      BY <2>1, <3>4, HandFills
    <3>6. m \in Range(conn[j].log) /\ j \in Calls
      BY <3>1, ReceivableLogged
    <3>7. ~conn[j].shared =>
             m \in Range(conn[j].queue) /\ \A q \in Range(conn'[j].queue) : m < q
      BY <3>1, <3>3, ReceivedFirst
    <3>8. QED
      BY <3>5, <3>6, <3>7 DEF Received
  <2>4. QED
    BY <2>2, <2>3
<1>8. ASSUME NEW k \in Calls, NEW l \in Subs, NEW j \in Subs, ReceiveTogether(k, l, j)
      PROVE  Unmoved(i) \/ Received(i)
  <2>1. got' = got /\ chan' = chan
    BY <1>8 DEF ReceiveTogether
  <2>2. k \in Subs
    BY <1>1
  <2>3. PICK m1 \in Positive, m2 \in Positive :
            /\ k # l /\ goro[k] = Receiving(j) /\ goro[l] = Receiving(j)
            /\ conn[j].queue # <<>> /\ {m1, m2} \subseteq Receivable(conn[j])
            /\ goro' = BothGet(k, m1, l, m2)
    BY <1>8, <2>2, TogetherFacts
  <2>4. CASE i # k /\ i # l
    <3>1. goro'[i] = goro[i]
      BY <1>1, <2>3, <2>4 DEF BothGet
    <3>2. QED
      BY <1>4, <2>1, <3>1
  <2>5. ASSUME NEW m \in Positive, m \in Receivable(conn[j]), i \in {k, l},
               goro'[i] = Sending(m)
        PROVE  Received(i)
    <3>1. goro[i] = Receiving(j) /\ conn[j].shared
      BY <2>2, <2>3, <2>5 DEF Met
    <3>2. InHand(i) = <<>> /\ InHand(i)' = <<m>>
      BY <2>5, <3>1 DEF InHand, Receiving, Sending
    <3>3. Brings(i)' = Brings(i) \o <<m>>
      BY <2>1, <3>2, HandFills
    <3>4. m \in Range(conn[j].log) /\ j \in Calls
      BY <2>3, <2>5, <3>1, ReceivableLogged
    <3>5. QED
      BY <3>1, <3>3, <3>4 DEF Received
  <2>6. goro'[k] = Sending(m1) /\ goro'[l] = Sending(m2)
    BY <1>1, <2>2, <2>3 DEF BothGet
  <2>7. QED
    BY <2>3, <2>4, <2>5, <2>6
<1>9. ASSUME NEW k \in Calls, NEW j \in Subs, ReceiveFails(k, j) PROVE Unmoved(i)
  <2>1. got' = got /\ chan' = chan
    BY <1>9 DEF ReceiveFails
  <2>2. CASE i # k
    BY <1>1, <1>4, <1>9, <2>1, <2>2 DEF ReceiveFails
  <2>3. CASE i = k
    <3>1. goro[i] = Receiving(j) /\ goro'[i] = Returned
      BY <1>1, <1>9, <2>3, FailsFacts
    <3>2. InHand(i) = <<>> /\ InHand(i)' = <<>>
      BY <3>1 DEF InHand, Receiving, Returned
    <3>3. QED
      BY <1>3, <2>1, <3>2
  <2>4. QED
    BY <2>2, <2>3
<1>10. ASSUME NEW k \in Calls, Send(k) PROVE Unmoved(i) \/ LostLast(i)
  <2>1. got' = got
    BY <1>10 DEF Send
  <2>2. CASE i # k
    BY <1>1, <1>4, <1>10, <2>1, <2>2 DEF Send, Put
  <2>3. CASE i = k
    <3>1. goro[i].pc = "send"
      BY <1>10, <2>3 DEF Send
    <3>2. PICK m \in Positive : m = goro[i].msg /\ InHand(i) = <<m>>
      BY <3>1, InHandFacts
    <3>3. PICK s \in Messages : s = got[i] \o chan[i]
      BY <1>2, Assembled
    <3>4. Brings(i) = s \o <<m>>
      BY <3>2, <3>3 DEF Brings, Brought
    <3>5. CASE Put(i, m) /\ goro' = [goro EXCEPT ![i] = Selecting]
      <4>1. chan'[i] = Append(chan[i], m) /\ InHand(i)' = <<>>
        BY <1>1, <3>5 DEF Put, InHand, Selecting
      <4>2. got[i] \o Append(chan[i], m) = s \o <<m>>
        BY <1>2, <3>3, PutMoves
      <4>3. s \o <<m>> \in Messages
        BY OneMore
      <4>4. Brings(i)' = (s \o <<m>>) \o <<>>
        BY <2>1, <4>1, <4>2 DEF Brings, Brought
      <4>5. QED
        BY <3>4, <4>3, <4>4, EmptyEnds DEF Unmoved
    <3>6. CASE goro' = [goro EXCEPT ![i] = Returned] /\ UNCHANGED chan
      <4>1. chan' = chan /\ InHand(i)' = <<>>
        BY <1>1, <3>6 DEF InHand, Returned
      <4>2. Brings(i)' = s
        BY <2>1, <3>3, <4>1, EmptyEnds DEF Brings, Brought
      <4>3. QED
        BY <3>4, <4>2 DEF LostLast
    <3>7. QED
      BY <1>10, <2>3, <3>2, <3>5, <3>6 DEF Send
  <2>4. QED
    BY <2>2, <2>3
<1>11. ASSUME NEW k \in Calls, Take(k) PROVE Unmoved(i)
  <2>1. goro' = goro
    BY <1>11 DEF Take
  <2>2. CASE i # k
    BY <1>1, <1>4, <1>11, <2>1, <2>2 DEF Take
  <2>3. CASE i = k
    <3>1. /\ chan[i] # <<>>
          /\ got'[i] = Append(got[i], Head(chan[i])) /\ chan'[i] = Tail(chan[i])
      BY <1>1, <1>11, <2>3 DEF Take
    <3>2. got'[i] \o chan'[i] = got[i] \o chan[i]
      BY <1>2, <3>1, TakeMoves
    <3>3. InHand(i)' = InHand(i)
      BY <2>1 DEF InHand
    <3>4. QED
      BY <3>2, <3>3 DEF Unmoved, Brings, Brought
  <2>4. QED
    BY <2>2, <2>3
<1>12. ASSUME \/ ClosePublisher \/ CloseSubscriber \/ Aside \/ UNCHANGED vars
              \/ (\E topic \in Topics : Publish(topic))
              \/ (\E k \in Calls : Cancel(k) \/ Establish(k))
       PROVE  Unmoved(i)
  <2>1. got' = got /\ chan' = chan /\ goro' = goro
    BY <1>12, AsideFacts DEF ClosePublisher, CloseSubscriber, vars, Publish, Cancel,
       Establish, goroVars
  <2>2. QED
    BY <1>4, <2>1
<1>13. QED
  BY <1>5, <1>6, <1>7, <1>8, <1>9, <1>10, <1>11, <1>12
  DEF Next, Goroutine, Aside

\* A topic with one connection had one, and one that is not shared was not.
LEMMA ClearBefore == Waiting => \A topic : Clear(topic)' => Clear(topic)
  BY DEF Waiting, Clear, Sole, Unshared, Same

\* What a channel brings, before a step and after it.
LEMMA BringsTyped ==
    TypeOK => \A i \in Subs : Brings(i) \in Messages /\ Range(Brings(i)) = Has(i)
  BY BringsFacts

LEMMA BringsTypedNext ==
    ASSUME Behind, [Next]_vars
    PROVE  \A i \in Subs :
              /\ Brings(i) \in Messages /\ Range(Brings(i)) = Has(i)
              /\ Brings(i)' \in Messages /\ Range(Brings(i)') = Has(i)'
<1>1. TypeOK /\ TypeOK'
  BY TypeStep DEF Behind
<1>2. (TypeOK => \A i \in Subs : Brings(i) \in Messages /\ Range(Brings(i)) = Has(i))'
  BY BringsTyped, PTL
<1>3. \A i \in Subs : (Brings(i) \in Messages /\ Range(Brings(i)) = Has(i))'
  BY <1>1, <1>2 DEF Subs
<1>4. \A i \in Subs : Brings(i)' \in Messages /\ Range(Brings(i)') = Has(i)'
  BY <1>3 DEF Messages, Range
<1>5. QED
  BY <1>1, <1>4, BringsTyped

LEMMA SentStays ==
    ASSUME TypeOK, Waiting, NEW n \in 1 .. Len(sent)
    PROVE  sent'[n] = sent[n]
<1>1. sent \in Seq(Topics)
  BY DEF TypeOK
<1>2. ASSUME NEW topic \in Topics PROVE Append(sent, topic)[n] = sent[n]
  BY <1>1
<1>3. QED
  BY <1>2 DEF Waiting

\* What a channel brought was published.
LEMMA HasWasSent ==
    ASSUME Behind, Sourced, LogsOfTopic, NEW i \in Subs, NEW n \in Has(i)
    PROVE  n \in 1 .. Len(sent)
<1>1. PICK j \in i .. count : n \in Range(conn[j].log)
  BY DEF Sourced, FromLater
<1>2. j \in Subs
  BY <1>1, CallsAreSubs DEF Behind, Calls, Subs
<1>3. QED
  BY <1>1, <1>2 DEF LogsOfTopic

\* What was just received comes after all of its topic.
LEMMA ReceivedIsLatest ==
    ASSUME Behind, OrderInv, NEW i \in Subs, NEW j \in Calls, NEW n \in Range(conn[j].log),
           conn[j].shared \/ n \in Range(conn[j].queue)
    PROVE  /\ n \in 1 .. Len(sent) /\ sent[n] = conn[j].topic
           /\ Clear(sent[n]) => ~conn[j].shared
           /\ \A m \in Has(i) : sent[m] = sent[n] /\ Clear(sent[n]) => m < n
<1>1. j \in Subs
  BY CallsAreSubs DEF Behind
<1>2. n \in 1 .. Len(sent) /\ sent[n] = conn[j].topic
  BY <1>1 DEF OrderInv, LogsOfTopic
<1>3. Clear(sent[n]) => ~conn[j].shared
  BY <1>2 DEF Clear, Unshared
<1>4. QED
  BY <1>2, <1>3 DEF OrderInv, QueuesAhead

LEMMA QueuesAheadStep ==
    ASSUME Behind, OrderInv, [Next]_vars, Connections
    PROVE  QueuesAhead'
<1>1. SUFFICES ASSUME NEW i \in Subs, NEW j \in Calls', NEW n \in Has(i)',
                      NEW m \in Range(conn'[j].queue),
                      sent'[n] = conn'[j].topic, Clear(conn[j].topic)'
               PROVE  n < m
  BY DEF QueuesAhead
<1>2. /\ j \in Calls /\ conn'[j].topic = conn[j].topic
      /\ m \in Range(conn[j].queue) \union {Len(sent) + 1}
  BY <1>1 DEF Connections, Waiting, Same
<1>3. Clear(conn[j].topic)
  BY <1>1, <1>2, ClearBefore DEF Connections
<1>4. j \in Subs /\ Calls \subseteq Subs /\ Len(sent) \in Nat
  BY <1>2, CallsAreSubs DEF Behind, TypeOK
<1>5. /\ Brings(i) \in Messages /\ Range(Brings(i)) = Has(i)
      /\ Brings(i)' \in Messages /\ Range(Brings(i)') = Has(i)'
  BY BringsTypedNext
<1>6. CASE n \in Has(i)
  <2>1. n \in 1 .. Len(sent) /\ sent'[n] = sent[n]
    BY <1>6, HasWasSent, SentStays DEF OrderInv, Connections, Behind
  <2>2. m \in Range(conn[j].queue) => n < m
    BY <1>1, <1>2, <1>3, <1>6, <2>1 DEF OrderInv, QueuesAhead
  <2>3. m = Len(sent) + 1 => n < m
    BY <1>4, <2>1
  <2>4. QED
    BY <1>2, <2>2, <2>3
<1>7. CASE n \notin Has(i)
  <2>1. Received(i)
    <3>1. Unmoved(i) \/ LostLast(i) \/ Received(i)
      BY BringsStep DEF OrderInv
    <3>2. Unmoved(i) => Has(i)' = Has(i)
      BY <1>5 DEF Unmoved
    <3>3. ASSUME LostLast(i) PROVE Has(i)' \subseteq Has(i)
      <4>1. PICK r \in Positive : Brings(i) = Brings(i)' \o <<r>>
        BY <3>3 DEF LostLast
      <4>2. PICK t \in Messages : t = Brings(i)' /\ Range(t) = Has(i)'
        BY <1>5
      <4>3. QED
        BY <1>5, <4>1, <4>2, OneMore
    <3>4. QED
      BY <1>7, <3>1, <3>2, <3>3
  <2>2. PICK k \in Calls, r \in Positive :
            /\ Brings(i)' = Brings(i) \o <<r>> /\ r \in Range(conn[k].log)
            /\ \/ conn[k].shared
               \/ /\ r \in Range(conn[k].queue)
                  /\ \A q \in Range(conn'[k].queue) : r < q
    BY <2>1 DEF Received
  <2>3. n = r
    BY <1>5, <1>7, <2>2, OneMore
  <2>4. /\ sent[n] = conn[k].topic /\ sent'[n] = sent[n]
        /\ Clear(sent[n]) => ~conn[k].shared
    BY <2>2, <2>3, <1>4, ReceivedIsLatest, SentStays DEF Connections, Behind
  <2>5. k = j
    BY <1>1, <1>2, <1>3, <2>4 DEF Clear, Sole
  <2>6. ~conn[k].shared
    BY <1>3, <2>4, <2>5
  <2>7. QED
    BY <1>1, <2>2, <2>3, <2>5, <2>6
<1>8. QED
  BY <1>6, <1>7

LEMMA ChannelsRiseStep ==
    ASSUME Behind, OrderInv, [Next]_vars, Connections
    PROVE  ChannelsRise'
<1>1. SUFFICES ASSUME NEW i \in Subs, NEW a \in DOMAIN Brings(i)', NEW b \in DOMAIN Brings(i)',
                      a < b, sent'[Brings(i)'[a]] = sent'[Brings(i)'[b]],
                      Clear(sent[Brings(i)[a]])'
               PROVE  Brings(i)'[a] < Brings(i)'[b]
  BY DEF ChannelsRise, InOrder, Clear
<1> DEFINE s == Brings(i)
           t == Brings(i)'
<1>2. /\ s \in Messages /\ Range(s) = Has(i) /\ t \in Messages
  BY BringsTypedNext
<1>3. /\ Len(s) \in Nat /\ DOMAIN s = 1 .. Len(s)
      /\ \A c \in 1 .. Len(s) : s[c] \in Has(i) /\ s[c] \in 1 .. Len(sent)
      /\ \A c \in 1 .. Len(s) : sent'[s[c]] = sent[s[c]]
  <2>1. /\ Len(s) \in Nat /\ DOMAIN s = 1 .. Len(s)
        /\ \A c \in 1 .. Len(s) : s[c] \in Has(i)
    BY <1>2, AtOf
  <2>2. \A c \in 1 .. Len(s) : s[c] \in 1 .. Len(sent)
    BY <2>1, HasWasSent DEF OrderInv
  <2>3. \A c \in 1 .. Len(s) : sent'[s[c]] = sent[s[c]]
    BY <2>2, SentStays DEF Behind, Connections
  <2>4. QED
    BY <2>1, <2>2, <2>3
<1>4. Clear(sent'[t[a]])
  BY <1>1, ClearBefore DEF Connections
<1> HIDE DEF s, t
<1>5. ASSUME a \in 1 .. Len(s), b \in 1 .. Len(s), t[a] = s[a], t[b] = s[b]
      PROVE  t[a] < t[b]
  <2>1. sent[s[a]] = sent[s[b]] /\ Clear(sent[s[a]])
    BY <1>1, <1>3, <1>4, <1>5 DEF t
  <2>2. QED
    BY <1>1, <1>3, <1>5, <2>1 DEF OrderInv, ChannelsRise, InOrder, Clear, s
<1>6. CASE Unmoved(i)
  BY <1>1, <1>3, <1>5, <1>6 DEF Unmoved, s, t
<1>7. CASE LostLast(i)
  <2>1. PICK n \in Positive : s = t \o <<n>>
    BY <1>7 DEF LostLast, s, t
  <2>2. /\ DOMAIN t = 1 .. Len(t) /\ Len(t) \in Nat /\ Len(s) = Len(t) + 1
        /\ \A c \in 1 .. Len(t) : s[c] = t[c]
    BY <1>2, <2>1, AtOf, OneMore
  <2>3. a \in 1 .. Len(t) /\ b \in 1 .. Len(t)
    BY <1>1, <2>2 DEF t
  <2>4. QED
    BY <1>5, <2>2, <2>3 DEF t
<1>8. CASE Received(i)
  <2>1. PICK j \in Calls, n \in Positive :
            /\ t = s \o <<n>> /\ n \in Range(conn[j].log)
            /\ conn[j].shared \/ n \in Range(conn[j].queue)
    BY <1>8 DEF Received, s, t
  <2>2. /\ DOMAIN t = 1 .. Len(t) /\ Len(t) = Len(s) + 1 /\ t[Len(s) + 1] = n
        /\ \A c \in 1 .. Len(s) : t[c] = s[c]
    BY <1>2, <2>1, AtOf, OneMore
  <2>3. a \in 1 .. Len(s) /\ b \in 1 .. Len(s) + 1
    BY <1>1, <1>3, <2>2 DEF t
  <2>4. CASE b = Len(s) + 1
    <3>1. /\ n \in 1 .. Len(sent)
          /\ \A m \in Has(i) : sent[m] = sent[n] /\ Clear(sent[n]) => m < n
      BY <2>1, ReceivedIsLatest
    <3>2. sent'[n] = sent[n]
      BY <3>1, SentStays DEF Behind, Connections
    <3>3. sent[s[a]] = sent[n] /\ Clear(sent[n])
      BY <1>1, <1>3, <1>4, <2>2, <2>3, <2>4, <3>2 DEF t
    <3>4. s[a] < n
      BY <1>3, <2>3, <3>1, <3>3
    <3>5. QED
      BY <2>2, <2>3, <2>4, <3>4 DEF t
  <2>5. CASE b # Len(s) + 1
    <3>1. b \in 1 .. Len(s)
      BY <1>3, <2>3, <2>5
    <3>2. QED
      BY <1>5, <2>2, <2>3, <3>1 DEF t
  <2>6. QED
    BY <2>4, <2>5
<1>9. QED
  BY <1>6, <1>7, <1>8, BringsStep DEF OrderInv

LEMMA OrderStep == Behind /\ OrderInv /\ [Next]_vars => OrderInv'
<1>1. SUFFICES ASSUME Behind, OrderInv, [Next]_vars PROVE OrderInv'
  OBVIOUS
<1>2. Connections
  BY <1>1, ConnectionsStep DEF OrderInv
<1>3. Sourced' /\ LogsOfTopic' /\ QueuesRise'
  BY <1>1, <1>2, SourcedStep DEF OrderInv, Connections
<1>4. QueuesAhead' /\ ChannelsRise'
  BY <1>1, <1>2, QueuesAheadStep, ChannelsRiseStep
<1>5. QED
  BY <1>3, <1>4 DEF OrderInv

LEMMA OrderInit == Init => OrderInv
<1>1. SUFFICES ASSUME Init PROVE OrderInv
  OBVIOUS
<1>2. Range(<<>>) = {} /\ Len(<<>>) = 0 /\ DOMAIN <<>> = {}
  BY DEF Range
<1>3. LogsOfTopic /\ QueuesRise
  BY <1>1, <1>2 DEF Init, NoConn, Conn, LogsOfTopic, QueuesRise
<1>4. QueuesAhead
  BY <1>1 DEF Init, Calls, QueuesAhead
<1>5. ASSUME NEW i \in Subs PROVE InOrder(Brings(i))
  <2>1. /\ got[i] = <<>> /\ chan[i] = <<>> /\ InHand(i) = <<>>
    BY <1>1 DEF Init, InHand, NotStarted
  <2>2. <<>> \o <<>> = <<>> /\ <<>> \in Messages
    BY EmptyEnds, EmptySeq DEF Messages
  <2>3. Brings(i) = <<>>
    BY <2>1, <2>2 DEF Brings, Brought
  <2>4. QED
    BY <1>2, <2>3 DEF InOrder
<1>6. QED
  BY <1>1, <1>3, <1>4, <1>5, SourcedInit DEF OrderInv, ChannelsRise

\* A channel brings the messages of a topic that has one connection in the order
\* they were published, and none twice, as long as no two goroutines met on it.
THEOREM TopicsComeInOrder == Spec => []OrderedByTopic
<1>1. Behind /\ OrderInv => OrderedByTopic
  BY CallsAreSubs DEF Behind, OrderInv, ChannelsRise, OrderedByTopic
<1>2. QED
  BY BehindInit, BehindStep, OrderInit, OrderStep, <1>1, PTL DEF Spec

-----------------------------------------------------------------------------
(* What is left of a goroutine once a Close has begun.                      *)

LEMMA EmptiedInit == Init => Emptied
  BY BehindInit DEF Behind

\* A goroutine that receives on a closed client is at its end.
LEMMA NothingToReceive ==
    ASSUME Emptied, ~ClientOpen, NEW i, NEW j \in Subs
    PROVE  ~Receive(i, j) /\ \A k : ~ReceiveTogether(i, k, j)
<1>1. conn[j].queue = <<>>
  BY DEF Emptied
<1>2. QED
  BY <1>1 DEF Receive, ReceiveTogether

\* A step of a goroutine on a closed client; those of others leave it as it is.
LEMMA GoroutineEnds ==
    ASSUME TypeOK, Emptied, ~ClientOpen, NEW i \in Calls, Goroutine(i), NEW k \in Calls
    PROVE  goro'[k] = goro[k] \/ StepsLeft(k)' < StepsLeft(k)
<1>1. goro \in [Subs -> Goroutines] /\ i \in Subs /\ k \in Subs
  BY CallsAreSubs DEF TypeOK
<1>2. CASE Select(i)
  <2>1. goro[i].pc = "select"
        /\ \/ goro' = [goro EXCEPT ![i] = Returned]
           \/ \E j \in Readable(i) : goro' = [goro EXCEPT ![i] = Receiving(j)]
    BY <1>1, <1>2, SelectFacts DEF Selecting
  <2>2. goro'[k] = goro[k] \/ (k = i /\ goro'[k].pc \in {"returned", "receive"})
    BY <1>1, <2>1 DEF Returned, Receiving
  <2>3. QED
    BY <2>1, <2>2 DEF StepsLeft
<1>3. CASE Send(i)
  <2>1. goro[i].pc = "send"
        /\ \/ goro' = [goro EXCEPT ![i] = Returned]
           \/ goro' = [goro EXCEPT ![i] = Selecting]
    BY <1>3 DEF Send
  <2>2. goro'[k] = goro[k] \/ (k = i /\ goro'[k].pc \in {"returned", "select"})
    BY <1>1, <2>1 DEF Returned, Selecting
  <2>3. QED
    BY <2>1, <2>2 DEF StepsLeft
<1>4. ASSUME NEW j \in Subs, ReceiveFails(i, j)
      PROVE  goro'[k] = goro[k] \/ StepsLeft(k)' < StepsLeft(k)
  <2>1. goro[i].pc = "receive" /\ goro' = [goro EXCEPT ![i] = Returned]
    BY <1>4 DEF ReceiveFails, Receiving
  <2>2. goro'[k] = goro[k] \/ (k = i /\ goro'[k].pc = "returned")
    BY <1>1, <2>1 DEF Returned
  <2>3. QED
    BY <2>1, <2>2 DEF StepsLeft
<1>5. QED
  BY <1>2, <1>3, <1>4, NothingToReceive DEF Goroutine

LEMMA WindsDownStep ==
    ASSUME TypeOK, Emptied, [Next]_vars, ~ClientOpen, NEW k \in Calls
    PROVE  goro'[k] = goro[k] \/ StepsLeft(k)' < StepsLeft(k)
<1>1. ASSUME NEW topic, Subscribe(topic) PROVE goro'[k] = goro[k]
  <2>1. k # count + 1 /\ goro' = [goro EXCEPT ![count + 1] = Selecting]
    BY <1>1 DEF Subscribe, Calls, TypeOK
  <2>2. QED
    BY <2>1, CallsAreSubs DEF TypeOK
<1>2. CASE \/ UNCHANGED vars \/ ClosePublisher \/ CloseSubscriber \/ Aside
           \/ \E topic \in Topics : Publish(topic)
           \/ \E i \in Calls : Cancel(i) \/ Take(i) \/ Establish(i)
  BY <1>2, AsideFacts DEF vars, ClosePublisher, CloseSubscriber, Publish, Cancel, Take,
     Establish, goroVars
<1>3. QED
  BY <1>1, <1>2, GoroutineEnds DEF Next, Aside

\* Once a Close has begun no goroutine has more than three steps to its return.
THEOREM GoroutinesWindDown == Spec => WindsDown
<1>1. TypeOK /\ Emptied /\ [Next]_vars =>
        [~ClientOpen => \A i \in Calls : goro'[i] = goro[i]
                                         \/ StepsLeft(i)' < StepsLeft(i)]_vars
  BY WindsDownStep
<1>2. QED
  BY TypeInit, TypeStep, EmptiedInit, EmptiedStep, <1>1, PTL DEF Spec, WindsDown
=============================================================================
