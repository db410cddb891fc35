-------------------------- MODULE RelayTraffic_proofs --------------------------
(***************************************************************************)
(* Proofs about the traffic between the relay and its sensor: the two      *)
(* discovery procedures stay in order and are never dropped, the cache     *)
(* follows the LED, and the whole implements LedContract, for any sensor,  *)
(* any number of phones and any number of request objects above one.       *)
(***************************************************************************)
EXTENDS RelayGatt_proofs, SequenceTheorems

------------------------------------------------------------------------------
\* Requests

\* The requests of the procedure of characteristic i among q.
Asks(q, i) == {k \in DOMAIN q : q[k].op = "discover" /\ q[k].of = i}

\* At most one, for the stage the parameters are set up for, and only while i is
\* not subscribed to; a subscription that is asked for counts already.
InOrder(q, i, stage, subscribed) ==
    /\ \A k, l \in Asks(q, i) : k = l
    /\ \A k \in Asks(q, i) : q[k].stage = stage
    /\ Asks(q, i) # {} => subscribed # "active"
    /\ \A k \in DOMAIN q : q[k] = Subscribe(i) => subscribed = "active"

LEMMA RequestFacts ==
    /\ \A i \in Chars, s \in Stages \ {"zero"} :
         /\ Discover(i, s) \in Request /\ Discover(i, s).op = "discover"
         /\ Discover(i, s).of = i /\ Discover(i, s).stage = s
    /\ \A i \in Chars : Subscribe(i) \in Request /\ Subscribe(i).op = "subscribe"
                        /\ Subscribe(i).of = i
    /\ Read \in Request /\ Read.op = "read"
    /\ ReadMore \in Request /\ ReadMore.op = "readmore"
    /\ \A v \in Leds : Write(v) \in Request /\ Write(v).op = "write" /\ Write(v).val = v
  BY DEF Request, Discover, Subscribe, Read, ReadMore, Write

LEMMA RequestParts ==
    ASSUME NEW r \in Request
    PROVE  /\ r.op \in {"discover", "subscribe", "read", "readmore", "write"}
           /\ r.op = "discover" => /\ r.of \in Chars /\ r.stage \in Stages \ {"zero"}
                                   /\ r = Discover(r.of, r.stage)
           /\ r.op = "subscribe" => r.of \in Chars /\ r = Subscribe(r.of)
           /\ r.op = "write" => r.val \in Leds
  BY DEF Request, Discover, Subscribe

\* A request of another kind, or of the other procedure, is appended.
LEMMA AppendAside ==
    ASSUME NEW q \in Seq(Request), NEW r \in Request, NEW i \in Chars, NEW stage,
           NEW subscribed, InOrder(q, i, stage, subscribed),
           ~(r.op = "discover" /\ r.of = i), r = Subscribe(i) => subscribed = "active"
    PROVE  /\ InOrder(Append(q, r), i, stage, subscribed)
           /\ Asks(q, i) # {} => Asks(Append(q, r), i) # {}
<1>1. /\ DOMAIN q = 1 .. Len(q) /\ DOMAIN Append(q, r) = 1 .. Len(q) + 1 /\ Len(q) \in Nat
      /\ \A k \in 1 .. Len(q) : Append(q, r)[k] = q[k]
      /\ Append(q, r)[Len(q) + 1] = r
  OBVIOUS
<1>2. \A k \in DOMAIN Append(q, r) : k \in DOMAIN q \/ Append(q, r)[k] = r
  BY <1>1
<1>3. \A k \in DOMAIN q : k \in DOMAIN Append(q, r) /\ Append(q, r)[k] = q[k]
  BY <1>1
<1>4. Asks(Append(q, r), i) = Asks(q, i)
  BY <1>2, <1>3 DEF Asks
<1>5. \A k \in Asks(q, i) : k \in DOMAIN q
  BY DEF Asks
<1>6. QED
  BY <1>2, <1>3, <1>4, <1>5 DEF InOrder

\* The next request of procedure i is appended, when it has none.
LEMMA AppendAsk ==
    ASSUME NEW q \in Seq(Request), NEW i \in Chars, NEW s \in Stages \ {"zero"},
           NEW subscribed, Asks(q, i) = {}, subscribed # "active",
           \A k \in DOMAIN q : q[k] # Subscribe(i)
    PROVE  /\ InOrder(Append(q, Discover(i, s)), i, s, subscribed)
           /\ Asks(Append(q, Discover(i, s)), i) # {}
<1> DEFINE r == Discover(i, s)
           n == Len(q) + 1
<1>0. r \in Request /\ r.op = "discover" /\ r.of = i /\ r.stage = s /\ r # Subscribe(i)
  BY RequestFacts
<1> HIDE DEF r
<1>1. /\ DOMAIN q = 1 .. Len(q) /\ DOMAIN Append(q, r) = 1 .. n /\ Len(q) \in Nat
      /\ \A k \in 1 .. Len(q) : Append(q, r)[k] = q[k]
      /\ Append(q, r)[n] = r
  BY <1>0
<1>2. \A k \in DOMAIN Append(q, r) : (k \in DOMAIN q /\ Append(q, r)[k] = q[k]) \/ k = n
  BY <1>1
<1>3. n \in DOMAIN Append(q, r)
  BY <1>1
<1>4. Append(q, r)[n] = r
  BY <1>1
<1> HIDE DEF n
<1>5. Asks(Append(q, r), i) = {n}
  BY <1>0, <1>2, <1>3, <1>4 DEF Asks
<1>6. \A k \in DOMAIN Append(q, r) : Append(q, r)[k] # Subscribe(i)
  BY <1>0, <1>2, <1>4
<1>7. QED
  BY <1>0, <1>4, <1>5, <1>6 DEF InOrder, r

\* The first request ends and is not of procedure i.
LEMMA TailAside ==
    ASSUME NEW q \in Seq(Request), q # <<>>, NEW i \in Chars, NEW stage, NEW subscribed,
           InOrder(q, i, stage, subscribed), ~(Head(q).op = "discover" /\ Head(q).of = i)
    PROVE  /\ InOrder(Tail(q), i, stage, subscribed)
           /\ Asks(q, i) # {} => Asks(Tail(q), i) # {}
<1>1. /\ DOMAIN q = 1 .. Len(q) /\ Len(q) \in Nat /\ Len(q) >= 1 /\ Head(q) = q[1]
      /\ DOMAIN Tail(q) = 1 .. Len(q) - 1
      /\ \A k \in 1 .. Len(q) - 1 : Tail(q)[k] = q[k + 1]
  OBVIOUS
<1>2. \A k \in Asks(Tail(q), i) : k + 1 \in Asks(q, i) /\ k \in Int /\ Tail(q)[k] = q[k + 1]
  BY <1>1 DEF Asks
<1>3. \A k \in Asks(q, i) : k - 1 \in Asks(Tail(q), i)
  <2>1. ASSUME NEW k \in Asks(q, i)
        PROVE  k - 1 \in 1 .. Len(q) - 1 /\ (k - 1) + 1 = k
    BY <1>1 DEF Asks
  <2>2. \A k \in Asks(q, i) : Tail(q)[k - 1] = q[k]
    BY <1>1, <2>1
  <2>3. QED
    BY <1>1, <2>1, <2>2 DEF Asks
<1>4. \A k \in DOMAIN Tail(q) : k + 1 \in DOMAIN q /\ Tail(q)[k] = q[k + 1]
  BY <1>1
<1>5. \A k, l \in Asks(Tail(q), i) : k = l
  BY <1>2 DEF InOrder
<1>6. \A k \in Asks(Tail(q), i) : Tail(q)[k].stage = stage
  BY <1>2 DEF InOrder
<1>7. Asks(Tail(q), i) # {} => Asks(q, i) # {}
  BY <1>2
<1>8. QED
  BY <1>3, <1>4, <1>5, <1>6, <1>7 DEF InOrder

\* The first request ends and was the one of procedure i.
LEMMA TailAsk ==
    ASSUME NEW q \in Seq(Request), q # <<>>, NEW i \in Chars, NEW stage, NEW subscribed,
           InOrder(q, i, stage, subscribed), Head(q).op = "discover", Head(q).of = i
    PROVE  /\ Asks(Tail(q), i) = {} /\ Head(q).stage = stage /\ subscribed # "active"
           /\ \A k \in DOMAIN Tail(q) : Tail(q)[k] # Subscribe(i)
<1>1. /\ DOMAIN q = 1 .. Len(q) /\ Len(q) \in Nat /\ Len(q) >= 1 /\ Head(q) = q[1]
      /\ DOMAIN Tail(q) = 1 .. Len(q) - 1
      /\ \A k \in 1 .. Len(q) - 1 : Tail(q)[k] = q[k + 1]
  OBVIOUS
<1>2. 1 \in Asks(q, i)
  BY <1>1 DEF Asks
<1>3. \A k \in Asks(Tail(q), i) : k + 1 \in Asks(q, i) /\ k + 1 # 1
  BY <1>1 DEF Asks
<1>4. \A k \in DOMAIN Tail(q) : k + 1 \in DOMAIN q /\ Tail(q)[k] = q[k + 1]
  BY <1>1
<1>5. QED
  BY <1>1, <1>2, <1>3, <1>4 DEF InOrder

\* With no request of procedure i and no subscription asked for, it is in order.
LEMMA NoneInOrder ==
    ASSUME NEW q, NEW i, NEW stage, NEW subscribed, Asks(q, i) = {},
           \A k \in DOMAIN q : q[k] = Subscribe(i) => subscribed = "active"
    PROVE  InOrder(q, i, stage, subscribed)
  BY DEF InOrder

\* A request object is taken if one is free.
LEMMA QueuedTypes ==
    ASSUME NEW q \in Seq(Request), NEW r \in Request, Len(q) <= ReqSlots
    PROVE  /\ Queued(q, r) \in Seq(Request) /\ Len(Queued(q, r)) <= ReqSlots
           /\ Queued(q, r) \in {q, Append(q, r)}
           /\ Len(q) < ReqSlots => Queued(q, r) = Append(q, r)
<1>1. Append(q, r) \in Seq(Request) /\ Len(Append(q, r)) = Len(q) + 1 /\ Len(q) \in Nat
  OBVIOUS
<1>2. QED
  BY <1>1, GattAssumption DEF Queued

LEMMA TailTypes ==
    ASSUME NEW S, NEW q \in Seq(S), q # <<>>
    PROVE  /\ Tail(q) \in Seq(S) /\ Len(Tail(q)) = Len(q) - 1 /\ Len(q) \in Nat
           /\ Head(q) \in S
  OBVIOUS

------------------------------------------------------------------------------
\* Messages to the relay

IsLed(m) == m.kind = "notification" /\ m.of = "led"

LEMMA MessageParts ==
    ASSUME NEW m \in Message
    PROVE  /\ m.kind \in {"response", "notification"}
           /\ m.kind = "response" => m.found \in BOOLEAN /\ m.val \in Temps \cup {0}
           /\ m.kind = "notification" => /\ m.of \in Chars
                                         /\ m.val \in (IF m.of = "led" THEN Leds ELSE Temps)
  BY DEF Message, Chars

LEMMA MessageFacts ==
    /\ \A f \in BOOLEAN, v \in Temps \cup {0} :
         /\ Response(f, v) \in Message /\ Response(f, v).kind = "response"
         /\ Response(f, v).found = f /\ Response(f, v).val = v
    /\ \A t \in Temps : /\ Notification("temp", t) \in Message
                        /\ Notification("temp", t).kind = "notification"
                        /\ Notification("temp", t).of = "temp"
    /\ \A v \in Leds : /\ Notification("led", v) \in Message
                       /\ Notification("led", v).kind = "notification"
                       /\ Notification("led", v).of = "led"
                       /\ Notification("led", v).val = v
  BY DEF Message, Response, Notification

\* A notification of the LED on its way has a last one.
HasLast(d) == LedNotes(d) # {} => \E k \in LedNotes(d) : \A l \in LedNotes(d) : l <= k

\* Messages that were not led notifications, or moved, leave the last one alone.
LEMMA LastLedIs ==
    ASSUME NEW d \in Seq(Message), NEW cached, NEW k \in LedNotes(d),
           \A l \in LedNotes(d) : l <= k
    PROVE  LastLed(d, cached) = d[k].val
<1>1. LedNotes(d) \subseteq Int
  BY DEF LedNotes
<1>2. \A j \in LedNotes(d) : (\A l \in LedNotes(d) : l <= j) => j = k
  BY <1>1
<1> DEFINE last == CHOOSE j \in LedNotes(d) : \A l \in LedNotes(d) : l <= j
<1>3. last \in LedNotes(d) /\ \A l \in LedNotes(d) : l <= last
  OBVIOUS
<1>4. last = k
  <2> HIDE DEF last
  <2>1. QED
    BY <1>2, <1>3
<1>5. QED
  BY <1>4 DEF LastLed

LEMMA AppendLed ==
    ASSUME NEW d \in Seq(Message), NEW m \in Message, IsLed(m), NEW cached
    PROVE  HasLast(Append(d, m)) /\ LastLed(Append(d, m), cached) = m.val
           /\ LedNotes(Append(d, m)) # {}
<1> DEFINE n == Len(d) + 1
<1>1. /\ DOMAIN Append(d, m) = 1 .. n /\ n \in 1 .. n /\ n \in Nat /\ Append(d, m)[n] = m
      /\ Append(d, m) \in Seq(Message)
  OBVIOUS
<1> HIDE DEF n
<1>2. n \in LedNotes(Append(d, m)) /\ \A l \in LedNotes(Append(d, m)) : l <= n
  BY <1>1 DEF LedNotes, IsLed
<1>3. LastLed(Append(d, m), cached) = m.val
  BY <1>1, <1>2, LastLedIs
<1>4. QED
  BY <1>2, <1>3 DEF HasLast

LEMMA AppendNotLedNotes ==
    ASSUME NEW d \in Seq(Message), NEW m \in Message, ~IsLed(m)
    PROVE  LedNotes(Append(d, m)) = LedNotes(d)
<1>1. /\ DOMAIN d = 1 .. Len(d) /\ DOMAIN Append(d, m) = 1 .. Len(d) + 1 /\ Len(d) \in Nat
      /\ \A k \in 1 .. Len(d) : Append(d, m)[k] = d[k]
      /\ Append(d, m)[Len(d) + 1] = m
  OBVIOUS
<1>2. QED
  BY <1>1 DEF LedNotes, IsLed

LEMMA AppendNotLed ==
    ASSUME NEW d \in Seq(Message), NEW m \in Message, ~IsLed(m), NEW cached, HasLast(d)
    PROVE  HasLast(Append(d, m)) /\ LastLed(Append(d, m), cached) = LastLed(d, cached)
<1>1. /\ DOMAIN d = 1 .. Len(d) /\ DOMAIN Append(d, m) = 1 .. Len(d) + 1 /\ Len(d) \in Nat
      /\ \A k \in 1 .. Len(d) : Append(d, m)[k] = d[k]
      /\ Append(d, m)[Len(d) + 1] = m
      /\ Append(d, m) \in Seq(Message)
  OBVIOUS
<1>2. LedNotes(Append(d, m)) = LedNotes(d)
  BY AppendNotLedNotes
<1>3. CASE LedNotes(d) = {}
  BY <1>2, <1>3 DEF HasLast, LastLed
<1>4. CASE LedNotes(d) # {}
  <2>1. PICK k \in LedNotes(d) : \A l \in LedNotes(d) : l <= k
    BY <1>4 DEF HasLast
  <2>2. LastLed(d, cached) = d[k].val
    BY <2>1, LastLedIs
  <2>3. LastLed(Append(d, m), cached) = Append(d, m)[k].val
    BY <1>1, <1>2, <2>1, LastLedIs
  <2>4. Append(d, m)[k] = d[k]
    BY <1>1, <2>1 DEF LedNotes
  <2>5. QED
    BY <1>2, <2>1, <2>2, <2>3, <2>4 DEF HasLast
<1>5. QED
  BY <1>3, <1>4

\* The first message arrives; if it is of the LED, its value is cached.
LEMMA TailLast ==
    ASSUME NEW d \in Seq(Message), d # <<>>, HasLast(d), NEW cached, NEW next,
           next = IF IsLed(Head(d)) THEN Head(d).val ELSE cached
    PROVE  /\ HasLast(Tail(d)) /\ LastLed(Tail(d), next) = LastLed(d, cached)
           /\ LedNotes(Tail(d)) # {} => LedNotes(d) # {}
<1>1. /\ DOMAIN d = 1 .. Len(d) /\ Len(d) \in Nat /\ Len(d) >= 1 /\ Head(d) = d[1]
      /\ DOMAIN Tail(d) = 1 .. Len(d) - 1 /\ Tail(d) \in Seq(Message)
      /\ \A k \in 1 .. Len(d) - 1 : Tail(d)[k] = d[k + 1]
  OBVIOUS
<1>2. \A k \in LedNotes(Tail(d)) : k + 1 \in LedNotes(d) /\ k \in Int
  BY <1>1 DEF LedNotes
<1>3. \A k \in LedNotes(d) : k = 1 \/ (k - 1 \in LedNotes(Tail(d)) /\ Tail(d)[k - 1] = d[k])
  <2>1. ASSUME NEW k \in LedNotes(d), k # 1
        PROVE  k - 1 \in 1 .. Len(d) - 1 /\ (k - 1) + 1 = k
    BY <1>1, <2>1 DEF LedNotes
  <2>2. \A k \in LedNotes(d) : k # 1 => Tail(d)[k - 1] = d[k] /\ k - 1 \in DOMAIN Tail(d)
    BY <1>1, <2>1
  <2>3. QED
    BY <2>2 DEF LedNotes
<1>4. LedNotes(d) \subseteq Int
  BY DEF LedNotes
<1>5. 1 \in LedNotes(d) <=> IsLed(Head(d))
  BY <1>1 DEF LedNotes, IsLed
<1>6. CASE LedNotes(d) = {}
  <2>1. LedNotes(Tail(d)) = {}
    BY <1>2, <1>6
  <2>2. QED
    BY <1>5, <1>6, <2>1 DEF HasLast, LastLed
<1>7. CASE LedNotes(d) # {}
  <2>1. PICK k \in LedNotes(d) : \A l \in LedNotes(d) : l <= k
    BY <1>7 DEF HasLast
  <2>2. LastLed(d, cached) = d[k].val
    BY <2>1, LastLedIs
  <2>3. CASE k = 1
    <3>1. LedNotes(Tail(d)) = {}
      <4>1. \A j \in LedNotes(Tail(d)) : j \in DOMAIN Tail(d) /\ j + 1 <= 1
        BY <1>2, <2>1, <2>3 DEF LedNotes
      <4>2. QED
        BY <1>1, <4>1
    <3>2. QED
      BY <1>1, <1>5, <2>1, <2>2, <2>3, <3>1, <1>7 DEF HasLast, LastLed
  <2>4. CASE k # 1
    <3>1. k - 1 \in LedNotes(Tail(d)) /\ Tail(d)[k - 1] = d[k]
      BY <1>3, <2>4
    <3>2. \A l \in LedNotes(Tail(d)) : l <= k - 1
      BY <1>2, <1>4, <2>1
    <3>3. LastLed(Tail(d), next) = Tail(d)[k - 1].val
      BY <1>1, <3>1, <3>2, LastLedIs
    <3>4. QED
      BY <1>7, <2>2, <3>1, <3>2, <3>3 DEF HasLast
  <2>5. QED
    BY <2>3, <2>4
<1>8. QED
  BY <1>6, <1>7

------------------------------------------------------------------------------
\* Responses

Responses(d) == {k \in DOMAIN d : d[k].kind = "response"}

\* The one response on its way is to the first request, which is in flight.
Answers(d, q, inFlight) ==
    \A k \in Responses(d) :
        /\ inFlight /\ q # <<>>
        /\ \A l \in Responses(d) : l = k
        /\ Head(q).op = "discover" => (d[k].found <=> Head(q).of \in Offers)

LEMMA AppendNote ==
    ASSUME NEW d \in Seq(Message), NEW m \in Message, m.kind = "notification",
           NEW q, NEW inFlight, Answers(d, q, inFlight)
    PROVE  Answers(Append(d, m), q, inFlight) /\ Responses(Append(d, m)) = Responses(d)
<1>1. /\ DOMAIN d = 1 .. Len(d) /\ DOMAIN Append(d, m) = 1 .. Len(d) + 1 /\ Len(d) \in Nat
      /\ \A k \in 1 .. Len(d) : Append(d, m)[k] = d[k]
      /\ Append(d, m)[Len(d) + 1] = m
  OBVIOUS
<1>2. Responses(Append(d, m)) = Responses(d)
  BY <1>1 DEF Responses
<1>3. \A k \in Responses(d) : Append(d, m)[k] = d[k]
  BY <1>1 DEF Responses
<1>4. QED
  BY <1>2, <1>3 DEF Answers

LEMMA AppendResponse ==
    ASSUME NEW d \in Seq(Message), NEW m \in Message, m.kind = "response", Responses(d) = {},
           NEW q, q # <<>>, Head(q).op = "discover" => (m.found <=> Head(q).of \in Offers)
    PROVE  Answers(Append(d, m), q, TRUE)
<1>1. /\ DOMAIN d = 1 .. Len(d) /\ DOMAIN Append(d, m) = 1 .. Len(d) + 1 /\ Len(d) \in Nat
      /\ \A k \in 1 .. Len(d) : Append(d, m)[k] = d[k]
      /\ Append(d, m)[Len(d) + 1] = m
  OBVIOUS
<1>2. Responses(Append(d, m)) = {Len(d) + 1}
  BY <1>1 DEF Responses
<1>3. QED
  BY <1>1, <1>2 DEF Answers

LEMMA TailAnswers ==
    ASSUME NEW d \in Seq(Message), d # <<>>, NEW q, NEW inFlight, Answers(d, q, inFlight)
    PROVE  /\ Head(d).kind = "response" =>
                /\ Responses(Tail(d)) = {} /\ inFlight /\ q # <<>>
                /\ Head(q).op = "discover" => (Head(d).found <=> Head(q).of \in Offers)
           /\ Answers(Tail(d), q, inFlight)
<1>1. /\ DOMAIN d = 1 .. Len(d) /\ Len(d) \in Nat /\ Len(d) >= 1 /\ Head(d) = d[1]
      /\ DOMAIN Tail(d) = 1 .. Len(d) - 1
      /\ \A k \in 1 .. Len(d) - 1 : Tail(d)[k] = d[k + 1]
  OBVIOUS
<1>2. \A k \in Responses(Tail(d)) : /\ k + 1 \in Responses(d) /\ k + 1 # 1 /\ k \in Int
                                    /\ Tail(d)[k] = d[k + 1]
  BY <1>1 DEF Responses
<1>3. Head(d).kind = "response" => 1 \in Responses(d)
  BY <1>1 DEF Responses
<1>4. Answers(Tail(d), q, inFlight)
  <2> SUFFICES ASSUME NEW k \in Responses(Tail(d))
               PROVE  /\ inFlight /\ q # <<>>
                      /\ \A l \in Responses(Tail(d)) : l = k
                      /\ Head(q).op = "discover" => (Tail(d)[k].found <=> Head(q).of \in Offers)
    BY DEF Answers
  <2>1. \A l \in Responses(Tail(d)) : l + 1 = k + 1
    BY <1>2 DEF Answers
  <2>2. \A l \in Responses(Tail(d)) : l = k
    BY <1>2, <2>1
  <2>3. QED
    BY <1>2, <2>2 DEF Answers
<1>5. QED
  BY <1>1, <1>2, <1>3, <1>4 DEF Answers

LEMMA PrefixAnswers ==
    ASSUME NEW d \in Seq(Message), NEW n \in 0 .. Len(d), NEW q, NEW inFlight,
           Answers(d, q, inFlight)
    PROVE  Answers(SubSeq(d, 1, n), q, inFlight) /\ SubSeq(d, 1, n) \in Seq(Message)
           /\ \A k \in DOMAIN SubSeq(d, 1, n) : k \in DOMAIN d /\ SubSeq(d, 1, n)[k] = d[k]
<1>1. /\ DOMAIN d = 1 .. Len(d) /\ Len(d) \in Nat
      /\ DOMAIN SubSeq(d, 1, n) = 1 .. n /\ SubSeq(d, 1, n) \in Seq(Message)
      /\ \A k \in 1 .. n : SubSeq(d, 1, n)[k] = d[k]
  OBVIOUS
<1>2. \A k \in DOMAIN SubSeq(d, 1, n) : k \in DOMAIN d /\ SubSeq(d, 1, n)[k] = d[k]
  BY <1>1
<1>3. \A k \in Responses(SubSeq(d, 1, n)) : k \in Responses(d) /\ SubSeq(d, 1, n)[k] = d[k]
  BY <1>2 DEF Responses
<1>4. QED
  BY <1>1, <1>2, <1>3 DEF Answers

------------------------------------------------------------------------------
\* Notifications

\* What the sensor notifies is subscribed to.
Heeded(d, s) == \A k \in DOMAIN d : d[k].kind = "notification" => s[d[k].of] = "active"

LEMMA AppendHeeded ==
    ASSUME NEW d \in Seq(Message), NEW m \in Message, NEW s, Heeded(d, s),
           m.kind = "notification" => s[m.of] = "active"
    PROVE  Heeded(Append(d, m), s)
<1>1. /\ DOMAIN d = 1 .. Len(d) /\ DOMAIN Append(d, m) = 1 .. Len(d) + 1 /\ Len(d) \in Nat
      /\ \A k \in 1 .. Len(d) : Append(d, m)[k] = d[k]
      /\ Append(d, m)[Len(d) + 1] = m
  OBVIOUS
<1>2. \A k \in DOMAIN Append(d, m) :
        Append(d, m)[k] = m \/ (k \in DOMAIN d /\ Append(d, m)[k] = d[k])
  BY <1>1
<1>3. QED
  BY <1>2 DEF Heeded

LEMMA TailHeeded ==
    ASSUME NEW d \in Seq(Message), d # <<>>, NEW s, Heeded(d, s)
    PROVE  Heeded(Tail(d), s) /\ (Head(d).kind = "notification" => s[Head(d).of] = "active")
<1>1. /\ DOMAIN d = 1 .. Len(d) /\ Len(d) \in Nat /\ Len(d) >= 1 /\ Head(d) = d[1]
      /\ DOMAIN Tail(d) = 1 .. Len(d) - 1
      /\ \A k \in 1 .. Len(d) - 1 : Tail(d)[k] = d[k + 1]
  OBVIOUS
<1>2. 1 \in DOMAIN d /\ \A k \in DOMAIN Tail(d) : k + 1 \in DOMAIN d /\ Tail(d)[k] = d[k + 1]
  BY <1>1
<1>3. QED
  BY <1>1, <1>2 DEF Heeded

------------------------------------------------------------------------------
(***************************************************************************)
(* The inductive invariant.  DiscoveryInOrder alone is not inductive: that *)
(* a response finds its procedure as it left it takes Exchange (responses  *)
(* answer the first request) and Ordered (a procedure that is subscribed   *)
(* has no request left).  That no notification is dropped takes            *)
(* Subscribed (the sensor notifies what the relay is subscribed to), and   *)
(* only with it does the last one sent stay the LED's value (LedSent).     *)
(***************************************************************************)
TrafficTypes ==
    /\ discover \in [Chars -> Stages]
    /\ sub \in [Chars -> {"none", "handle", "active"}]
    /\ attq \in Seq(Request) /\ Len(attq) <= ReqSlots
    /\ temp_val \in Temps \cup {0}
    /\ led_status \in Leds
    /\ served \in BOOLEAN /\ joined \in BOOLEAN /\ dirty \in BOOLEAN /\ heard \in BOOLEAN
    /\ downlink \in Seq(Message)
    /\ ccc \subseteq Chars
    /\ lamp \in Leds

Ordered == \A i \in Chars : InOrder(attq, i, discover[i], sub[i])

Sought == SensorUp => \A i \in Offers : sub[i] = "active" \/ Asks(attq, i) # {}

Exchange ==
    /\ served => attq # <<>> /\ SensorUp
    /\ heard => SensorUp
    /\ Answers(downlink, attq, served)

Subscribed ==
    /\ \A i \in ccc : sub[i] = "active"
    /\ Heeded(downlink, sub)
    /\ joined \/ (ccc = {} /\ ~dirty)
    /\ dirty => "led" \in ccc
    /\ joined /\ (heard \/ LedNotes(downlink) # {}) => "led" \in ccc

LedSent ==
    joined => /\ HasLast(downlink)
              /\ LastSent # NULL => LastSent = lamp \/ dirty

TrafficIInv ==
    /\ TrafficTypes
    /\ Ordered /\ Sought
    /\ Exchange
    /\ Subscribed /\ LedSent

\* What leaves the sensor, its link and its requests alone preserves it.
LEMMA TrafficFrame ==
  ASSUME TrafficIInv, SensorUp' <=> SensorUp,
         UNCHANGED <<discover, sub, attq, temp_val, led_status, sensorVars>>
  PROVE  TrafficIInv'
<1>1. TrafficTypes'
  BY DEF TrafficIInv, TrafficTypes, sensorVars
<1>2. Ordered' /\ Sought'
  BY DEF TrafficIInv, Ordered, Sought
<1>3. Exchange'
  BY DEF TrafficIInv, Exchange, sensorVars
<1>4. Subscribed'
  BY DEF TrafficIInv, Subscribed, sensorVars
<1>5. LedSent'
  BY DEF TrafficIInv, LedSent, LastSent, sensorVars
<1>6. QED
  BY <1>1, <1>2, <1>3, <1>4, <1>5 DEF TrafficIInv

\* With the sensor's end gone and nothing on its way, the sensor's side is clear.
LEMMA SensorSideClear ==
  ASSUME TrafficIInv, LinkIInv, ~SensorUp
  PROVE  ~served /\ ~heard /\ ~joined /\ downlink = <<>> /\ ccc = {} /\ ~dirty
  BY DEF TrafficIInv, TrafficTypes, Exchange, Subscribed, LinkIInv

\* An empty queue and an empty downlink are in order.
LEMMA NothingPending ==
  /\ \A i \in Chars : \A stage, subscribed : InOrder(<<>>, i, stage, subscribed)
  /\ \A q, inFlight : Answers(<<>>, q, inFlight)
  /\ LedNotes(<<>>) = {} /\ HasLast(<<>>)
  /\ <<>> \in Seq(Request) /\ <<>> \in Seq(Message) /\ Len(<<>>) = 0 /\ DOMAIN <<>> = {}
<1>1. DOMAIN <<>> = {} /\ Len(<<>>) = 0
  OBVIOUS
<1>2. <<>> \in Seq(Request) /\ <<>> \in Seq(Message)
  OBVIOUS
<1>3. QED
  BY <1>1, <1>2 DEF InOrder, Asks, Answers, Responses, LedNotes, HasLast

\* The initial state, and the reset relay, satisfy it.
LEMMA TrafficClear ==
  ASSUME ~SensorUp, discover = [i \in Chars |-> "zero"], sub = [i \in Chars |-> "none"],
         attq = <<>>, temp_val = 0, led_status = 0, served = FALSE, downlink = <<>>,
         joined = FALSE, ccc = {}, dirty = FALSE, lamp \in Leds, heard = FALSE
  PROVE  TrafficIInv
<1>1. TrafficTypes
  <2>1. attq \in Seq(Request) /\ Len(attq) <= ReqSlots /\ downlink \in Seq(Message)
    BY NothingPending, GattAssumption
  <2>2. QED
    BY <2>1 DEF TrafficTypes, Stages, Leds
<1>2. Ordered /\ Sought
  BY NothingPending DEF Ordered, Sought
<1>3. Exchange /\ Subscribed /\ LedSent
  BY NothingPending DEF Exchange, Subscribed, Heeded, LedSent
<1>4. QED
  BY <1>1, <1>2, <1>3 DEF TrafficIInv

------------------------------------------------------------------------------
\* Connection events

\* gatt_discover() finds an empty list, and starts both procedures in order.
LEMMA TrafficConnected ==
  ASSUME ConnIInv, LinkIInv, TrafficIInv, NEW c \in Conns, SensorConnected(c)
  PROVE  TrafficIInv'
<1> DEFINE q1 == Append(<<>>, Discover("temp", "service"))
           q2 == Append(q1, Discover("led", "service"))
<1>1. c = central_conn /\ link[c] = "init"
  BY RefCount DEF SensorConnected, ConnectedCentral
<1>2. ~SensorUp /\ attq = <<>> /\ \A i \in Chars : sub[i] # "active"
  BY <1>1 DEF SensorUp, LinkIInv, NothingOutlivesLink
<1>3. ~served /\ ~heard /\ ~joined /\ downlink = <<>> /\ ccc = {} /\ ~dirty
  BY <1>2, SensorSideClear
<1>4. /\ Discover("temp", "service") \in Request /\ Discover("led", "service") \in Request
      /\ "temp" \in Chars /\ "led" \in Chars /\ "service" \in Stages \ {"zero"}
      /\ Discover("temp", "service").op = "discover" /\ Discover("temp", "service").of = "temp"
      /\ Discover("led", "service").op = "discover" /\ Discover("led", "service").of = "led"
      /\ \A i \in Chars : Discover("led", "service") # Subscribe(i)
  BY RequestFacts DEF Chars, Stages
<1>5. q1 \in Seq(Request) /\ Len(q1) = 1 /\ q2 \in Seq(Request) /\ Len(q2) = 2
      /\ q1[1] = Discover("temp", "service") /\ DOMAIN q1 = 1 .. 1
  BY <1>4
<1>6. attq' = q2 /\ discover' = [i \in Chars |-> "service"]
  BY <1>2, <1>5, GattAssumption DEF SensorConnected, Queued
<1>7. /\ UNCHANGED <<sub, temp_val, led_status, served, downlink, ccc, dirty, lamp, heard>>
      /\ joined' \in BOOLEAN
  BY DEF SensorConnected
<1>8. /\ InOrder(q1, "temp", "service", sub["temp"]) /\ Asks(q1, "temp") # {}
  <2>1. Asks(<<>>, "temp") = {} /\ <<>> \in Seq(Request)
    BY NothingPending DEF Asks
  <2>2. \A k \in DOMAIN <<>> : <<>>[k] # Subscribe("temp")
    BY NothingPending
  <2>3. QED
    BY <1>2, <1>4, <2>1, <2>2, AppendAsk
<1>9. Asks(q1, "led") = {} /\ \A k \in DOMAIN q1 : q1[k] # Subscribe("led")
  BY <1>4, <1>5, RequestFacts DEF Asks
<1> HIDE DEF q1
<1>10. InOrder(q2, "led", "service", sub["led"]) /\ Asks(q2, "led") # {}
  BY <1>2, <1>4, <1>5, <1>9, AppendAsk
<1>11. InOrder(q2, "temp", "service", sub["temp"]) /\ Asks(q2, "temp") # {}
  BY <1>2, <1>4, <1>5, <1>8, AppendAside
<1> HIDE DEF q2
<1>12. TrafficTypes'
  <2>1. attq' \in Seq(Request) /\ Len(attq') <= ReqSlots
    <3>1. ReqSlots >= 2
      BY GattAssumption
    <3>2. q2 \in Seq(Request) /\ Len(q2) = 2 /\ attq' = q2
      BY <1>5, <1>6
    <3>3. QED
      BY <3>1, <3>2
  <2>2. discover' \in [Chars -> Stages]
    BY <1>6 DEF Stages
  <2>3. /\ served \in BOOLEAN /\ dirty \in BOOLEAN /\ heard \in BOOLEAN
        /\ sub \in [Chars -> {"none", "handle", "active"}]
        /\ temp_val \in Temps \cup {0} /\ led_status \in Leds /\ lamp \in Leds
        /\ downlink \in Seq(Message) /\ ccc \subseteq Chars
    BY DEF TrafficTypes, TrafficIInv
  <2>4. /\ served' \in BOOLEAN /\ dirty' \in BOOLEAN /\ heard' \in BOOLEAN
        /\ sub' \in [Chars -> {"none", "handle", "active"}]
        /\ temp_val' \in Temps \cup {0} /\ led_status' \in Leds /\ lamp' \in Leds
        /\ downlink' \in Seq(Message) /\ ccc' \subseteq Chars
    BY <1>7, <2>3
  <2>5. QED
    BY <1>7, <2>1, <2>2, <2>4, Zenon DEF TrafficTypes
<1>13. Ordered' /\ Sought'
  BY <1>6, <1>7, <1>10, <1>11, GattAssumption DEF Ordered, Sought, Chars
<1>14. Exchange' /\ Subscribed' /\ LedSent'
  <2>1. ~served' /\ ~heard' /\ downlink' = <<>> /\ ccc' = {} /\ ~dirty'
    BY <1>3, <1>7
  <2>2. LastSent' = NULL
    BY <2>1, NothingPending DEF LastSent, LastLed
  <2>3. DOMAIN <<>> = {}
    OBVIOUS
  <2>4. QED
    BY <2>1, <2>2, <2>3, NothingPending DEF Exchange, Subscribed, Heeded, LedSent
<1>15. QED
  BY <1>12, <1>13, <1>14 DEF TrafficIInv

\* The relay's end of the link is lost: nothing more arrives on it.
LEMMA TrafficLost ==
  ASSUME ConnIInv, TrafficIInv, NEW c \in Conns, SensorLost(c)
  PROVE  TrafficIInv'
<1>1. /\ downlink' = <<>> /\ served' = FALSE /\ joined' = FALSE /\ ccc' = {}
      /\ dirty' = FALSE /\ heard' = FALSE
      /\ UNCHANGED <<discover, sub, attq, temp_val, led_status, lamp>>
  BY DEF SensorLost, relayVars
<1>2. ~SensorUp'
  BY DEF SensorLost, LinkLost, SensorUp, ConnIInv, ConnTypeOK
<1>3. TrafficTypes'
  BY <1>1, NothingPending DEF TrafficTypes, TrafficIInv
<1>4. Ordered' /\ Sought'
  BY <1>1, <1>2 DEF Ordered, Sought, TrafficIInv
<1>5. DOMAIN <<>> = {}
  OBVIOUS
<1>6. Exchange' /\ Subscribed' /\ LedSent'
  BY <1>1, <1>5, NothingPending DEF Exchange, Subscribed, Heeded, LedSent
<1>7. QED
  BY <1>3, <1>4, <1>6 DEF TrafficIInv

\* disconnected() and a reset: the relay's lists are empty, as is the sensor's side.
LEMMA TrafficDropped ==
  ASSUME ConnIInv, LinkIInv, TrafficIInv, ~SensorUp, ~SensorUp', UNCHANGED sensorVars,
         attq' = <<>>, discover' \in [Chars -> Stages],
         sub' \in [Chars -> {"none", "handle", "active"}],
         temp_val' \in Temps \cup {0}, led_status' \in Leds
  PROVE  TrafficIInv'
<1>1. ~served /\ ~heard /\ ~joined /\ downlink = <<>> /\ ccc = {} /\ ~dirty
  BY SensorSideClear
<1>2. ~served' /\ ~heard' /\ ~joined' /\ downlink' = <<>> /\ ccc' = {} /\ ~dirty'
  BY <1>1 DEF sensorVars
<1>3. TrafficTypes'
  <2>1. <<>> \in Seq(Request) /\ Len(<<>>) = 0
    OBVIOUS
  <2>2. QED
    BY <2>1, GattAssumption DEF TrafficTypes, TrafficIInv, sensorVars
<1>4. Ordered' /\ Sought'
  BY NothingPending DEF Ordered, Sought
<1>5. DOMAIN <<>> = {}
  OBVIOUS
<1>6. Exchange' /\ Subscribed' /\ LedSent'
  BY <1>2, <1>5, NothingPending DEF Exchange, Subscribed, Heeded, LedSent
<1>7. QED
  BY <1>3, <1>4, <1>6 DEF TrafficIInv

LEMMA TrafficDisconnected ==
  ASSUME ConnIInv, LinkIInv, TrafficIInv, NEW c \in Conns,
         SensorDisconnected(c) \/ PhoneFatal(c)
  PROVE  TrafficIInv'
<1>1. CASE SensorDisconnected(c)
  <2>1. c = central_conn /\ link[c] = "down" /\ central_conn' = NULL
    BY <1>1 DEF SensorDisconnected, Disconnected
  <2>2. ~SensorUp /\ ~SensorUp'
    BY <2>1 DEF SensorUp
  <2>3. attq' = <<>> /\ UNCHANGED <<temp_val, led_status>> /\ UNCHANGED sensorVars
    BY <1>1 DEF SensorDisconnected
  <2>4. discover' \in [Chars -> Stages] /\ sub' \in [Chars -> {"none", "handle", "active"}]
    BY <1>1 DEF SensorDisconnected, TrafficIInv, TrafficTypes, Stages
  <2>5. QED
    BY <2>2, <2>3, <2>4, TrafficDropped DEF TrafficIInv, TrafficTypes
<1>2. CASE PhoneFatal(c)
  <2>1. ~SensorUp /\ ~SensorUp'
    BY <1>2 DEF PhoneFatal, FatalAccess, Reset, SensorUp
  <2>2. /\ attq' = <<>> /\ UNCHANGED sensorVars
        /\ discover' \in [Chars -> Stages] /\ sub' \in [Chars -> {"none", "handle", "active"}]
        /\ temp_val' \in Temps \cup {0} /\ led_status' \in Leds
    BY <1>2 DEF PhoneFatal, Stages, Leds
  <2>3. QED
    BY <2>1, <2>2, TrafficDropped
<1>3. QED
  BY <1>1, <1>2

------------------------------------------------------------------------------
\* Requests

\* A request that is not of a procedure keeps both in order.
LEMMA QueueAside ==
  ASSUME NEW q \in Seq(Request), Len(q) <= ReqSlots, NEW r \in Request,
         r.op \notin {"discover", "subscribe"}, NEW i \in Chars, NEW stage, NEW subscribed,
         InOrder(q, i, stage, subscribed)
  PROVE  /\ InOrder(Queued(q, r), i, stage, subscribed)
         /\ Asks(q, i) # {} => Asks(Queued(q, r), i) # {}
<1>1. r # Subscribe(i)
  BY RequestFacts
<1>2. /\ InOrder(Append(q, r), i, stage, subscribed)
      /\ Asks(q, i) # {} => Asks(Append(q, r), i) # {}
  BY <1>1, AppendAside
<1>3. Queued(q, r) = q \/ Queued(q, r) = Append(q, r)
  BY QueuedTypes
<1>4. QED
  BY <1>2, <1>3

\* The request in flight stays the first one.
LEMMA QueueAnswers ==
  ASSUME NEW q \in Seq(Request), Len(q) <= ReqSlots, NEW r \in Request,
         NEW d, NEW inFlight, Answers(d, q, inFlight)
  PROVE  /\ Answers(d, Queued(q, r), inFlight)
         /\ q # <<>> => Queued(q, r) # <<>>
<1>1. Append(q, r) # <<>> /\ (q # <<>> => Head(Append(q, r)) = Head(q))
  OBVIOUS
<1>2. Queued(q, r) = q \/ Queued(q, r) = Append(q, r)
  BY QueuedTypes
<1>3. Answers(d, Append(q, r), inFlight)
  BY <1>1 DEF Answers
<1>4. QED
  BY <1>1, <1>2, <1>3

\* read_temp() and write_led() queue a request behind the others.
LEMMA TrafficForward ==
  ASSUME TrafficIInv, NEW r \in Request, r.op \notin {"discover", "subscribe"}, Forward(r)
  PROVE  TrafficIInv'
<1>1. UNCHANGED <<central_conn, link, discover, sub, temp_val, led_status>>
      /\ UNCHANGED sensorVars
  BY DEF Forward, connVars
<1>2. SensorUp' <=> SensorUp
  BY <1>1 DEF SensorUp
<1>3. CASE attq' = attq
  BY <1>1, <1>2, <1>3, TrafficFrame
<1>4. CASE attq' = Queued(attq, r)
  <2>0. attq \in Seq(Request) /\ Len(attq) <= ReqSlots
    BY DEF TrafficIInv, TrafficTypes
  <2>1. attq' \in Seq(Request) /\ Len(attq') <= ReqSlots
    BY <1>4, <2>0, QueuedTypes
  <2>2. \A i \in Chars : /\ InOrder(attq', i, discover[i], sub[i])
                         /\ Asks(attq, i) # {} => Asks(attq', i) # {}
    BY <1>4, <2>0, QueueAside DEF TrafficIInv, Ordered
  <2>3. Answers(downlink, attq', served) /\ (attq # <<>> => attq' # <<>>)
    BY <1>4, <2>0, QueueAnswers DEF TrafficIInv, Exchange
  <2>4. TrafficTypes'
    BY <1>1, <2>1 DEF TrafficIInv, TrafficTypes, sensorVars
  <2>5. Ordered' /\ Sought'
    BY <1>1, <1>2, <2>2, GattAssumption DEF TrafficIInv, Ordered, Sought
  <2>6. Exchange'
    BY <1>1, <1>2, <2>3 DEF TrafficIInv, Exchange, sensorVars
  <2>7. Subscribed'
    BY <1>1 DEF TrafficIInv, Subscribed, sensorVars
  <2>8. LedSent'
    BY <1>1 DEF TrafficIInv, LedSent, LastSent, sensorVars
  <2>9. QED
    BY <2>4, <2>5, <2>6, <2>7, <2>8 DEF TrafficIInv
<1>5. QED
  BY <1>3, <1>4 DEF Forward

------------------------------------------------------------------------------
\* The sensor

\* Its end of the link is gone: what is on its way is cut short.
LEMMA TrafficGone ==
  ASSUME TrafficIInv, SensorGone
  PROVE  TrafficIInv'
<1>1. /\ joined' = FALSE /\ ccc' = {} /\ dirty' = FALSE /\ lamp' \in Leds
      /\ UNCHANGED <<central_conn, link, discover, sub, attq, temp_val, led_status,
                     served, heard>>
  BY DEF SensorGone, connVars, relayVars
<1>2. downlink \in Seq(Message) /\ Answers(downlink, attq, served)
  BY DEF TrafficIInv, TrafficTypes, Exchange
<1>3. PICK n \in 0 .. Len(downlink) : downlink' = SubSeq(downlink, 1, n)
  BY DEF SensorGone
<1>4. /\ downlink' \in Seq(Message) /\ Answers(downlink', attq, served)
      /\ \A k \in DOMAIN downlink' : k \in DOMAIN downlink /\ downlink'[k] = downlink[k]
  BY <1>2, <1>3, PrefixAnswers
<1>5. SensorUp' <=> SensorUp
  BY <1>1 DEF SensorUp
<1>6. TrafficTypes'
  BY <1>1, <1>4 DEF TrafficIInv, TrafficTypes
<1>7. Ordered' /\ Sought'
  BY <1>1, <1>5 DEF TrafficIInv, Ordered, Sought
<1>8. Exchange'
  BY <1>1, <1>4, <1>5 DEF TrafficIInv, Exchange
<1>9. Subscribed' /\ LedSent'
  BY <1>1, <1>4 DEF TrafficIInv, Subscribed, Heeded, LedSent
<1>10. QED
  BY <1>6, <1>7, <1>8, <1>9 DEF TrafficIInv

\* Its LED changes while it has no end of the link.
LEMMA TrafficElsewhere ==
  ASSUME TrafficIInv, LampElsewhere
  PROVE  TrafficIInv'
<1>1. /\ ~joined /\ lamp' \in Leds
      /\ UNCHANGED <<central_conn, link, discover, sub, attq, temp_val, led_status,
                     served, downlink, joined, ccc, dirty, heard>>
  BY DEF LampElsewhere, connVars, relayVars
<1>2. SensorUp' <=> SensorUp
  BY <1>1 DEF SensorUp
<1>3. TrafficTypes' /\ Ordered' /\ Sought'
  <2>1. TrafficTypes'
    BY <1>1 DEF TrafficIInv, TrafficTypes
  <2>2. Ordered' /\ Sought'
    BY <1>1, <1>2 DEF TrafficIInv, Ordered, Sought
  <2>3. QED
    BY <2>1, <2>2
<1>4. Exchange' /\ Subscribed' /\ LedSent'
  <2>1. Exchange'
    BY <1>1, <1>2 DEF TrafficIInv, Exchange
  <2>2. Subscribed' /\ LedSent'
    BY <1>1 DEF TrafficIInv, Subscribed, LedSent
  <2>3. QED
    BY <2>1, <2>2
<1>5. QED
  BY <1>3, <1>4 DEF TrafficIInv

\* The notification of the LED is of the value it has as it is sent.
LEMMA TrafficNotifies ==
  ASSUME TrafficIInv, SensorNotifies
  PROVE  /\ TrafficIInv' /\ LastSent' = lamp /\ "led" \in ccc
<1> DEFINE m == Notification("led", lamp)
<1>1. /\ joined /\ dirty /\ dirty' = FALSE /\ downlink' = Append(downlink, m)
      /\ UNCHANGED <<central_conn, link, discover, sub, attq, temp_val, led_status,
                     served, joined, ccc, lamp, heard>>
  BY DEF SensorNotifies, connVars, relayVars
<1>2. m \in Message /\ m.kind = "notification" /\ m.of = "led" /\ m.val = lamp /\ IsLed(m)
  BY MessageFacts DEF TrafficIInv, TrafficTypes, IsLed
<1>3. downlink \in Seq(Message) /\ Answers(downlink, attq, served) /\ Heeded(downlink, sub)
  BY DEF TrafficIInv, TrafficTypes, Exchange, Subscribed
<1>4. "led" \in ccc /\ sub["led"] = "active"
  BY <1>1 DEF TrafficIInv, Subscribed
<1> HIDE DEF m
<1>5. downlink' \in Seq(Message)
  BY <1>1, <1>2, <1>3
<1>6. Answers(downlink', attq, served)
  BY <1>1, <1>2, <1>3, AppendNote
<1>7. Heeded(downlink', sub)
  BY <1>1, <1>2, <1>3, <1>4, AppendHeeded
<1>8. HasLast(downlink') /\ \A cached : LastLed(downlink', cached) = lamp
  BY <1>1, <1>2, <1>3, AppendLed
<1>9. SensorUp' <=> SensorUp
  BY <1>1 DEF SensorUp
<1>10. TrafficTypes'
  BY <1>1, <1>5 DEF TrafficIInv, TrafficTypes
<1>11. Ordered' /\ Sought'
  BY <1>1, <1>9 DEF TrafficIInv, Ordered, Sought
<1>12. Exchange'
  BY <1>1, <1>6, <1>9 DEF TrafficIInv, Exchange
<1>13. Subscribed'
  BY <1>1, <1>4, <1>7 DEF TrafficIInv, Subscribed
<1>14. LastSent' = lamp
  BY <1>1, <1>8 DEF LastSent
<1>15. LedSent'
  BY <1>1, <1>8, <1>14 DEF LedSent
<1>16. QED
  BY <1>4, <1>10, <1>11, <1>12, <1>13, <1>14, <1>15 DEF TrafficIInv

\* The answer says whether the sensor has what was looked for.
LEMMA AnswerFacts ==
  ASSUME NEW r \in Request
  PROVE  /\ Answer(r) \in Message /\ Answer(r).kind = "response"
         /\ r.op = "discover" => (Answer(r).found <=> r.of \in Offers)
<1>1. r.op \in {"discover", "subscribe", "read", "readmore", "write"}
  BY RequestParts
<1>2. \A f \in BOOLEAN : Response(f, 0) \in Message
  BY MessageFacts
<1>3. CASE r.op = "discover"
  <2>1. Answer(r) = Response(r.of \in Offers, 0)
    BY <1>3 DEF Answer
  <2>2. (r.of \in Offers) \in BOOLEAN
    OBVIOUS
  <2>3. Answer(r) \in Message
    BY <1>2, <2>1, <2>2, Zenon
  <2>4. Answer(r).kind = "response"
    BY <2>1 DEF Response
  <2>5. Answer(r).found = (r.of \in Offers)
    BY <2>1 DEF Response
  <2>6. QED
    BY <2>3, <2>4, <2>5
<1>4. CASE r.op # "discover"
  <2>1. \E f : Answer(r) = Response(f, 0) /\ f \in BOOLEAN
    <3>1. ("temp" \in Offers) \in BOOLEAN /\ ("led" \in Offers) \in BOOLEAN
          /\ TRUE \in BOOLEAN /\ FALSE \in BOOLEAN
      OBVIOUS
    <3>2. \/ Answer(r) = Response(TRUE, 0) \/ Answer(r) = Response(FALSE, 0)
          \/ Answer(r) = Response("temp" \in Offers, 0)
          \/ Answer(r) = Response("led" \in Offers, 0)
      BY <1>1, <1>4 DEF Answer
    <3>3. QED
      BY <3>1, <3>2, Zenon
  <2>2. QED
    BY <1>2, <1>4, <2>1 DEF Response
<1>5. QED
  BY <1>3, <1>4

\* A response, after the temperature's notification or not, leaves the LED's
\* notifications alone.
LEMMA ServedMessages ==
  ASSUME TrafficIInv, SensorServes
  PROVE  /\ downlink' \in Seq(Message)
         /\ Answers(downlink', attq, TRUE)
         /\ Heeded(downlink', sub)
         /\ HasLast(downlink) => HasLast(downlink')
         /\ LedNotes(downlink) # {} <=> LedNotes(downlink') # {}
         /\ HasLast(downlink) =>
              \A cached : LastLed(downlink', cached) = LastLed(downlink, cached)
<1> DEFINE r == Head(attq)
<1>1. /\ attq \in Seq(Request) /\ attq # <<>> /\ ~served /\ downlink \in Seq(Message)
      /\ Answers(downlink, attq, served) /\ Heeded(downlink, sub)
  BY DEF SensorServes, TrafficIInv, TrafficTypes, Exchange, Subscribed
<1>2. r \in Request /\ r = attq[1] /\ 1 \in DOMAIN attq
  BY <1>1
<1>3. Responses(downlink) = {}
  BY <1>1 DEF Answers
<1>4. \E e \in Seq(Message), m \in Message :
        /\ downlink' = Append(e, m) /\ m.kind = "response"
        /\ r.op = "discover" => (m.found <=> r.of \in Offers)
        /\ \/ e = downlink
           \/ /\ sub["temp"] = "active"
              /\ \E t \in Temps : e = Append(downlink, Notification("temp", t))
  <2>1. Answer(r) \in Message /\ Answer(r).kind = "response"
        /\ (r.op = "discover" => (Answer(r).found <=> r.of \in Offers))
    BY <1>2, AnswerFacts
  <2>2. ASSUME NEW t \in Temps, r.op = "subscribe", r.of = "temp",
               downlink' = Append(Append(downlink, Notification("temp", t)), Answer(r))
        PROVE  <1>4!:
    <3>1. sub["temp"] = "active"
      BY <1>2, <2>2, RequestParts DEF TrafficIInv, Ordered, InOrder, Chars
    <3>2. Append(downlink, Notification("temp", t)) \in Seq(Message)
      BY <1>1, MessageFacts
    <3>3. QED
      BY <2>1, <2>2, <3>1, <3>2
  <2>3. ASSUME NEW t \in Temps, r.op = "read", downlink' = Append(downlink, Response(TRUE, t))
        PROVE  <1>4!:
    BY <1>1, <2>3, MessageFacts
  <2>4. CASE downlink' = Append(downlink, Answer(r))
    BY <1>1, <2>1, <2>4
  <2>5. QED
    BY <2>2, <2>3, <2>4 DEF SensorServes
<1> HIDE DEF r
<1>5. PICK e \in Seq(Message), m \in Message :
        /\ downlink' = Append(e, m) /\ m.kind = "response"
        /\ r.op = "discover" => (m.found <=> r.of \in Offers)
        /\ \/ e = downlink
           \/ /\ sub["temp"] = "active"
              /\ \E t \in Temps : e = Append(downlink, Notification("temp", t))
  BY <1>4
<1>6. /\ Responses(e) = {} /\ Heeded(e, sub)
      /\ HasLast(downlink) => HasLast(e)
      /\ LedNotes(downlink) # {} <=> LedNotes(e) # {}
      /\ HasLast(downlink) => \A cached : LastLed(e, cached) = LastLed(downlink, cached)
  <2>1. CASE e = downlink
    BY <1>1, <1>3, <2>1
  <2>2. ASSUME NEW t \in Temps, e = Append(downlink, Notification("temp", t)),
               sub["temp"] = "active"
        PROVE  <1>6!:
    <3> DEFINE n == Notification("temp", t)
    <3>1. n \in Message /\ n.kind = "notification" /\ n.of = "temp" /\ ~IsLed(n)
      BY MessageFacts DEF IsLed
    <3> HIDE DEF n
    <3>2. e = Append(downlink, n)
      BY <2>2 DEF n
    <3>3. Responses(e) = {}
      BY <1>1, <1>3, <3>1, <3>2, AppendNote
    <3>4. Heeded(e, sub)
      BY <1>1, <2>2, <3>1, <3>2, AppendHeeded
    <3>5. LedNotes(e) = LedNotes(downlink)
      BY <1>1, <3>1, <3>2, AppendNotLedNotes
    <3>6. HasLast(downlink) =>
            HasLast(e) /\ \A cached : LastLed(e, cached) = LastLed(downlink, cached)
      BY <1>1, <3>1, <3>2, AppendNotLed
    <3>7. QED
      BY <3>3, <3>4, <3>5, <3>6
  <2>3. QED
    BY <1>5, <2>1, <2>2
<1>7. ~IsLed(m)
  BY <1>5 DEF IsLed
<1>8. downlink' \in Seq(Message)
  BY <1>5
<1>9. Answers(downlink', attq, TRUE)
  BY <1>1, <1>5, <1>6, AppendResponse DEF r
<1>10. Heeded(downlink', sub)
  BY <1>5, <1>6, AppendHeeded
<1>11. LedNotes(downlink') = LedNotes(e)
  BY <1>5, <1>7, AppendNotLedNotes
<1>12. HasLast(e) =>
         HasLast(downlink') /\ \A cached : LastLed(downlink', cached) = LastLed(e, cached)
  BY <1>5, <1>7, AppendNotLed
<1>13. QED
  BY <1>6, <1>8, <1>9, <1>10, <1>11, <1>12

\* A subscription takes effect at the sensor, a write makes a notification due.
LEMMA TrafficServes ==
  ASSUME TrafficIInv, LinkIInv, SensorServes
  PROVE  TrafficIInv' /\ LastSent' = LastSent
<1> DEFINE r == Head(attq)
<1>1. /\ joined /\ attq # <<>> /\ served' = TRUE
      /\ UNCHANGED <<central_conn, link, discover, sub, attq, temp_val, led_status,
                     joined, heard>>
  BY DEF SensorServes, connVars, relayVars
<1>2. /\ ccc' = IF r.op = "subscribe" THEN ccc \cup {r.of} ELSE ccc
      /\ IF r.op = "write" /\ "led" \in Offers
         THEN lamp' = r.val /\ dirty' = (dirty \/ "led" \in ccc)
         ELSE lamp' = lamp /\ dirty' = dirty
  BY DEF SensorServes
<1>3. /\ downlink' \in Seq(Message) /\ Answers(downlink', attq, TRUE)
      /\ Heeded(downlink', sub) /\ HasLast(downlink')
      /\ LedNotes(downlink) # {} <=> LedNotes(downlink') # {}
      /\ \A cached : LastLed(downlink', cached) = LastLed(downlink, cached)
  BY <1>1, ServedMessages DEF TrafficIInv, LedSent
<1>4. attq \in Seq(Request) /\ r \in Request /\ r = attq[1] /\ 1 \in DOMAIN attq
  BY <1>1 DEF TrafficIInv, TrafficTypes
<1>5. /\ r.op = "subscribe" => r.of \in Chars /\ sub[r.of] = "active"
      /\ r.op = "write" => r.val \in Leds
  BY <1>4, RequestParts DEF TrafficIInv, Ordered, InOrder
<1> HIDE DEF r
<1>6. SensorUp /\ SensorUp'
  BY <1>1 DEF LinkIInv, SensorUp
<1>7. LastSent' = LastSent
  BY <1>1, <1>3 DEF LastSent
<1>8. ccc \subseteq ccc' /\ \A i \in ccc' : sub[i] = "active"
  BY <1>2, <1>5 DEF TrafficIInv, Subscribed
<1>9. lamp' \in Leds /\ ccc' \subseteq Chars /\ dirty' \in BOOLEAN
  <2>1. lamp' \in Leds /\ ccc' \subseteq Chars
    BY <1>2, <1>5 DEF TrafficIInv, TrafficTypes
  <2>2. dirty' \in BOOLEAN
    BY <1>2 DEF TrafficIInv, TrafficTypes
  <2>3. QED
    BY <2>1, <2>2
<1>10. TrafficTypes'
  <2>1. /\ discover' \in [Chars -> Stages] /\ sub' \in [Chars -> {"none", "handle", "active"}]
        /\ attq' \in Seq(Request) /\ Len(attq') <= ReqSlots
        /\ temp_val' \in Temps \cup {0} /\ led_status' \in Leds
    BY <1>1 DEF TrafficIInv, TrafficTypes
  <2>2. joined' \in BOOLEAN /\ heard' \in BOOLEAN /\ served' \in BOOLEAN
    BY <1>1 DEF TrafficIInv, TrafficTypes
  <2>3. QED
    BY <1>3, <1>9, <2>1, <2>2, Zenon DEF TrafficTypes
<1>11. Ordered' /\ Sought'
  BY <1>1, <1>6 DEF TrafficIInv, Ordered, Sought
<1>12. Exchange'
  BY <1>1, <1>3, <1>6 DEF Exchange
<1>13. dirty' => "led" \in ccc'
  BY <1>2, <1>8 DEF TrafficIInv, Subscribed
<1>14. joined' /\ (heard' \/ LedNotes(downlink') # {}) => "led" \in ccc
  BY <1>1, <1>3 DEF TrafficIInv, Subscribed
<1>15. Subscribed'
  BY <1>1, <1>3, <1>8, <1>13, <1>14 DEF Subscribed
<1>16. LastSent # NULL => heard \/ LedNotes(downlink) # {}
  BY DEF LastSent, LastLed
<1>17. LastSent # NULL => LastSent = lamp' \/ dirty'
  <2>1. LastSent # NULL => (LastSent = lamp \/ dirty) /\ "led" \in ccc
    BY <1>1, <1>16 DEF TrafficIInv, LedSent, Subscribed
  <2>2. QED
    BY <1>2, <2>1
<1>18. LedSent'
  BY <1>3, <1>7, <1>17 DEF LedSent
<1>19. QED
  BY <1>7, <1>10, <1>11, <1>12, <1>15, <1>18 DEF TrafficIInv

------------------------------------------------------------------------------
\* Callbacks of the relay

\* A callback queues the next request r of procedure j; the other one keeps its.
LEMMA QueueNext ==
  ASSUME NEW q \in Seq(Request), Len(q) < ReqSlots, NEW j \in Chars, NEW r \in Request,
         \/ \E s \in Stages \ {"zero"} : r = Discover(j, s)
         \/ r = Subscribe(j),
         NEW i \in Chars, i # j, NEW stage, NEW subscribed,
         InOrder(q, i, stage, subscribed)
  PROVE  /\ Queued(q, r) \in Seq(Request) /\ Len(Queued(q, r)) <= ReqSlots
         /\ Queued(q, r) = Append(q, r)
         /\ InOrder(Queued(q, r), i, stage, subscribed)
         /\ Asks(q, i) # {} => Asks(Queued(q, r), i) # {}
<1>1. Queued(q, r) = Append(q, r)
  BY DEF Queued
<1>2. Len(q) <= ReqSlots
  BY GattAssumption
<1>3. Queued(q, r) \in Seq(Request) /\ Len(Queued(q, r)) <= ReqSlots
  BY <1>2, QueuedTypes
<1>4. ~(r.op = "discover" /\ r.of = i) /\ r # Subscribe(i)
  BY RequestFacts
<1>5. QED
  BY <1>1, <1>3, <1>4, AppendAside

\* What the callback of a discovery leaves, when its procedure had no other
\* request: the next request of it, or the subscription.
Advances(j, q) ==
    /\ attq' \in Seq(Request) /\ Len(attq') <= ReqSlots
    /\ discover' \in [Chars -> Stages] /\ sub' \in [Chars -> {"none", "handle", "active"}]
    /\ \A i \in Chars : InOrder(attq', i, discover'[i], sub'[i])
    /\ \A i \in Chars \ {j} : Asks(q, i) # {} => Asks(attq', i) # {}
    /\ \A i \in Chars : sub[i] = "active" => sub'[i] = "active"
    /\ sub'[j] = "active" \/ Asks(attq', j) # {}

LEMMA DiscoveredKeeps ==
  ASSUME TrafficIInv, NEW q \in Seq(Request), Len(q) < ReqSlots, NEW j \in Chars,
         Asks(q, j) = {}, sub[j] # "active",
         \A k \in DOMAIN q : q[k] # Subscribe(j),
         \A i \in Chars \ {j} : InOrder(q, i, discover[i], sub[i]),
         Discovered(j, q)
  PROVE  Advances(j, q)
<1>1. discover \in [Chars -> Stages] /\ sub \in [Chars -> {"none", "handle", "active"}]
  BY DEF TrafficIInv, TrafficTypes
<1>2. \E i \in Chars : i # j
  BY DEF Chars
<1>3. ASSUME NEW s \in {"char", "ccc"}, NEW new \in {"none", "handle"},
             attq' = Queued(q, Discover(j, s)), discover' = [discover EXCEPT ![j] = s],
             sub' = [sub EXCEPT ![j] = new]
      PROVE  Advances(j, q)
  <2>1. s \in Stages \ {"zero"} /\ Discover(j, s) \in Request
    BY RequestFacts DEF Stages
  <2>2. \A i \in Chars \ {j} :
          /\ attq' \in Seq(Request) /\ Len(attq') <= ReqSlots
          /\ attq' = Append(q, Discover(j, s))
          /\ InOrder(attq', i, discover[i], sub[i])
          /\ Asks(q, i) # {} => Asks(attq', i) # {}
    BY <1>3, <2>1, QueueNext
  <2>3. /\ attq' \in Seq(Request) /\ Len(attq') <= ReqSlots
        /\ attq' = Append(q, Discover(j, s))
    BY <1>2, <2>2
  <2>4. InOrder(attq', j, s, new) /\ Asks(attq', j) # {}
    BY <2>1, <2>3, AppendAsk
  <2>5. /\ discover'[j] = s /\ sub'[j] = new
        /\ \A i \in Chars \ {j} : discover'[i] = discover[i] /\ sub'[i] = sub[i]
        /\ discover' \in [Chars -> Stages] /\ sub' \in [Chars -> {"none", "handle", "active"}]
    BY <1>1, <1>3, <2>1
  <2>6. QED
    BY <2>2, <2>3, <2>4, <2>5 DEF Advances
<1>4. ASSUME attq' = Queued(q, Subscribe(j)), discover' = discover,
             sub' = [sub EXCEPT ![j] = "active"]
      PROVE  Advances(j, q)
  <2>1. /\ Subscribe(j) \in Request
        /\ ~(Subscribe(j).op = "discover" /\ Subscribe(j).of = j)
    BY RequestFacts
  <2>2. \A i \in Chars \ {j} :
          /\ attq' \in Seq(Request) /\ Len(attq') <= ReqSlots
          /\ attq' = Append(q, Subscribe(j))
          /\ InOrder(attq', i, discover[i], sub[i])
          /\ Asks(q, i) # {} => Asks(attq', i) # {}
    BY <1>4, <2>1, QueueNext
  <2>3. /\ attq' \in Seq(Request) /\ Len(attq') <= ReqSlots
        /\ attq' = Append(q, Subscribe(j))
    BY <1>2, <2>2
  <2>4. InOrder(q, j, discover[j], "active")
    BY NoneInOrder
  <2>5. InOrder(attq', j, discover[j], "active")
    BY <2>1, <2>3, <2>4, AppendAside
  <2>6. /\ discover'[j] = discover[j] /\ sub'[j] = "active"
        /\ \A i \in Chars \ {j} : discover'[i] = discover[i] /\ sub'[i] = sub[i]
        /\ discover' \in [Chars -> Stages] /\ sub' \in [Chars -> {"none", "handle", "active"}]
    BY <1>1, <1>4
  <2>7. QED
    BY <2>2, <2>3, <2>5, <2>6 DEF Advances
<1>5. CASE discover[j] = "service"
  <2>1. sub' = [sub EXCEPT ![j] = sub[j]] /\ sub[j] \in {"none", "handle"}
    BY <1>1, <1>5 DEF Discovered
  <2>2. QED
    BY <1>3, <1>5, <2>1 DEF Discovered
<1>6. CASE discover[j] = "char"
  BY <1>3, <1>6 DEF Discovered
<1>7. CASE discover[j] \notin {"service", "char"}
  BY <1>4, <1>7 DEF Discovered
<1>8. QED
  BY <1>5, <1>6, <1>7

\* What the callback of a response does to the queue and to the procedures.
LEMMA ResponseQueue ==
  ASSUME TrafficIInv, OnResponse
  PROVE  /\ attq' \in Seq(Request) /\ Len(attq') <= ReqSlots
         /\ discover' \in [Chars -> Stages] /\ sub' \in [Chars -> {"none", "handle", "active"}]
         /\ temp_val' \in Temps \cup {0}
         /\ \A i \in Chars : InOrder(attq', i, discover'[i], sub'[i])
         /\ \A i \in Offers : Asks(attq, i) # {} => sub'[i] = "active" \/ Asks(attq', i) # {}
         /\ \A i \in Chars : sub[i] = "active" => sub'[i] = "active"
<1> DEFINE r == Head(attq)
           m == Head(downlink)
           q == Tail(attq)
           Goal == /\ attq' \in Seq(Request) /\ Len(attq') <= ReqSlots
                   /\ discover' \in [Chars -> Stages]
                   /\ sub' \in [Chars -> {"none", "handle", "active"}]
                   /\ temp_val' \in Temps \cup {0}
                   /\ \A i \in Chars : InOrder(attq', i, discover'[i], sub'[i])
                   /\ \A i \in Offers : Asks(attq, i) # {} =>
                                          sub'[i] = "active" \/ Asks(attq', i) # {}
                   /\ \A i \in Chars : sub[i] = "active" => sub'[i] = "active"
<1>1. /\ attq \in Seq(Request) /\ Len(attq) <= ReqSlots
      /\ downlink \in Seq(Message) /\ downlink # <<>> /\ m.kind = "response"
      /\ discover \in [Chars -> Stages] /\ sub \in [Chars -> {"none", "handle", "active"}]
      /\ temp_val \in Temps \cup {0}
      /\ Answers(downlink, attq, served)
      /\ \A i \in Chars : InOrder(attq, i, discover[i], sub[i])
  BY DEF OnResponse, TrafficIInv, TrafficTypes, Exchange, Ordered
<1>2. attq # <<>> /\ (r.op = "discover" => (m.found <=> r.of \in Offers))
  BY <1>1, TailAnswers
<1>3. /\ q \in Seq(Request) /\ Len(q) < ReqSlots /\ Len(q) <= ReqSlots /\ r \in Request
      /\ m \in Message
  <2>1. /\ q \in Seq(Request) /\ Len(q) = Len(attq) - 1 /\ Len(attq) \in Nat
        /\ r \in Request /\ m \in Message
    BY <1>1, <1>2, TailTypes
  <2>2. ReqSlots \in Nat
    BY GattAssumption
  <2>3. QED
    BY <1>1, <2>1, <2>2
<1>4. \A i \in Chars : ~(r.op = "discover" /\ r.of = i) =>
        /\ InOrder(q, i, discover[i], sub[i])
        /\ Asks(attq, i) # {} => Asks(q, i) # {}
  BY <1>1, <1>2, TailAside
<1>5. r.op = "discover" =>
        /\ r.of \in Chars /\ Asks(q, r.of) = {} /\ sub[r.of] # "active"
        /\ \A k \in DOMAIN q : q[k] # Subscribe(r.of)
  BY <1>1, <1>2, <1>3, RequestParts, TailAsk
<1>6. /\ \/ /\ r.op = "discover" /\ m.found
            /\ Discovered(r.of, q)
            /\ temp_val' = temp_val
         \/ /\ r.op = "discover" /\ ~m.found
            /\ discover' = [discover EXCEPT ![r.of] = "zero"]
            /\ attq' = q
            /\ sub' = sub /\ temp_val' = temp_val
         \/ /\ r.op = "read" /\ m.found
            /\ temp_val' = m.val
            /\ attq' = Queued(q, ReadMore)
            /\ discover' = discover /\ sub' = sub
         \/ /\ r.op # "discover"
            /\ attq' = q
            /\ discover' = discover /\ sub' = sub /\ temp_val' = temp_val
  BY DEF OnResponse
<1> HIDE DEF r, m, q
<1>7. CASE r.op = "discover" /\ m.found /\ Discovered(r.of, q) /\ temp_val' = temp_val
  <2>1. \A i \in Chars \ {r.of} : InOrder(q, i, discover[i], sub[i])
    BY <1>4, <1>7
  <2>2. Advances(r.of, q)
    BY <1>3, <1>5, <1>7, <2>1, DiscoveredKeeps
  <2>3. \A i \in Chars \ {r.of} : Asks(attq, i) # {} => Asks(attq', i) # {}
    BY <1>4, <1>7, <2>2 DEF Advances
  <2>4. QED
    BY <1>1, <1>7, <2>2, <2>3, GattAssumption DEF Advances
<1>8. CASE /\ r.op = "discover" /\ ~m.found
           /\ discover' = [discover EXCEPT ![r.of] = "zero"]
           /\ attq' = q /\ sub' = sub /\ temp_val' = temp_val
  <2>1. r.of \notin Offers
    BY <1>2, <1>8 DEF r, m
  <2>2. "zero" \in Stages
    BY DEF Stages
  <2>3. InOrder(q, r.of, "zero", sub[r.of])
    BY <1>5, <1>8, NoneInOrder
  <2>4. \A i \in Chars : InOrder(attq', i, discover'[i], sub'[i])
    BY <1>1, <1>4, <1>5, <1>8, <2>3
  <2>5. \A i \in Offers : Asks(attq, i) # {} => Asks(attq', i) # {}
    BY <1>4, <1>8, <2>1, GattAssumption
  <2>6. QED
    BY <1>1, <1>3, <1>8, <2>2, <2>4, <2>5
<1>9. CASE /\ r.op = "read" /\ m.found
           /\ temp_val' = m.val
           /\ attq' = Queued(q, ReadMore)
           /\ discover' = discover /\ sub' = sub
  <2>1. ReadMore \in Request /\ ReadMore.op \notin {"discover", "subscribe"}
    BY RequestFacts
  <2>2. attq' \in Seq(Request) /\ Len(attq') <= ReqSlots
    BY <1>3, <1>9, <2>1, QueuedTypes
  <2>3. \A i \in Chars : /\ InOrder(attq', i, discover[i], sub[i])
                         /\ Asks(q, i) # {} => Asks(attq', i) # {}
    BY <1>3, <1>4, <1>9, <2>1, QueueAside
  <2>4. temp_val' \in Temps \cup {0}
    BY <1>1, <1>3, <1>9, MessageParts DEF m
  <2>5. QED
    BY <1>1, <1>4, <1>9, <2>2, <2>3, <2>4, GattAssumption
<1>10. CASE /\ r.op # "discover" /\ attq' = q
            /\ discover' = discover /\ sub' = sub /\ temp_val' = temp_val
  BY <1>1, <1>3, <1>4, <1>10, GattAssumption
<1>11. QED
  BY <1>6, <1>7, <1>8, <1>9, <1>10

\* A response ends the exchange and keeps every subscription.
LEMMA TrafficResponse ==
  ASSUME LinkIInv, TrafficIInv, OnResponse
  PROVE  TrafficIInv' /\ LastSent' = LastSent
<1> DEFINE m == Head(downlink)
<1>1. /\ downlink # <<>> /\ m.kind = "response" /\ downlink' = Tail(downlink)
      /\ served' = FALSE
      /\ UNCHANGED <<central_conn, link, led_status, joined, ccc, dirty, lamp, heard>>
  BY DEF OnResponse, connVars
<1>2. /\ downlink \in Seq(Message) /\ Answers(downlink, attq, served) /\ Heeded(downlink, sub)
  BY DEF TrafficIInv, TrafficTypes, Exchange, Subscribed
<1>3. SensorUp /\ SensorUp'
  BY <1>1 DEF LinkIInv, SensorUp
<1>4. downlink' \in Seq(Message) /\ Heeded(downlink', sub) /\ Responses(downlink') = {}
  BY <1>1, <1>2, TailTypes, TailHeeded, TailAnswers
<1>5. /\ attq' \in Seq(Request) /\ Len(attq') <= ReqSlots
      /\ discover' \in [Chars -> Stages] /\ sub' \in [Chars -> {"none", "handle", "active"}]
      /\ temp_val' \in Temps \cup {0}
      /\ \A i \in Chars : InOrder(attq', i, discover'[i], sub'[i])
      /\ \A i \in Offers : Asks(attq, i) # {} => sub'[i] = "active" \/ Asks(attq', i) # {}
      /\ \A i \in Chars : sub[i] = "active" => sub'[i] = "active"
  BY ResponseQueue
<1>6. ~IsLed(m)
  BY <1>1 DEF IsLed
<1>7. HasLast(downlink) => /\ HasLast(downlink')
                           /\ \A cached : LastLed(downlink', cached) = LastLed(downlink, cached)
                           /\ LedNotes(downlink') # {} => LedNotes(downlink) # {}
  BY <1>1, <1>2, <1>6, TailLast
<1> HIDE DEF m
<1>8. joined => HasLast(downlink)
  BY DEF TrafficIInv, LedSent
<1>9. LastSent' = LastSent
  BY <1>1, <1>7, <1>8 DEF LastSent
<1>10. TrafficTypes'
  <2>1. /\ joined' \in BOOLEAN /\ dirty' \in BOOLEAN /\ heard' \in BOOLEAN
        /\ served' \in BOOLEAN
    BY <1>1 DEF TrafficIInv, TrafficTypes
  <2>2. led_status' \in Leds /\ lamp' \in Leds /\ ccc' \subseteq Chars
    BY <1>1 DEF TrafficIInv, TrafficTypes
  <2>3. QED
    BY <1>4, <1>5, <2>1, <2>2, Zenon DEF TrafficTypes
<1>11. Ordered'
  BY <1>5 DEF Ordered
<1>12. Sought'
  BY <1>3, <1>5, GattAssumption DEF TrafficIInv, Sought
<1>13. Exchange'
  BY <1>1, <1>3, <1>4 DEF Exchange, Answers
<1>14. Subscribed'
  <2>1. \A i \in ccc : i \in Chars /\ sub[i] = "active"
    BY DEF TrafficIInv, TrafficTypes, Subscribed
  <2>2. \A i \in ccc' : sub'[i] = "active"
    BY <1>1, <1>5, <2>1
  <2>3. Heeded(downlink', sub')
    <3>1. \A k \in DOMAIN downlink' : downlink'[k] \in Message
      BY <1>4
    <3>2. QED
      BY <1>4, <1>5, <3>1, MessageParts DEF Heeded
  <2>4. /\ joined' \/ (ccc' = {} /\ ~dirty')
        /\ dirty' => "led" \in ccc'
        /\ joined' /\ (heard' \/ LedNotes(downlink') # {}) => "led" \in ccc'
    BY <1>1, <1>7, <1>8 DEF TrafficIInv, Subscribed
  <2>5. QED
    BY <2>2, <2>3, <2>4 DEF Subscribed
<1>15. LedSent'
  BY <1>1, <1>7, <1>9 DEF TrafficIInv, LedSent
<1>16. QED
  BY <1>9, <1>10, <1>11, <1>12, <1>13, <1>14, <1>15 DEF TrafficIInv

\* A notification is cached: none is dropped for want of a subscription.
LEMMA TrafficNotification ==
  ASSUME LinkIInv, TrafficIInv, OnNotification
  PROVE  TrafficIInv' /\ LastSent' = LastSent
<1> DEFINE m == Head(downlink)
           cached == IF heard THEN led_status ELSE NULL
           next == IF IsLed(m) THEN m.val ELSE cached
<1>1. /\ downlink # <<>> /\ m.kind = "notification" /\ downlink' = Tail(downlink)
      /\ UNCHANGED <<central_conn, link, discover, sub, attq, served, joined, ccc, dirty, lamp>>
  BY DEF OnNotification, connVars
<1>2. /\ downlink \in Seq(Message) /\ Answers(downlink, attq, served) /\ Heeded(downlink, sub)
  BY DEF TrafficIInv, TrafficTypes, Exchange, Subscribed
<1>3. SensorUp /\ SensorUp'
  BY <1>1 DEF LinkIInv, SensorUp
<1>4. /\ downlink' \in Seq(Message) /\ m \in Message
      /\ Heeded(downlink', sub) /\ sub[m.of] = "active"
      /\ Answers(downlink', attq, served)
  BY <1>1, <1>2, TailTypes, TailHeeded, TailAnswers
<1>5. m.of \in Chars /\ m.val \in (IF m.of = "led" THEN Leds ELSE Temps)
      /\ (IsLed(m) <=> m.of = "led")
  BY <1>1, <1>4, MessageParts DEF IsLed
<1>6. \/ /\ m.of = "temp" /\ temp_val' = m.val
         /\ led_status' = led_status /\ heard' = heard
      \/ /\ m.of = "led" /\ led_status' = m.val /\ heard' = TRUE
         /\ temp_val' = temp_val
  BY <1>4 DEF OnNotification
<1>7. HasLast(downlink) => /\ HasLast(downlink')
                           /\ LastLed(downlink', next) = LastLed(downlink, cached)
                           /\ LedNotes(downlink') # {} => LedNotes(downlink) # {}
  BY <1>1, <1>2, TailLast
<1>8. IsLed(m) => LedNotes(downlink) # {}
  <2>1. 1 \in DOMAIN downlink /\ m = downlink[1]
    BY <1>1, <1>2
  <2>2. QED
    BY <2>1 DEF IsLed, LedNotes
<1>9. next = IF heard' THEN led_status' ELSE NULL
  BY <1>5, <1>6
<1> HIDE DEF m, cached, next
<1>10. joined => HasLast(downlink)
  BY DEF TrafficIInv, LedSent
<1>11. LastSent' = LastSent
  BY <1>1, <1>7, <1>9, <1>10 DEF LastSent, cached
<1>12. TrafficTypes'
  <2>1. heard' \in BOOLEAN
    BY <1>6 DEF TrafficIInv, TrafficTypes
  <2>2. joined' \in BOOLEAN /\ dirty' \in BOOLEAN /\ served' \in BOOLEAN
    BY <1>1 DEF TrafficIInv, TrafficTypes
  <2>3. led_status' \in Leds /\ temp_val' \in Temps \cup {0}
    BY <1>5, <1>6 DEF TrafficIInv, TrafficTypes
  <2>4. /\ lamp' \in Leds /\ ccc' \subseteq Chars
        /\ discover' \in [Chars -> Stages] /\ sub' \in [Chars -> {"none", "handle", "active"}]
        /\ attq' \in Seq(Request) /\ Len(attq') <= ReqSlots
    BY <1>1 DEF TrafficIInv, TrafficTypes
  <2>5. QED
    BY <1>4, <2>1, <2>2, <2>3, <2>4, Zenon DEF TrafficTypes
<1>13. Ordered' /\ Sought'
  BY <1>1, <1>3 DEF TrafficIInv, Ordered, Sought
<1>14. Exchange'
  BY <1>1, <1>3, <1>4 DEF TrafficIInv, Exchange
<1>15. Subscribed'
  <2>1. heard' => heard \/ LedNotes(downlink) # {}
    BY <1>5, <1>6, <1>8
  <2>2. QED
    BY <1>1, <1>4, <1>7, <1>10, <2>1 DEF TrafficIInv, Subscribed
<1>16. LedSent'
  BY <1>1, <1>7, <1>11 DEF TrafficIInv, LedSent
<1>17. QED
  BY <1>11, <1>12, <1>13, <1>14, <1>15, <1>16 DEF TrafficIInv

------------------------------------------------------------------------------
\* Every step

\* A phone comes, goes, or changes its subscriptions; or nothing happens.
Aside == \/ OtherConnEvent
         \/ \E c \in Conns : \/ PhoneLost(c) \/ PhoneDisconnected(c)
                             \/ \E i \in Chars : PhoneSubscribe(c, i)
         \/ UNCHANGED gattVars

LEMMA AsideFrame ==
  ASSUME ConnIInv, Aside
  PROVE  /\ SensorUp' <=> SensorUp
         /\ UNCHANGED <<discover, sub, attq, temp_val, led_status>> /\ UNCHANGED sensorVars
<1>0. central_conn \in Conns \cup {NULL} /\ NULL \notin Conns /\ link \in [Conns -> LinkStates]
  BY ConnAssumption DEF ConnIInv, ConnTypeOK
<1>1. CASE OtherConnEvent
  BY <1>1, OtherKeepsSensor DEF OtherConnEvent, relayVars
<1>2. ASSUME NEW c \in Conns, PhoneLost(c) \/ PhoneDisconnected(c)
      PROVE  /\ SensorUp' <=> SensorUp
             /\ UNCHANGED <<discover, sub, attq, temp_val, led_status>> /\ UNCHANGED sensorVars
  <2>1. /\ c # central_conn /\ central_conn' = central_conn
        /\ \E s \in LinkStates : link' = [link EXCEPT ![c] = s]
    BY <1>2 DEF PhoneLost, LinkLost, PhoneDisconnected, Disconnected, LinkStates
  <2>2. central_conn # NULL => link'[central_conn] = link[central_conn]
    BY <1>0, <2>1
  <2>3. SensorUp' <=> SensorUp
    BY <2>1, <2>2, CentralFrame
  <2>4. QED
    BY <1>2, <2>3 DEF PhoneLost, PhoneDisconnected, relayVars
<1>3. ASSUME NEW c \in Conns, NEW i \in Chars, PhoneSubscribe(c, i)
      PROVE  /\ SensorUp' <=> SensorUp
             /\ UNCHANGED <<discover, sub, attq, temp_val, led_status>> /\ UNCHANGED sensorVars
  BY <1>3 DEF PhoneSubscribe, connVars, SensorUp
<1>4. CASE UNCHANGED gattVars
  BY <1>4 DEF gattVars, relayVars, connVars, SensorUp
<1>5. QED
  BY <1>1, <1>2, <1>3, <1>4 DEF Aside

\* The steps of the whole system, grouped as the lemmas above treat them.
LEMMA GattSteps ==
  ASSUME [GattNext]_gattVars
  PROVE  \/ Aside
         \/ \E r \in Request : r.op \notin {"discover", "subscribe"} /\ Forward(r)
         \/ \E c \in Conns : \/ SensorConnected(c) \/ SensorLost(c)
                             \/ SensorDisconnected(c) \/ PhoneFatal(c)
         \/ SensorServes \/ SensorNotifies \/ SensorGone \/ LampElsewhere
         \/ OnResponse \/ OnNotification
<1>1. /\ Read \in Request /\ Read.op = "read"
      /\ \A v \in Leds : Write(v) \in Request /\ Write(v).op = "write"
  BY RequestFacts
<1>2. ASSUME NEW c \in Conns, PhoneReadTemp(c)
      PROVE  \E r \in Request : r.op \notin {"discover", "subscribe"} /\ Forward(r)
  BY <1>1, <1>2 DEF PhoneReadTemp
<1>3. ASSUME NEW c \in Conns, NEW v \in Leds, PhoneWriteLed(c, v)
      PROVE  \E r \in Request : r.op \notin {"discover", "subscribe"} /\ Forward(r)
  BY <1>1, <1>3 DEF PhoneWriteLed
<1>4. QED
  BY <1>2, <1>3 DEF GattNext, Aside

LEMMA TrafficNext ==
  ConnIInv /\ LinkIInv /\ TrafficIInv /\ [GattNext]_gattVars => TrafficIInv'
<1> SUFFICES ASSUME ConnIInv, LinkIInv, TrafficIInv, [GattNext]_gattVars
             PROVE  TrafficIInv'
  OBVIOUS
<1>1. CASE Aside
  BY <1>1, AsideFrame, TrafficFrame
<1>2. ASSUME NEW r \in Request, r.op \notin {"discover", "subscribe"}, Forward(r)
      PROVE  TrafficIInv'
  BY <1>2, TrafficForward
<1>3. ASSUME NEW c \in Conns, \/ SensorConnected(c) \/ SensorLost(c)
                              \/ SensorDisconnected(c) \/ PhoneFatal(c)
      PROVE  TrafficIInv'
  BY <1>3, TrafficConnected, TrafficLost, TrafficDisconnected
<1>4. CASE SensorServes \/ SensorNotifies \/ SensorGone \/ LampElsewhere
  BY <1>4, TrafficServes, TrafficNotifies, TrafficGone, TrafficElsewhere
<1>5. CASE OnResponse \/ OnNotification
  BY <1>5, TrafficResponse, TrafficNotification
<1>6. QED
  BY <1>1, <1>2, <1>3, <1>4, <1>5, GattSteps

LEMMA TrafficInvariant == GattSpec => [](ConnIInv /\ LinkIInv /\ TrafficIInv)
<1>1. GattInit => LinkIInv /\ TrafficIInv
  <2>1. GattInit => LinkIInv /\ ~SensorUp
    BY DEF GattInit, ConnInit, LinkIInv, NothingOutlivesLink, SensorUp
  <2>2. GattInit => TrafficIInv
    BY <2>1, TrafficClear DEF GattInit, Leds
  <2>3. QED
    BY <2>1, <2>2
<1>2. QED
  BY <1>1, LinkInvNext, TrafficNext, ConnInGatt, PTL DEF GattSpec

------------------------------------------------------------------------------
\* Theorems

\* What phones subscribed to, and were told: values of the LED only.
PhoneTypes == phoneCcc \in [Conns -> SUBSET Chars] /\ told \in [Conns -> Leds \cup {NULL}]

LEMMA PhoneTypesNext == TrafficIInv /\ PhoneTypes /\ [GattNext]_gattVars => PhoneTypes'
<1> SUFFICES ASSUME TrafficIInv, PhoneTypes, [GattNext]_gattVars
             PROVE  PhoneTypes'
  OBVIOUS
<1> USE DEF PhoneTypes
<1>1. CASE UNCHANGED <<phoneCcc, told>>
  BY <1>1
<1>2. ASSUME NEW c \in Conns, PhoneDisconnected(c) \/ PhoneFatal(c)
      PROVE  PhoneTypes'
  BY <1>2 DEF PhoneDisconnected, PhoneFatal
<1>3. ASSUME NEW c \in Conns, NEW i \in Chars, PhoneSubscribe(c, i)
      PROVE  PhoneTypes'
  BY <1>3 DEF PhoneSubscribe
<1>4. CASE OnNotification
  <2> DEFINE m == Head(downlink)
  <2>1. m \in Message /\ m.kind = "notification"
    BY <1>4 DEF OnNotification, TrafficIInv, TrafficTypes
  <2>2. m.of = "led" => m.val \in Leds
    BY <2>1, MessageParts
  <2> HIDE DEF m
  <2>3. phoneCcc' = phoneCcc
    BY <1>4 DEF OnNotification
  <2>4. \/ told' = told
        \/ /\ m.of = "led"
           /\ told' = [c \in Conns |-> IF "led" \in phoneCcc[c] THEN m.val ELSE told[c]]
    BY <1>4 DEF OnNotification, m
  <2>5. QED
    BY <2>2, <2>3, <2>4
<1>5. QED
  BY <1>1, <1>2, <1>3, <1>4
  DEF GattNext, gattVars, relayVars, OtherConnEvent, SensorConnected, SensorLost, PhoneLost,
      SensorDisconnected, PhoneReadTemp, PhoneWriteLed, Forward, SensorServes,
      SensorNotifies, SensorGone, LampElsewhere, OnResponse

\* Every variable of the GATT layer keeps its type: main.c's caches hold values
\* the sensor can send, and the request objects never run over.
THEOREM GattTypeCorrect == GattSpec => []GattTypeOK
<1>1. GattInit => PhoneTypes
  BY DEF GattInit, PhoneTypes
<1>2. ConnIInv /\ TrafficIInv /\ PhoneTypes => GattTypeOK
  BY Zenon DEF ConnIInv, TrafficIInv, TrafficTypes, PhoneTypes, GattTypeOK
<1>3. QED
  BY <1>1, <1>2, PhoneTypesNext, TrafficInvariant, PTL DEF GattSpec

\* No response is ever taken for an attribute of another stage: at most one
\* request per procedure is out, and discover_params is as it was sent.
THEOREM ProceduresInOrder == GattSpec => []DiscoveryInOrder
<1>1. TrafficIInv => DiscoveryInOrder
  <2> SUFFICES ASSUME TrafficIInv, NEW k \in DOMAIN attq, attq[k].op = "discover"
               PROVE  /\ attq[k].stage = discover[attq[k].of]
                      /\ \A l \in DOMAIN attq :
                           attq[l].op = "discover" /\ attq[l].of = attq[k].of => l = k
    BY DEF DiscoveryInOrder
  <2>1. attq[k] \in Request
    BY DEF TrafficIInv, TrafficTypes
  <2>2. attq[k].of \in Chars /\ k \in Asks(attq, attq[k].of)
    BY <2>1, RequestParts DEF Asks
  <2>3. QED
    BY <2>2 DEF TrafficIInv, Ordered, InOrder, Asks
<1>2. QED
  BY <1>1, TrafficInvariant, PTL

\* Neither procedure dies for want of a request object, however many requests
\* phones queue, as long as there are two objects.
THEOREM ProceduresNeverDropped == GattSpec => []DiscoveryNeverDropped
<1>1. TrafficIInv => DiscoveryNeverDropped
  <2> SUFFICES ASSUME TrafficIInv, SensorUp, NEW i \in Offers, sub[i] # "active"
               PROVE  \E k \in DOMAIN attq : attq[k] = Discover(i, discover[i])
    BY DEF DiscoveryNeverDropped
  <2>1. i \in Chars
    BY GattAssumption
  <2>2. PICK k \in DOMAIN attq : attq[k].op = "discover" /\ attq[k].of = i
    BY DEF TrafficIInv, Sought, Asks
  <2>3. attq[k].stage = discover[i]
    BY <2>1, <2>2 DEF TrafficIInv, Ordered, InOrder, Asks
  <2>4. attq[k] \in Request
    BY DEF TrafficIInv, TrafficTypes
  <2>5. attq[k] = Discover(i, discover[i])
    BY <2>2, <2>3, <2>4, RequestParts
  <2>6. QED
    BY <2>5
<1>2. QED
  BY <1>1, TrafficInvariant, PTL

\* The cache that read_led() serves is the sensor's LED, or the notification that
\* makes it so is due or on its way.
THEOREM CacheIsLamp == GattSpec => []CacheFollowsLamp
<1>1. TrafficIInv => CacheFollowsLamp
  <2> SUFFICES ASSUME TrafficIInv, joined, heard, ~dirty, led_status # lamp
               PROVE  \E k \in DOMAIN downlink : downlink[k] = Notification("led", lamp)
    BY DEF CacheFollowsLamp
  <2>1. /\ HasLast(downlink) /\ downlink \in Seq(Message) /\ led_status \in Leds
        /\ LastSent = LastLed(downlink, led_status)
        /\ LastSent # NULL => LastSent = lamp
    BY DEF TrafficIInv, TrafficTypes, LedSent, LastSent
  <2>2. LedNotes(downlink) # {}
    <3>1. LedNotes(downlink) = {} => LastSent = led_status
      BY <2>1 DEF LastLed
    <3>2. led_status # NULL
      BY <2>1, GattAssumption
    <3>3. QED
      BY <2>1, <3>1, <3>2
  <2>3. PICK k \in LedNotes(downlink) : \A l \in LedNotes(downlink) : l <= k
    BY <2>1, <2>2 DEF HasLast
  <2>4. LastSent = downlink[k].val
    BY <2>1, <2>3, LastLedIs
  <2>5. /\ k \in DOMAIN downlink /\ downlink[k] \in Message
        /\ downlink[k].kind = "notification" /\ downlink[k].of = "led"
    BY <2>1, <2>3 DEF LedNotes
  <2>6. downlink[k].val \in Leds
    BY <2>5, MessageParts
  <2>7. downlink[k].val = lamp
    BY <2>1, <2>4, <2>6, GattAssumption
  <2>8. downlink[k] = Notification("led", lamp)
    BY <2>5, <2>7 DEF Message, Notification
  <2>9. QED
    BY <2>5, <2>8
<1>2. QED
  BY <1>1, TrafficInvariant, PTL

------------------------------------------------------------------------------
\* The relay, its link and the sensor are a client and a server of LedContract.

\* Following it, a write changes the value; every other request leaves it alone.
LEMMA ServeIsContract ==
  ASSUME TrafficIInv, LinkIInv, SensorServes
  PROVE  [Contract!ContractNext]_(Contract!contractVars)
<1> DEFINE r == Head(attq)
<1>1. /\ ccc' = IF r.op = "subscribe" THEN ccc \cup {r.of} ELSE ccc
      /\ IF r.op = "write" /\ "led" \in Offers
         THEN lamp' = r.val /\ dirty' = (dirty \/ "led" \in ccc)
         ELSE lamp' = lamp /\ dirty' = dirty
  BY DEF SensorServes
<1>2. LastSent' = LastSent
  BY TrafficServes
<1>3. r \in Request /\ (r.op = "write" => r.val \in Leds)
  BY RequestParts DEF SensorServes, TrafficIInv, TrafficTypes
<1> HIDE DEF r
<1>4. CASE r.op = "subscribe"
  <2>1. lamp' = lamp /\ dirty' = dirty /\ ccc' = ccc \cup {r.of}
    BY <1>1, <1>4
  <2>2. CASE r.of = "led"
    <3>1. Contract!Follow
      BY <1>2, <2>1, <2>2 DEF Contract!Follow
    <3>2. QED
      BY <3>1 DEF Contract!ContractNext
  <2>3. CASE r.of # "led"
    BY <1>2, <2>1, <2>3 DEF Contract!contractVars
  <2>4. QED
    BY <2>2, <2>3
<1>5. CASE r.op = "write" /\ "led" \in Offers
  <2>1. Contract!Change(r.val)
    BY <1>1, <1>2, <1>5 DEF Contract!Change
  <2>2. QED
    BY <1>3, <1>5, <2>1 DEF Contract!ContractNext
<1>6. CASE r.op # "subscribe" /\ ~(r.op = "write" /\ "led" \in Offers)
  BY <1>1, <1>2, <1>6 DEF Contract!contractVars
<1>7. QED
  BY <1>4, <1>5, <1>6

\* Each end of the link that goes takes the subscription and what was sent along.
LEMMA LeaveIsContract ==
  ASSUME ConnIInv, LinkIInv, TrafficIInv,
         ~joined' /\ ccc' = {} /\ dirty' = FALSE /\ lamp' \in Leds
  PROVE  [Contract!ContractNext]_(Contract!contractVars)
<1>1. LastSent' = NULL
  BY DEF LastSent
<1>2. Contract!Leave
  BY <1>1 DEF Contract!Leave
<1>3. QED
  BY <1>2 DEF Contract!ContractNext

\* A step that leaves the sensor's variables alone is none of the contract's.
LEMMA ContractFrame ==
  ASSUME UNCHANGED <<lamp, ccc, dirty, LastSent>>
  PROVE  [Contract!ContractNext]_(Contract!contractVars)
  BY DEF Contract!contractVars

LEMMA StepsAreContract ==
  ConnIInv /\ LinkIInv /\ TrafficIInv /\ [GattNext]_gattVars
    => [Contract!ContractNext]_(Contract!contractVars)
<1> SUFFICES ASSUME ConnIInv, LinkIInv, TrafficIInv, [GattNext]_gattVars
             PROVE  [Contract!ContractNext]_(Contract!contractVars)
  OBVIOUS
<1>1. CASE Aside
  <2>1. UNCHANGED <<lamp, ccc, dirty, LastSent>>
    BY <1>1, AsideFrame DEF sensorVars, LastSent
  <2>2. QED
    BY <2>1, ContractFrame
<1>2. ASSUME NEW r \in Request, Forward(r)
      PROVE  [Contract!ContractNext]_(Contract!contractVars)
  <2>1. UNCHANGED <<lamp, ccc, dirty, LastSent>>
    BY <1>2 DEF Forward, sensorVars, LastSent
  <2>2. QED
    BY <2>1, ContractFrame
<1>3. ASSUME NEW c \in Conns, SensorConnected(c)
      PROVE  [Contract!ContractNext]_(Contract!contractVars)
  <2>1. c = central_conn /\ link[c] = "init"
    BY <1>3, RefCount DEF SensorConnected, ConnectedCentral
  <2>2. ~heard /\ ~joined /\ downlink = <<>>
    BY <2>1, SensorSideClear DEF SensorUp
  <2>3. UNCHANGED <<lamp, ccc, dirty, downlink, heard>>
    BY <1>3 DEF SensorConnected
  <2>4. LastSent = NULL /\ LastSent' = NULL
    BY <2>2, <2>3, NothingPending DEF LastSent, LastLed
  <2>5. QED
    BY <2>3, <2>4, ContractFrame
<1>4. ASSUME NEW c \in Conns, SensorLost(c)
      PROVE  [Contract!ContractNext]_(Contract!contractVars)
  <2>1. ~joined' /\ ccc' = {} /\ dirty' = FALSE /\ lamp' \in Leds
    BY <1>4 DEF SensorLost, TrafficIInv, TrafficTypes
  <2>2. QED
    BY <2>1, LeaveIsContract
<1>5. ASSUME NEW c \in Conns, SensorDisconnected(c) \/ PhoneFatal(c)
      PROVE  [Contract!ContractNext]_(Contract!contractVars)
  <2>1. UNCHANGED sensorVars
    BY <1>5 DEF SensorDisconnected, PhoneFatal
  <2>2. ~SensorUp
    BY <1>5 DEF SensorDisconnected, Disconnected, PhoneFatal, FatalAccess, SensorUp
  <2>3. ~joined /\ ~joined'
    BY <2>1, <2>2, SensorSideClear DEF sensorVars
  <2>4. UNCHANGED <<lamp, ccc, dirty, LastSent>>
    BY <2>1, <2>3 DEF sensorVars, LastSent
  <2>5. QED
    BY <2>4, ContractFrame
<1>6. CASE SensorServes
  BY <1>6, ServeIsContract
<1>7. CASE SensorNotifies
  <2>1. LastSent' = lamp /\ "led" \in ccc
    BY <1>7, TrafficNotifies
  <2>2. Contract!Notify
    BY <1>7, <2>1 DEF SensorNotifies, Contract!Notify
  <2>3. QED
    BY <2>2 DEF Contract!ContractNext
<1>8. CASE SensorGone
  BY <1>8, LeaveIsContract DEF SensorGone
<1>9. CASE LampElsewhere
  <2>1. ~joined' /\ ccc' = {} /\ dirty' = FALSE /\ lamp' \in Leds
    BY <1>9 DEF LampElsewhere, TrafficIInv, Subscribed
  <2>2. QED
    BY <2>1, LeaveIsContract
<1>10. CASE OnResponse \/ OnNotification
  <2>1. UNCHANGED <<lamp, ccc, dirty>>
    BY <1>10 DEF OnResponse, OnNotification
  <2>2. LastSent' = LastSent
    BY <1>10, TrafficResponse, TrafficNotification
  <2>3. QED
    BY <2>1, <2>2, ContractFrame
<1>11. QED
  BY <1>1, <1>2, <1>3, <1>4, <1>5, <1>6, <1>7, <1>8, <1>9, <1>10, GattSteps

\* The whole path of the LED's value, the sensor's notifications, the link with
\* what is on its way and main.c's cache, implements the contract: no
\* notification is lost, overtaken or dropped, and none survives the link.
THEOREM RelayImplementsContract == GattSpec => RelayKeepsLedContract
<1>1. GattInit => Contract!ContractInit
  <2>1. GattInit => LastSent = NULL /\ lamp \in Leds /\ "led" \notin ccc /\ dirty = FALSE
    BY DEF GattInit, LastSent, Leds
  <2>2. QED
    BY <2>1 DEF Contract!ContractInit
<1>2. QED
  BY <1>1, StepsAreContract, TrafficInvariant, PTL
  DEF GattSpec, RelayKeepsLedContract, Contract!ContractSpec

=============================================================================
