------------------------- MODULE HeartPeripheral_proofs -------------------------
(***************************************************************************)
(* Proofs about HeartPeripheral, for any number of clients and any bounds. *)
(***************************************************************************)
EXTENDS HeartPeripheral, Integers, FiniteSetTheorems, SequenceTheorems, TLAPS

\* A message about characteristic k.
Mentions(m, k) == m \in {Start(k), Stop(k)}

\* Nobody subscribes to an application that is not registered, and until it has
\* been nothing was asked of it.
Unregistered ==
    /\ proc = "boot" => /\ registered = "no" /\ advertised = "no"
                        /\ connected = {} /\ calls = <<>>
    /\ registered # "yes" => \A c \in Clients : ccc[c] = {}
    /\ proc = "boot" \/ registered = "pending" =>
          \A k \in Chrcs : ~notifying[k] /\ About(k) = {}

\* Only a subscriber has been told anything.
ToldSubscribed ==
    \A c \in Clients, k \in Chrcs : told[c][k] # NULL => k \in ccc[c]

(***************************************************************************)
(* While the battery level is notified, the last value on its way is the   *)
(* level; with none on its way, who has been told anything was told it.    *)
(***************************************************************************)
LastSignalled ==
    notifying["battery"] =>
        IF signals = <<>>
        THEN \A c \in Clients : told[c]["battery"] # NULL => told[c]["battery"] = battery_lvl
        ELSE signals[Len(signals)] = battery_lvl

(***************************************************************************)
(* The inductive invariant.  LevelCurrent follows from it: a subscriber    *)
(* that was told a level is served by LastSignalled, or, while the flag is *)
(* clear, by the StartNotify() that NotifiesSubscribers says is due.       *)
(***************************************************************************)
HeartIInv ==
    /\ HeartTypeOK
    /\ Unregistered
    /\ ToldSubscribed
    /\ NotifiesSubscribers
    /\ LastSignalled

Messages ==
    {Start(k) : k \in Chrcs} \cup {Stop(k) : k \in Chrcs}
        \cup {Message(m) : m \in {"RequestAuthorization", "Release",
                                  "advertisement failed", "application failed"}}

\* Messages are told apart.
LEMMA Apart ==
    ASSUME NEW k \in Chrcs, NEW l \in Chrcs
    PROVE  /\ Start(k) # Stop(l)
           /\ Start(k) = Start(l) => k = l
           /\ Stop(k) = Stop(l) => k = l
           /\ \A m \in {"RequestAuthorization", "Release", "advertisement failed",
                        "application failed"} : Message(m) # Start(k) /\ Message(m) # Stop(k)
<1>1. Start(k) # Stop(l)
  <2>1. Start(k).call # Stop(l).call
    BY DEF Start, Stop
  <2>2. QED
    BY <2>1
<1>2. Start(k).of = k /\ Start(l).of = l /\ Stop(k).of = k /\ Stop(l).of = l
  BY DEF Start, Stop
<1>3. ASSUME NEW m \in {"RequestAuthorization", "Release", "advertisement failed",
                        "application failed"}
      PROVE  Message(m) # Start(k) /\ Message(m) # Stop(k)
  <2>1. Message(m).call # Start(k).call /\ Message(m).call # Stop(k).call
    BY DEF Message, Start, Stop
  <2>2. QED
    BY <2>1
<1>4. QED
  BY <1>1, <1>2, <1>3

------------------------------------------------------------------------------
\* The messages about one characteristic

AboutIn(q, k) == {j \in DOMAIN q : Mentions(q[j], k)}

\* After the messages q, a flag that is flag now agrees with sub.
Agrees(q, k, flag, sub) ==
    IF AboutIn(q, k) = {} THEN flag <=> sub
    ELSE \E last \in AboutIn(q, k) :
            /\ \A j \in AboutIn(q, k) : j <= last
            /\ q[last] = Start(k) <=> sub

\* NotifiesSubscribers, in these terms.
LEMMA NotifiesAgrees ==
    NotifiesSubscribers <=>
        (registered = "yes" => \A k \in Chrcs : Agrees(calls, k, notifying[k], Subscribed(k)))
<1>1. \A k \in Chrcs : About(k) = AboutIn(calls, k)
  BY DEF About, AboutIn, Mentions
<1>2. QED
  BY <1>1, Zenon DEF NotifiesSubscribers, Agrees

LEMMA NotifiesAgreesNext ==
    NotifiesSubscribers' <=>
        (registered' = "yes" =>
            \A k \in Chrcs : Agrees(calls', k, notifying'[k], Subscribed(k)'))
<1>1. \A k \in Chrcs : About(k)' = AboutIn(calls', k)
  BY DEF About, AboutIn, Mentions
<1>2. QED
  BY <1>1, Zenon DEF NotifiesSubscribers, Agrees

\* A message about something else changes nothing.
LEMMA AppendQuiet ==
    ASSUME NEW q \in Seq(Messages), NEW m \in Messages, NEW k \in Chrcs, ~Mentions(m, k),
           NEW flag \in BOOLEAN, NEW sub \in BOOLEAN, Agrees(q, k, flag, sub)
    PROVE  Agrees(Append(q, m), k, flag, sub)
<1>1. DOMAIN Append(q, m) = 1 .. Len(q) + 1 /\ DOMAIN q = 1 .. Len(q) /\ Len(q) \in Nat
  OBVIOUS
<1>2. \A j \in 1 .. Len(q) : Append(q, m)[j] = q[j]
  OBVIOUS
<1>3. Append(q, m)[Len(q) + 1] = m
  OBVIOUS
<1>4. AboutIn(Append(q, m), k) = AboutIn(q, k)
  BY <1>1, <1>2, <1>3 DEF AboutIn
<1>5. \A j \in AboutIn(q, k) : Append(q, m)[j] = q[j]
  BY <1>1, <1>2 DEF AboutIn
<1>6. QED
  BY <1>4, <1>5, Zenon DEF Agrees

\* A message about k decides.
LEMMA AppendDecides ==
    ASSUME NEW q \in Seq(Messages), NEW k \in Chrcs, NEW m \in {Start(k), Stop(k)},
           NEW flag \in BOOLEAN, NEW sub \in BOOLEAN, m = Start(k) <=> sub
    PROVE  Agrees(Append(q, m), k, flag, sub)
<1> DEFINE n == Len(q) + 1
<1>1. DOMAIN Append(q, m) = 1 .. n /\ n \in Nat /\ n \in 1 .. n
  OBVIOUS
<1>2. Append(q, m)[n] = m
  OBVIOUS
<1> HIDE DEF n
<1>3. n \in AboutIn(Append(q, m), k)
  BY <1>1, <1>2 DEF AboutIn, Mentions
<1>4. \A j \in AboutIn(Append(q, m), k) : j <= n
  BY <1>1 DEF AboutIn
<1>5. QED
  BY <1>2, <1>3, <1>4, Zenon DEF Agrees

\* Handling the first message sets the flag as it says.
LEMMA HandledAgrees ==
    ASSUME NEW q \in Seq(Messages), q # <<>>, NEW k \in Chrcs,
           NEW flag \in BOOLEAN, NEW sub \in BOOLEAN, Agrees(q, k, flag, sub),
           NEW new \in BOOLEAN,
           Head(q) = Start(k) => new, Head(q) = Stop(k) => ~new,
           ~Mentions(Head(q), k) => new = flag
    PROVE  Agrees(Tail(q), k, new, sub)
<1>1. DOMAIN q = 1 .. Len(q) /\ Len(q) \in Nat /\ Len(q) >= 1 /\ Head(q) = q[1]
  OBVIOUS
<1>2. DOMAIN Tail(q) = 1 .. Len(q) - 1 /\ \A j \in 1 .. Len(q) - 1 : Tail(q)[j] = q[j + 1]
  OBVIOUS
<1>3. \A j \in 1 .. Len(q) - 1 : j \in AboutIn(Tail(q), k) <=> j + 1 \in AboutIn(q, k)
  BY <1>1, <1>2 DEF AboutIn
<1>4. AboutIn(Tail(q), k) \subseteq 1 .. Len(q) - 1 /\ AboutIn(q, k) \subseteq 1 .. Len(q)
  BY <1>1, <1>2 DEF AboutIn
<1>5. Mentions(Head(q), k) <=> 1 \in AboutIn(q, k)
  BY <1>1 DEF AboutIn
<1>6. CASE AboutIn(q, k) = {}
  <2>1. AboutIn(Tail(q), k) = {}
    BY <1>1, <1>3, <1>4, <1>6
  <2>2. (flag <=> sub) /\ new = flag
    BY <1>5, <1>6 DEF Agrees
  <2>3. QED
    BY <2>1, <2>2 DEF Agrees
<1>7. CASE AboutIn(q, k) # {}
  <2>1. PICK last \in AboutIn(q, k) : /\ \A j \in AboutIn(q, k) : j <= last
                                      /\ q[last] = Start(k) <=> sub
    BY <1>7 DEF Agrees
  <2>2. CASE last = 1
    <3>1. AboutIn(Tail(q), k) = {}
      BY <1>1, <1>3, <1>4, <2>1, <2>2
    <3>2. q[1] = Start(k) \/ q[1] = Stop(k)
      BY <2>1, <2>2 DEF AboutIn, Mentions
    <3>3. new <=> sub
      BY <1>1, <2>1, <2>2, <3>2, Apart
    <3>4. QED
      BY <3>1, <3>3 DEF Agrees
  <2>3. CASE last # 1
    <3>1. last - 1 \in 1 .. Len(q) - 1 /\ (last - 1) + 1 = last
      BY <1>1, <1>4, <2>1, <2>3
    <3>2. last - 1 \in AboutIn(Tail(q), k) /\ Tail(q)[last - 1] = q[last]
      BY <1>2, <1>3, <3>1
    <3>3. \A j \in AboutIn(Tail(q), k) : j <= last - 1
      BY <1>1, <1>3, <1>4, <2>1
    <3>4. QED
      BY <2>1, <3>2, <3>3 DEF Agrees
  <2>4. QED
    BY <2>2, <2>3
<1>8. QED
  BY <1>6, <1>7

------------------------------------------------------------------------------
\* The steps

\* The initial state satisfies the invariant.
LEMMA HeartInitInv == HeartInit => HeartIInv
<1> SUFFICES ASSUME HeartInit
             PROVE  HeartIInv
  OBVIOUS
<1>1. HeartTypeOK
  <2>1. battery_lvl \in 0 .. FullBattery /\ signals \in Seq(0 .. FullBattery) /\ Len(signals) <= MaxSignals
    BY HeartAssumption DEF HeartInit
  <2>2. calls \in Seq(Messages)
    BY DEF HeartInit
  <2>3. notifying \in [Chrcs -> BOOLEAN]
    BY DEF HeartInit
  <2>4. ccc \in [Clients -> SUBSET Chrcs] /\ told \in [Clients -> [Chrcs -> 0 .. FullBattery \cup {NULL}]]
    BY DEF HeartInit
  <2>5. proc = "boot" /\ advertised = "no" /\ registered = "no" /\ connected = {}
    BY DEF HeartInit
  <2>6. QED
    BY <2>1, <2>2, <2>3, <2>4, <2>5 DEF HeartTypeOK, Messages
<1>2. Unregistered
  <2>1. \A k \in Chrcs : About(k) = {}
    BY DEF HeartInit, About
  <2>2. QED
    BY <2>1 DEF HeartInit, Unregistered
<1>3. ToldSubscribed
  BY DEF HeartInit, ToldSubscribed
<1>4. NotifiesSubscribers
  BY DEF HeartInit, NotifiesSubscribers
<1>5. LastSignalled
  BY DEF HeartInit, LastSignalled, Chrcs
<1>6. QED
  BY <1>1, <1>2, <1>3, <1>4, <1>5 DEF HeartIInv

\* The messages waiting, and those BlueZ adds.
LEMMA MessageTypes ==
    /\ HeartTypeOK => calls \in Seq(Messages)
    /\ \A k \in Chrcs : Start(k) \in Messages /\ Stop(k) \in Messages
    /\ \A m \in {"RequestAuthorization", "Release", "advertisement failed",
                 "application failed"} : Message(m) \in Messages
  BY DEF HeartTypeOK, Messages

\* A function on 1 .. 2 is a pair.
LEMMA FunctionIsSeq ==
    ASSUME NEW S, NEW n \in Nat, NEW f \in [1 .. n -> S]
    PROVE  f \in Seq(S)
  OBVIOUS

LEMMA FunctionLen ==
    ASSUME NEW S, NEW n \in Nat, NEW f \in [1 .. n -> S]
    PROVE  Len(f) = n
  OBVIOUS

LEMMA SingletonOf ==
    ASSUME NEW S, NEW f \in [1 .. 1 -> S]
    PROVE  f = <<f[1]>>
  OBVIOUS

LEMMA PairOf ==
    ASSUME NEW S, NEW f \in [1 .. 2 -> S]
    PROVE  f = <<f[1], f[2]>>
<1> DEFINE g == <<f[1], f[2]>>
<1>1. f \in Seq(S) /\ Len(f) = 2
  BY FunctionIsSeq, FunctionLen
<1>2. g \in Seq(S) /\ Len(g) = 2
  OBVIOUS
<1>3. \A i \in 1 .. Len(f) : f[i] = g[i]
  BY <1>1
<1> HIDE DEF g
<1>4. f = g
  BY <1>1, <1>2, <1>3, SeqEqual
<1>5. QED
  BY <1>4 DEF g

\* The messages that end the subscriptions of a client are at most two, none or
\* one about each characteristic.
LEMMA StopsOf ==
    ASSUME NEW last \in SUBSET Chrcs, NEW stops \in Stops(last)
    PROVE  \/ last = {} /\ stops = <<>>
           \/ \E a \in Chrcs : last = {a} /\ stops = <<Stop(a)>>
           \/ \E a, b \in Chrcs : last = {a, b} /\ a # b /\ stops = <<Stop(a), Stop(b)>>
<1> stops \in [1 .. Cardinality(last) -> {Stop(k) : k \in last}]
    /\ \A k \in last : \E j \in DOMAIN stops : stops[j] = Stop(k)
  BY DEF Stops
<1>1. CASE last = {}
  <2>1. Cardinality(last) = 0
    BY <1>1, FS_EmptySet
  <2>2. stops = <<>>
    <3>1. stops \in [1 .. 0 -> {Stop(k) : k \in last}]
      BY <2>1
    <3>2. stops \in Seq({Stop(k) : k \in last}) /\ Len(stops) = 0
      BY <3>1
    <3>3. QED
      BY <3>2
  <2>3. QED
    BY <1>1, <2>2
<1>2. ASSUME NEW a \in Chrcs, last = {a}
      PROVE  stops = <<Stop(a)>>
  <2>1. Cardinality(last) = 1
    BY <1>2, FS_Singleton
  <2>2. stops \in [1 .. 1 -> {Stop(k) : k \in last}]
    BY <2>1
  <2>3. stops[1] = Stop(a)
    <3>1. PICK j \in DOMAIN stops : stops[j] = Stop(a)
      BY <1>2
    <3>2. DOMAIN stops = 1 .. 1
      BY <2>2
    <3>3. QED
      BY <3>1, <3>2
  <2>4. stops = <<stops[1]>>
    BY <2>2, SingletonOf
  <2>5. QED
    BY <2>3, <2>4
<1>3. ASSUME last = Chrcs
      PROVE  \E a, b \in Chrcs : last = {a, b} /\ a # b /\ stops = <<Stop(a), Stop(b)>>
  <2>1. Cardinality(last) = 2
    <3>1. Cardinality({"battery"}) = 1 /\ IsFiniteSet({"battery"})
      BY FS_Singleton
    <3>2. Cardinality({"battery"} \cup {"heart"})
            = IF "heart" \in {"battery"} THEN Cardinality({"battery"})
              ELSE Cardinality({"battery"}) + 1
      BY <3>1, FS_AddElement, Zenon
    <3>3. last = {"battery"} \cup {"heart"}
      BY <1>3 DEF Chrcs
    <3>4. QED
      BY <3>1, <3>2, <3>3, SMT
  <2>2. stops \in [1 .. 2 -> {Stop("battery"), Stop("heart")}]
    BY <1>3, <2>1 DEF Chrcs
  <2>3. \A k \in Chrcs : stops[1] = Stop(k) \/ stops[2] = Stop(k)
    BY <1>3, <2>1
  <2>4. stops = <<stops[1], stops[2]>>
    BY <2>2, PairOf
  <2>5. CASE stops[1] = Stop("battery")
    <3>1. stops[2] = Stop("heart")
      BY <2>3, <2>5, Apart DEF Chrcs
    <3>2. QED
      BY <1>3, <2>4, <2>5, <3>1 DEF Chrcs
  <2>6. CASE stops[1] # Stop("battery")
    <3>1. stops[1] = Stop("heart") /\ stops[2] = Stop("battery")
      <4>1. Stop("battery") # Stop("heart")
        BY Apart DEF Chrcs
      <4>2. stops[2] = Stop("battery")
        BY <2>3, <2>6 DEF Chrcs
      <4>3. stops[1] = Stop("heart")
        BY <2>3, <4>1, <4>2 DEF Chrcs
      <4>4. QED
        BY <4>2, <4>3
    <3>2. QED
      BY <1>3, <2>4, <3>1 DEF Chrcs
  <2>7. QED
    BY <2>5, <2>6
<1>4. last = {} \/ last = Chrcs \/ \E a \in Chrcs : last = {a}
  BY DEF Chrcs
<1>5. QED
  BY <1>1, <1>2, <1>3, <1>4

\* The types, action by action.
LEMMA HeartTypeStep == HeartTypeOK /\ [HeartNext]_heartVars => HeartTypeOK'
<1> SUFFICES ASSUME HeartTypeOK, [HeartNext]_heartVars
             PROVE  HeartTypeOK'
  OBVIOUS
<1> DEFINE procOK == /\ proc \in {"boot", "loop", "asking", "ended"}
                     /\ battery_lvl \in 0 .. FullBattery
                     /\ notifying \in [Chrcs -> BOOLEAN]
           queueOK == calls \in Seq(Messages)
           signalOK == signals \in Seq(0 .. FullBattery) /\ Len(signals) <= MaxSignals
           bluezOK == /\ advertised \in {"no", "pending", "yes"}
                      /\ registered \in {"no", "pending", "yes"}
                      /\ connected \subseteq Clients
                      /\ ccc \in [Clients -> SUBSET Chrcs]
                      /\ told \in [Clients -> [Chrcs -> 0 .. FullBattery \cup {NULL}]]
<1>1. HeartTypeOK <=> procOK /\ queueOK /\ signalOK /\ bluezOK
  BY DEF HeartTypeOK, Messages
<1>2. HeartTypeOK' <=> procOK' /\ queueOK' /\ signalOK' /\ bluezOK'
  BY DEF HeartTypeOK, Messages
<1>3. UNCHANGED bluezVars => bluezOK'
  BY <1>1 DEF bluezVars
<1>4. UNCHANGED signals => signalOK'
  BY <1>1
<1>5. UNCHANGED calls => queueOK'
  BY <1>1
<1>6. UNCHANGED procVars => procOK'
  BY <1>1 DEF procVars
<1>7. ASSUME NEW m, Handles(m)
      PROVE  queueOK'
  BY <1>1, <1>7 DEF Handles
<1>8. ASSUME NEW m \in Messages, calls' = Append(calls, m)
      PROVE  queueOK'
  BY <1>1, <1>8
<1>9. ASSUME NEW v \in 0 .. FullBattery, Signal(v), Len(signals) < MaxSignals
      PROVE  signalOK'
  <2>1. CASE notifying'["battery"]
    BY <1>1, <1>9, <2>1, HeartAssumption DEF Signal
  <2>2. CASE ~notifying'["battery"]
    BY <1>4, <1>9, <2>2 DEF Signal
  <2>3. QED
    BY <2>1, <2>2
<1>10. notifying' \in [Chrcs -> BOOLEAN] /\ proc' \in {"boot", "loop", "asking", "ended"}
         /\ battery_lvl' \in 0 .. FullBattery => procOK'
  OBVIOUS
<1> HIDE DEF procOK, queueOK, signalOK, bluezOK
<1>11. CASE Main
  <2>1. procOK'
    BY <1>1, <1>11 DEF Main, procOK
  <2>2. bluezOK'
    BY <1>1, <1>11 DEF Main, bluezOK
  <2>3. QED
    BY <1>2, <1>4, <1>5, <1>11, <2>1, <2>2 DEF Main
<1>12. CASE MainFails \/ UserAnswers
  <2>1. procOK'
    BY <1>1, <1>12 DEF MainFails, UserAnswers, procOK
  <2>2. QED
    BY <1>2, <1>3, <1>4, <1>5, <1>12, <2>1 DEF MainFails, UserAnswers
<1>13. CASE Drain
  <2>1. battery_lvl' \in 0 .. FullBattery
    BY <1>1, <1>13, HeartAssumption DEF Drain, procOK
  <2>2. procOK'
    BY <1>1, <1>13, <2>1 DEF Drain, procOK
  <2>3. signalOK'
    BY <1>9, <1>13, <2>1 DEF Drain
  <2>4. QED
    BY <1>2, <1>3, <1>5, <1>13, <2>2, <2>3 DEF Drain
<1>14. CASE StartBattery
  <2>1. notifying' \in [Chrcs -> BOOLEAN]
    BY <1>1, <1>14 DEF StartBattery, procOK
  <2>2. procOK'
    BY <1>1, <1>14, <2>1 DEF StartBattery, procOK
  <2>3. signalOK'
    BY <1>1, <1>4, <1>9, <1>14 DEF StartBattery, procOK
  <2>4. QED
    BY <1>2, <1>3, <1>7, <1>14, <2>2, <2>3 DEF StartBattery
<1>15. CASE StartHeart \/ \E k \in Chrcs : StopNotify(k)
  <2>1. procOK'
    BY <1>1, <1>15 DEF StartHeart, StopNotify, procOK
  <2>2. QED
    BY <1>2, <1>3, <1>4, <1>7, <1>15, <2>1 DEF StartHeart, StopNotify
<1>16. CASE Asks \/ AdvertisementFailed \/ Ignored
  <2>1. procOK'
    BY <1>1, <1>6, <1>16 DEF Asks, AdvertisementFailed, Ignored, procOK
  <2>2. QED
    BY <1>2, <1>3, <1>4, <1>7, <1>16, <2>1 DEF Asks, AdvertisementFailed, Ignored
<1>17. CASE AdvertisementReply \/ ApplicationReply
  <2>1. queueOK'
    BY <1>5, <1>8, <1>17, MessageTypes DEF AdvertisementReply, ApplicationReply
  <2>2. bluezOK'
    BY <1>1, <1>17 DEF AdvertisementReply, ApplicationReply, bluezOK
  <2>3. QED
    BY <1>2, <1>4, <1>6, <1>17, <2>1, <2>2 DEF AdvertisementReply, ApplicationReply
<1>18. ASSUME NEW c \in Clients, Connect(c) \/ Pair(c)
       PROVE  HeartTypeOK'
  <2>1. queueOK'
    BY <1>5, <1>8, <1>18, MessageTypes DEF Connect, Pair
  <2>2. bluezOK'
    BY <1>1, <1>3, <1>18 DEF Connect, Pair, bluezOK
  <2>3. QED
    BY <1>2, <1>4, <1>6, <1>18, <2>1, <2>2 DEF Connect, Pair
<1>19. ASSUME NEW c \in Clients, NEW k \in Chrcs, Subscribe(c, k)
       PROVE  HeartTypeOK'
  <2>1. queueOK'
    BY <1>8, <1>19, MessageTypes DEF Subscribe
  <2>2. bluezOK'
    BY <1>1, <1>19 DEF Subscribe, bluezOK
  <2>3. QED
    BY <1>2, <1>4, <1>6, <1>19, <2>1, <2>2 DEF Subscribe
<1>20. ASSUME NEW c \in Clients, NEW ks \in SUBSET Chrcs, Unsubscribes(c, ks),
              UNCHANGED <<procVars, signals, advertised, registered>>,
              connected' \subseteq connected
       PROVE  HeartTypeOK'
  <2>1. queueOK'
    <3> DEFINE last == {k \in ks : \A d \in Clients \ {c} : k \notin ccc[d]}
    <3>1. PICK stops \in Stops(last) : calls' = calls \o stops
      BY <1>20 DEF Unsubscribes
    <3>2. last \in SUBSET Chrcs
      OBVIOUS
    <3> HIDE DEF last
    <3>3. stops \in Seq(Messages)
      <4>1. \/ stops = <<>>
            \/ \E a \in Chrcs : stops = <<Stop(a)>>
            \/ \E a, b \in Chrcs : stops = <<Stop(a), Stop(b)>>
        BY <3>1, <3>2, StopsOf
      <4>2. CASE stops = <<>>
        BY <4>2
      <4>3. ASSUME NEW a \in Chrcs, stops = <<Stop(a)>>
            PROVE  stops \in Seq(Messages)
        <5>1. Stop(a) \in Messages
          BY MessageTypes
        <5>2. QED
          BY <4>3, <5>1
      <4>4. ASSUME NEW a \in Chrcs, NEW b \in Chrcs, stops = <<Stop(a), Stop(b)>>
            PROVE  stops \in Seq(Messages)
        <5>1. Stop(a) \in Messages /\ Stop(b) \in Messages
          BY MessageTypes
        <5>2. QED
          BY <4>4, <5>1
      <4>5. QED
        BY <4>1, <4>2, <4>3, <4>4
    <3>4. QED
      BY <1>1, <3>1, <3>3 DEF queueOK
  <2>2. told' \in [Clients -> [Chrcs -> 0 .. FullBattery \cup {NULL}]]
    BY <1>1, <1>20 DEF Unsubscribes, bluezOK
  <2>3. bluezOK'
    BY <1>1, <1>20, <2>2 DEF Unsubscribes, bluezOK
  <2>4. QED
    BY <1>2, <1>4, <1>6, <1>20, <2>1, <2>3
<1>21. ASSUME NEW c \in Clients, Disconnect(c) \/ \E k \in Chrcs : Unsubscribe(c, k)
       PROVE  HeartTypeOK'
  <2>1. ccc[c] \in SUBSET Chrcs /\ \A k \in Chrcs : {k} \in SUBSET Chrcs
    BY <1>1 DEF bluezOK
  <2>2. QED
    BY <1>20, <1>21, <2>1 DEF Disconnect, Unsubscribe
<1>22. CASE Deliver
  <2>1. signalOK' /\ Head(signals) \in 0 .. FullBattery
    BY <1>1, <1>22, HeartAssumption DEF Deliver, signalOK
  <2>2. bluezOK'
    BY <1>1, <1>22, <2>1 DEF Deliver, bluezOK
  <2>3. QED
    BY <1>2, <1>5, <1>6, <1>22, <2>1, <2>2 DEF Deliver
<1>23. CASE DaemonRestarts \/ Gone
  <2>1. bluezOK'
    <3>1. ccc' \in [Clients -> SUBSET Chrcs]
      BY <1>23 DEF DaemonRestarts, Gone
    <3>2. told' \in [Clients -> [Chrcs -> 0 .. FullBattery \cup {NULL}]]
      BY <1>23 DEF DaemonRestarts, Gone
    <3>3. advertised' = "no" /\ registered' = "no" /\ connected' = {}
      BY <1>23 DEF DaemonRestarts, Gone
    <3>4. QED
      BY <3>1, <3>2, <3>3 DEF bluezOK
  <2>2. queueOK'
    <3>1. CASE DaemonRestarts
      BY <1>5, <1>8, <3>1, MessageTypes DEF DaemonRestarts
    <3>2. CASE Gone
      BY <3>2 DEF Gone, queueOK
    <3>3. QED
      BY <1>23, <3>1, <3>2
  <2>3. signalOK'
    <3>1. CASE DaemonRestarts
      BY <1>4, <3>1 DEF DaemonRestarts
    <3>2. CASE Gone
      BY <3>2, HeartAssumption DEF Gone, signalOK
    <3>3. QED
      BY <1>23, <3>1, <3>2
  <2>4. QED
    BY <1>2, <1>6, <1>23, <2>1, <2>2, <2>3 DEF DaemonRestarts, Gone
<1>24. CASE UNCHANGED heartVars
  BY <1>2, <1>3, <1>4, <1>5, <1>6, <1>24 DEF heartVars
<1>25. QED
  BY <1>11, <1>12, <1>13, <1>14, <1>15, <1>16, <1>17, <1>18, <1>19, <1>21, <1>22, <1>23, <1>24
     DEF HeartNext

\* Only a subscriber is notified, and what it was told goes with its subscription.
LEMMA ToldStep == HeartIInv /\ [HeartNext]_heartVars => ToldSubscribed'
<1> SUFFICES ASSUME HeartIInv, [HeartNext]_heartVars
             PROVE  ToldSubscribed'
  OBVIOUS
<1>1. HeartTypeOK /\ ToldSubscribed
  BY DEF HeartIInv
<1>2. ASSUME told' = told, \A c \in Clients : ccc[c] \subseteq ccc'[c]
      PROVE  ToldSubscribed'
  BY <1>1, <1>2 DEF ToldSubscribed
<1>3. ASSUME NEW c \in Clients, NEW ks, Unsubscribes(c, ks)
      PROVE  ToldSubscribed'
  <2> SUFFICES ASSUME NEW d \in Clients, NEW k \in Chrcs, told'[d][k] # NULL
               PROVE  k \in ccc'[d]
    BY DEF ToldSubscribed
  <2>1. told'[d] = IF d = c THEN [l \in Chrcs |-> IF l \in ks THEN NULL ELSE told[c][l]]
                   ELSE told[d]
    BY <1>1, <1>3 DEF Unsubscribes, HeartTypeOK
  <2>2. ccc'[d] = IF d = c THEN ccc[c] \ ks ELSE ccc[d]
    BY <1>1, <1>3 DEF Unsubscribes, HeartTypeOK
  <2>3. QED
    BY <1>1, <2>1, <2>2 DEF ToldSubscribed
<1>4. CASE Deliver
  <2> SUFFICES ASSUME NEW d \in Clients, NEW k \in Chrcs, told'[d][k] # NULL
               PROVE  k \in ccc'[d]
    BY DEF ToldSubscribed
  <2>1. told'[d] = IF "battery" \in ccc[d] THEN [told[d] EXCEPT !["battery"] = Head(signals)]
                   ELSE told[d]
    BY <1>4 DEF Deliver
  <2>2. told[d] \in [Chrcs -> 0 .. FullBattery \cup {NULL}] /\ ccc' = ccc
    BY <1>1, <1>4 DEF Deliver, HeartTypeOK
  <2>3. QED
    BY <1>1, <2>1, <2>2 DEF ToldSubscribed
<1>5. CASE DaemonRestarts \/ Gone
  BY <1>5 DEF DaemonRestarts, Gone, ToldSubscribed
<1>6. ASSUME NEW c \in Clients, NEW k \in Chrcs, Subscribe(c, k)
      PROVE  ToldSubscribed'
  BY <1>1, <1>2, <1>6 DEF Subscribe, HeartTypeOK
<1>7. ASSUME NEW c \in Clients, Disconnect(c) \/ \E k \in Chrcs : Unsubscribe(c, k)
      PROVE  ToldSubscribed'
  BY <1>3, <1>7 DEF Disconnect, Unsubscribe
<1>8. ASSUME NEW c \in Clients, Connect(c) \/ Pair(c)
      PROVE  ToldSubscribed'
  BY <1>2, <1>8 DEF Connect, Pair, bluezVars
<1>9. CASE Main \/ MainFails \/ Drain \/ StartBattery \/ StartHeart \/ \E k \in Chrcs : StopNotify(k)
  BY <1>2, <1>9 DEF Main, MainFails, Drain, StartBattery, StartHeart, StopNotify, bluezVars
<1>10. CASE Asks \/ UserAnswers \/ AdvertisementFailed \/ Ignored \/ AdvertisementReply \/ ApplicationReply
  BY <1>2, <1>10 DEF Asks, UserAnswers, AdvertisementFailed, Ignored, AdvertisementReply,
                     ApplicationReply, bluezVars
<1>11. CASE UNCHANGED heartVars
  BY <1>2, <1>11 DEF heartVars, bluezVars
<1>12. QED
  BY <1>4, <1>5, <1>6, <1>7, <1>8, <1>9, <1>10, <1>11 DEF HeartNext

\* The value signalled last is the level, as long as the flag is set.
LEMMA LastStep == HeartIInv /\ [HeartNext]_heartVars => LastSignalled'
<1> SUFFICES ASSUME HeartIInv, [HeartNext]_heartVars
             PROVE  LastSignalled'
  OBVIOUS
<1>1. HeartTypeOK /\ LastSignalled /\ ToldSubscribed
  BY DEF HeartIInv
<1> DEFINE Tells == \A c \in Clients : told'[c]["battery"] # NULL =>
                        told'[c]["battery"] = told[c]["battery"]
<1>2. ASSUME notifying'["battery"] => notifying["battery"], UNCHANGED <<signals, battery_lvl>>, Tells
      PROVE  LastSignalled'
  BY <1>1, <1>2 DEF LastSignalled
<1>3. ASSUME UNCHANGED told
      PROVE  Tells
  BY <1>3
<1>4. ASSUME NEW c \in Clients, NEW ks, Unsubscribes(c, ks)
      PROVE  Tells
  BY <1>1, <1>4 DEF Unsubscribes, HeartTypeOK, Chrcs
<1>5. ASSUME Signal(battery_lvl'), notifying'["battery"]
      PROVE  LastSignalled'
  <2>1. signals' = Append(signals, battery_lvl') /\ signals \in Seq(0 .. FullBattery)
    BY <1>1, <1>5 DEF Signal, HeartTypeOK
  <2>2. signals' # <<>> /\ signals'[Len(signals')] = battery_lvl'
    BY <2>1
  <2>3. QED
    BY <2>2 DEF LastSignalled
<1> HIDE DEF Tells
<1>6. CASE Drain
  BY <1>5, <1>6 DEF Drain, LastSignalled
<1>7. CASE StartBattery
  <2>1. CASE notifying["battery"]
    BY <1>2, <1>3, <1>7, <2>1 DEF StartBattery, bluezVars
  <2>2. CASE ~notifying["battery"]
    <3>1. notifying'["battery"]
      BY <1>1, <1>7, <2>2 DEF StartBattery, HeartTypeOK, Chrcs
    <3>2. Signal(battery_lvl) /\ battery_lvl' = battery_lvl
      BY <1>7, <2>2, Zenon DEF StartBattery
    <3>3. Signal(battery_lvl')
      BY <3>2 DEF Signal
    <3>4. QED
      BY <1>5, <3>1, <3>3
  <2>3. QED
    BY <2>1, <2>2
<1>8. CASE StartHeart \/ \E k \in Chrcs : StopNotify(k)
  <2>1. notifying'["battery"] => notifying["battery"]
    BY <1>1, <1>8 DEF StartHeart, StopNotify, HeartTypeOK, Chrcs
  <2>2. QED
    BY <1>2, <1>3, <1>8, <2>1 DEF StartHeart, StopNotify, bluezVars
<1>9. CASE Deliver
  <2> SUFFICES ASSUME notifying["battery"]
               PROVE  IF signals' = <<>>
                      THEN \A c \in Clients : told'[c]["battery"] # NULL => told'[c]["battery"] = battery_lvl
                      ELSE signals'[Len(signals')] = battery_lvl
    BY <1>9 DEF Deliver, LastSignalled, procVars
  <2>1. signals \in Seq(0 .. FullBattery) /\ signals # <<>> /\ signals' = Tail(signals)
    BY <1>1, <1>9 DEF Deliver, HeartTypeOK
  <2>2. signals[Len(signals)] = battery_lvl
    BY <1>1, <2>1 DEF LastSignalled
  <2>3. CASE signals' = <<>>
    <3>1. Len(signals) = 1 /\ Head(signals) = battery_lvl
      <4>1. Len(Tail(signals)) = Len(signals) - 1 /\ Len(signals) \in Nat
        BY <2>1
      <4>2. Tail(signals) = <<>>
        BY <2>1, <2>3
      <4>3. Len(Tail(signals)) = 0
        BY <4>2, EmptySeq
      <4>4. Len(signals) = 1
        BY <4>1, <4>3
      <4>5. QED
        BY <2>1, <2>2, <4>4
    <3>2. ASSUME NEW c \in Clients, told'[c]["battery"] # NULL
          PROVE  told'[c]["battery"] = battery_lvl
      <4>1. CASE "battery" \in ccc[c]
        BY <1>1, <1>9, <3>1, <4>1 DEF Deliver, HeartTypeOK, Chrcs
      <4>2. CASE "battery" \notin ccc[c]
        BY <1>1, <1>9, <3>2, <4>2 DEF Deliver, ToldSubscribed, Chrcs
      <4>3. QED
        BY <4>1, <4>2
    <3>3. QED
      BY <2>3, <3>2
  <2>4. CASE signals' # <<>>
    <3>1. signals'[Len(signals')] = signals[Len(signals)]
      BY <2>1, <2>4
    <3>2. QED
      BY <2>2, <2>4, <3>1
  <2>5. QED
    BY <2>3, <2>4
<1>10. CASE DaemonRestarts
  <2>1. Tells
    BY <1>10 DEF DaemonRestarts, Tells, Chrcs
  <2>2. QED
    BY <1>2, <1>10, <2>1 DEF DaemonRestarts, procVars
<1>11. CASE Gone
  BY <1>11 DEF Gone, LastSignalled, Chrcs
<1>12. ASSUME NEW c \in Clients, Disconnect(c) \/ \E k \in Chrcs : Unsubscribe(c, k)
       PROVE  LastSignalled'
  BY <1>2, <1>4, <1>12 DEF Disconnect, Unsubscribe, procVars
<1>13. ASSUME NEW c \in Clients, Connect(c) \/ Pair(c) \/ \E k \in Chrcs : Subscribe(c, k)
       PROVE  LastSignalled'
  BY <1>2, <1>3, <1>13 DEF Connect, Pair, Subscribe, bluezVars, procVars
<1>14. CASE Main \/ MainFails \/ Asks \/ UserAnswers \/ AdvertisementFailed \/ Ignored
            \/ AdvertisementReply \/ ApplicationReply
  BY <1>2, <1>3, <1>14 DEF Main, MainFails, Asks, UserAnswers, AdvertisementFailed, Ignored,
                           AdvertisementReply, ApplicationReply, bluezVars, procVars
<1>15. CASE UNCHANGED heartVars
  BY <1>2, <1>3, <1>15 DEF heartVars, bluezVars, procVars
<1>16. QED
  BY <1>6, <1>7, <1>8, <1>9, <1>10, <1>11, <1>12, <1>13, <1>14, <1>15 DEF HeartNext

\* Subscriptions come with the registration, calls with the subscriptions.
LEMMA UnregisteredStep == HeartIInv /\ [HeartNext]_heartVars => Unregistered'
<1> SUFFICES ASSUME HeartIInv, [HeartNext]_heartVars
             PROVE  Unregistered'
  OBVIOUS
<1>1. HeartTypeOK /\ Unregistered
  BY DEF HeartIInv
<1>2. ASSUME proc' # "boot", registered' # "pending",
             registered' # "yes" => \A c \in Clients : ccc'[c] = {}
      PROVE  Unregistered'
  BY <1>2 DEF Unregistered
<1>3. ASSUME NEW m \in Messages, \A k \in Chrcs : ~Mentions(m, k), calls' = Append(calls, m)
      PROVE  \A k \in Chrcs : About(k) = {} => About(k)' = {}
  <2>1. calls \in Seq(Messages)
    BY <1>1, MessageTypes
  <2>2. /\ DOMAIN calls' = 1 .. Len(calls) + 1 /\ DOMAIN calls = 1 .. Len(calls) /\ Len(calls) \in Nat
        /\ \A j \in 1 .. Len(calls) : calls'[j] = calls[j]
        /\ calls'[Len(calls) + 1] = m
    BY <1>3, <2>1
  <2>3. QED
    BY <1>3, <2>2 DEF About, Mentions
<1>4. ASSUME NEW m, Handles(m)
      PROVE  \A k \in Chrcs : About(k) = {} => About(k)' = {} /\ ~Mentions(m, k)
  <2>1. calls \in Seq(Messages) /\ calls # <<>> /\ calls' = Tail(calls) /\ m = calls[1]
    <3>1. calls \in Seq(Messages) /\ calls # <<>> /\ m = Head(calls)
      BY <1>1, <1>4, MessageTypes, Zenon DEF Handles
    <3>2. Head(calls) = calls[1]
      BY <3>1
    <3>3. QED
      BY <1>4, <3>1, <3>2, Zenon DEF Handles
  <2>2. /\ DOMAIN calls = 1 .. Len(calls) /\ Len(calls) \in Nat /\ Len(calls) >= 1
        /\ DOMAIN calls' = 1 .. Len(calls) - 1
        /\ \A j \in 1 .. Len(calls) - 1 : calls'[j] = calls[j + 1]
    BY <2>1
  <2> SUFFICES ASSUME NEW k \in Chrcs, About(k) = {}
               PROVE  About(k)' = {} /\ ~Mentions(m, k)
    OBVIOUS
  <2>3. \A j \in 1 .. Len(calls) : ~Mentions(calls[j], k)
    BY <2>2 DEF About, Mentions
  <2>4. \A j \in 1 .. Len(calls) - 1 : ~Mentions(calls'[j], k)
    BY <2>2, <2>3
  <2>5. QED
    BY <2>1, <2>2, <2>3, <2>4 DEF About, Mentions
<1>5. ASSUME UNCHANGED <<registered, ccc>>, proc # "boot", proc' # "boot",
             \A k \in Chrcs : ~notifying[k] /\ About(k) = {} => ~notifying'[k] /\ About(k)' = {}
      PROVE  Unregistered'
  BY <1>1, <1>5 DEF Unregistered
<1>6. UNCHANGED calls => \A k \in Chrcs : About(k)' = About(k)
  BY DEF About
<1>7. \A k \in Chrcs : \A m \in {"RequestAuthorization", "Release", "advertisement failed",
                                "application failed"} : ~Mentions(Message(m), k)
  BY Apart DEF Mentions
<1>8. CASE Main
  BY <1>1, <1>6, <1>8 DEF Main, Unregistered
<1>9. CASE MainFails
  BY <1>1, <1>2, <1>9 DEF MainFails, Unregistered, bluezVars
<1>10. CASE Drain \/ UserAnswers
  BY <1>5, <1>6, <1>10 DEF Drain, UserAnswers, bluezVars
<1>11. CASE StartBattery \/ StartHeart \/ \E k \in Chrcs : StopNotify(k)
  <2>1. PICK m : Handles(m) /\ \A k \in Chrcs : ~Mentions(m, k) => (notifying'[k] <=> notifying[k])
    <3>1. CASE StartBattery
      BY <1>1, <3>1 DEF StartBattery, HeartTypeOK, Mentions, Chrcs
    <3>2. CASE StartHeart
      BY <1>1, <3>2 DEF StartHeart, HeartTypeOK, Mentions, Chrcs
    <3>3. ASSUME NEW k \in Chrcs, StopNotify(k)
          PROVE  \E m : Handles(m) /\ \A l \in Chrcs : ~Mentions(m, l) => (notifying'[l] <=> notifying[l])
      BY <1>1, <3>3 DEF StopNotify, HeartTypeOK, Mentions
    <3>4. QED
      BY <1>11, <3>1, <3>2, <3>3
  <2>2. proc # "boot" /\ UNCHANGED <<proc, registered, ccc>>
    BY <1>11 DEF StartBattery, StartHeart, StopNotify, Handles, bluezVars
  <2>3. QED
    BY <1>4, <1>5, <2>1, <2>2
<1>12. CASE Asks \/ AdvertisementFailed \/ Ignored
  <2>1. PICK m : Handles(m)
    BY <1>12 DEF Asks, AdvertisementFailed, Ignored
  <2>2. proc # "boot" /\ proc' # "boot" /\ UNCHANGED <<notifying, registered, ccc>>
    BY <1>12 DEF Asks, AdvertisementFailed, Ignored, Handles, bluezVars, procVars
  <2>3. QED
    BY <1>4, <1>5, <2>1, <2>2
<1>13. CASE AdvertisementReply
  <2>1. \A k \in Chrcs : About(k) = {} => About(k)' = {}
    BY <1>3, <1>6, <1>7, <1>13, MessageTypes DEF AdvertisementReply
  <2>2. proc # "boot"
    BY <1>1, <1>13 DEF AdvertisementReply, Unregistered
  <2>3. QED
    BY <1>5, <1>13, <2>1, <2>2 DEF AdvertisementReply, procVars
<1>14. CASE ApplicationReply
  <2>1. proc # "boot"
    BY <1>1, <1>14 DEF ApplicationReply, Unregistered
  <2>2. registered' \in {"yes", "no"} /\ \A c \in Clients : ccc'[c] = {}
    BY <1>1, <1>14 DEF ApplicationReply, Unregistered
  <2>3. QED
    BY <1>2, <1>14, <2>1, <2>2 DEF ApplicationReply, procVars
<1>15. CASE DaemonRestarts \/ Gone
  BY <1>2, <1>15 DEF DaemonRestarts, Gone, procVars
<1>16. CASE Deliver \/ UNCHANGED heartVars
  BY <1>1, <1>6, <1>16 DEF Deliver, heartVars, bluezVars, procVars, Unregistered
<1>17. ASSUME NEW c \in Clients, Connect(c) \/ Pair(c)
       PROVE  Unregistered'
  <2>1. proc # "boot" /\ UNCHANGED <<procVars, registered, ccc>>
    BY <1>1, <1>17 DEF Connect, Pair, Unregistered, bluezVars
  <2>2. \A k \in Chrcs : About(k) = {} => About(k)' = {}
    BY <1>3, <1>6, <1>7, <1>17, MessageTypes DEF Connect, Pair
  <2>3. QED
    BY <1>5, <2>1, <2>2 DEF procVars
<1>18. ASSUME NEW c \in Clients, NEW k \in Chrcs, Subscribe(c, k) \/ Unsubscribe(c, k)
       PROVE  Unregistered'
  <2>1. registered = "yes"
    BY <1>1, <1>18 DEF Subscribe, Unsubscribe, Unregistered
  <2>2. registered' = "yes" /\ proc' = proc /\ proc # "boot"
    BY <1>1, <1>18, <2>1 DEF Subscribe, Unsubscribe, Unregistered, procVars
  <2>3. QED
    BY <1>2, <2>2
<1>19. ASSUME NEW c \in Clients, Disconnect(c)
       PROVE  Unregistered'
  <2>1. proc # "boot" /\ UNCHANGED <<procVars, registered>>
    BY <1>1, <1>19 DEF Disconnect, Unregistered
  <2>2. CASE registered = "yes"
    BY <1>2, <2>1, <2>2 DEF procVars
  <2>3. CASE registered # "yes"
    <3>1. ccc[c] = {} /\ {k \in ccc[c] : \A d \in Clients \ {c} : k \notin ccc[d]} = {}
      BY <1>1, <2>3 DEF Unregistered
    <3>2. PICK stops \in Stops({}) : calls' = calls \o stops
      BY <1>19, <3>1 DEF Disconnect, Unsubscribes
    <3>3. stops = <<>>
      BY <3>2, StopsOf
    <3>4. calls' = calls
      <4>1. calls \in Seq(Messages)
        BY <1>1, MessageTypes
      <4>2. calls \o <<>> = calls
        BY <4>1, ConcatEmptySeq
      <4>3. QED
        BY <3>2, <3>3, <4>2
    <3>5. ccc' = ccc
      BY <1>1, <1>19, <3>1 DEF Disconnect, Unsubscribes, HeartTypeOK
    <3>6. QED
      BY <1>5, <1>6, <2>1, <3>4, <3>5 DEF procVars
  <2>4. QED
    BY <2>2, <2>3
<1>20. QED
  BY <1>8, <1>9, <1>10, <1>11, <1>12, <1>13, <1>14, <1>15, <1>16, <1>17, <1>18, <1>19
     DEF HeartNext

\* Ending the subscriptions to last, and to nothing else, after the messages q.
LEMMA StopsAgree ==
    ASSUME NEW q \in Seq(Messages), NEW last \in SUBSET Chrcs, NEW stops \in Stops(last),
           NEW k \in Chrcs, NEW flag \in BOOLEAN, NEW sub \in BOOLEAN, NEW newSub \in BOOLEAN,
           Agrees(q, k, flag, sub),
           newSub = IF k \in last THEN FALSE ELSE sub
    PROVE  Agrees(q \o stops, k, flag, newSub)
<1>1. ASSUME NEW a \in Chrcs
      PROVE  Stop(a) \in Messages /\ (Mentions(Stop(a), k) <=> a = k)
             /\ (Stop(a) = Start(k) <=> FALSE)
  <2>1. Stop(a) # Start(k) /\ (Stop(a) = Stop(k) => a = k)
    BY Apart
  <2>2. QED
    BY <2>1, MessageTypes DEF Mentions
<1>2. ASSUME NEW r \in Seq(Messages), NEW a \in Chrcs, NEW s \in BOOLEAN, Agrees(r, k, flag, s)
      PROVE  Agrees(Append(r, Stop(a)), k, flag, IF a = k THEN FALSE ELSE s)
  <2>1. CASE a = k
    BY <1>1, <2>1, AppendDecides
  <2>2. CASE a # k
    BY <1>1, <1>2, <2>2, AppendQuiet
  <2>3. QED
    BY <2>1, <2>2
<1>3. CASE last = {} /\ stops = <<>>
  <2>1. q \o <<>> = q
    BY ConcatEmptySeq
  <2>2. QED
    BY <1>3, <2>1
<1>4. ASSUME NEW a \in Chrcs, last = {a}, stops = <<Stop(a)>>
      PROVE  Agrees(q \o stops, k, flag, newSub)
  <2>1. q \o <<Stop(a)>> = Append(q, Stop(a))
    BY <1>1
  <2>2. newSub = IF a = k THEN FALSE ELSE sub
    BY <1>4
  <2>3. QED
    BY <1>2, <1>4, <2>1, <2>2
<1>5. ASSUME NEW a \in Chrcs, NEW b \in Chrcs, last = {a, b}, stops = <<Stop(a), Stop(b)>>
      PROVE  Agrees(q \o stops, k, flag, newSub)
  <2> DEFINE r == Append(q, Stop(a))
             s == IF a = k THEN FALSE ELSE sub
  <2>1. q \o <<Stop(a), Stop(b)>> = Append(r, Stop(b))
    BY <1>1
  <2>2. r \in Seq(Messages) /\ Agrees(r, k, flag, s) /\ s \in BOOLEAN
    <3>1. Agrees(r, k, flag, s)
      BY <1>2, Zenon
    <3>2. s \in BOOLEAN
      OBVIOUS
    <3>3. r \in Seq(Messages)
      BY <1>1
    <3>4. QED
      BY <3>1, <3>2, <3>3, Zenon
  <2>3. newSub = IF b = k THEN FALSE ELSE s
    BY <1>5
  <2> HIDE DEF r, s
  <2>4. Agrees(Append(r, Stop(b)), k, flag, newSub)
    BY <1>2, <2>2, <2>3
  <2>5. QED
    BY <1>5, <2>1, <2>4
<1>6. \/ last = {} /\ stops = <<>>
      \/ \E a \in Chrcs : last = {a} /\ stops = <<Stop(a)>>
      \/ \E a, b \in Chrcs : last = {a, b} /\ a # b /\ stops = <<Stop(a), Stop(b)>>
  <2>1. last \in SUBSET Chrcs /\ stops \in Stops(last)
    OBVIOUS
  <2>2. QED
    BY ONLY <2>1, StopsOf, Zenon
<1>7. QED
  BY <1>3, <1>4, <1>5, <1>6, Zenon

\* The flags, after the calls on their way, follow the subscriptions.
LEMMA NotifiesStep == HeartIInv /\ [HeartNext]_heartVars => NotifiesSubscribers'
<1> SUFFICES ASSUME HeartIInv, [HeartNext]_heartVars
             PROVE  NotifiesSubscribers'
  OBVIOUS
<1> DEFINE A(k) == Agrees(calls, k, notifying[k], Subscribed(k))
           B(k) == Agrees(calls', k, notifying'[k], Subscribed(k)')
<1>1. /\ HeartTypeOK /\ Unregistered
      /\ registered = "yes" => \A k \in Chrcs : A(k)
  BY NotifiesAgrees DEF HeartIInv
<1>2. ASSUME registered' = "yes" => registered = "yes",
             \A k \in Chrcs : A(k) => B(k)
      PROVE  NotifiesSubscribers'
  <2>1. registered' = "yes" => \A k \in Chrcs : B(k)
    BY <1>1, <1>2
  <2>2. QED
    BY <2>1, NotifiesAgreesNext
<1>3. ASSUME registered' # "yes"
      PROVE  NotifiesSubscribers'
  BY <1>3 DEF NotifiesSubscribers
<1>4. calls \in Seq(Messages) /\ HeartTypeOK'
  BY <1>1, MessageTypes, HeartTypeStep
<1>5. \A k \in Chrcs : notifying[k] \in BOOLEAN /\ notifying'[k] \in BOOLEAN
  BY <1>1, <1>4 DEF HeartTypeOK
<1>6. \A k \in Chrcs : Subscribed(k) \in BOOLEAN /\ Subscribed(k)' \in BOOLEAN
  BY DEF Subscribed
<1>7. UNCHANGED ccc => \A k \in Chrcs : Subscribed(k)' = Subscribed(k)
  BY DEF Subscribed
<1>8. ASSUME NEW m, Handles(m), UNCHANGED <<registered, ccc>>,
             \A k \in Chrcs : /\ m = Start(k) => notifying'[k]
                              /\ m = Stop(k) => ~notifying'[k]
                              /\ ~Mentions(m, k) => notifying'[k] = notifying[k]
      PROVE  NotifiesSubscribers'
  <2>1. calls # <<>> /\ calls' = Tail(calls) /\ m = Head(calls)
    BY <1>8 DEF Handles
  <2>2. ASSUME NEW k \in Chrcs, A(k)
        PROVE  B(k)
    <3>1. Agrees(Tail(calls), k, notifying'[k], Subscribed(k))
      BY <1>4, <1>5, <1>6, <1>8, <2>1, <2>2, HandledAgrees
    <3>2. QED
      BY <1>7, <1>8, <2>1, <3>1
  <2>3. QED
    BY <1>2, <1>8, <2>2
<1>9. ASSUME UNCHANGED <<calls, notifying, registered, ccc>>
      PROVE  NotifiesSubscribers'
  BY <1>2, <1>7, <1>9
<1>10. ASSUME NEW m \in {"RequestAuthorization", "Release", "advertisement failed", "application failed"},
              calls' = Append(calls, Message(m)), UNCHANGED <<notifying, registered, ccc>>
       PROVE  NotifiesSubscribers'
  <2>1. ASSUME NEW k \in Chrcs, A(k)
        PROVE  B(k)
    <3>1. Message(m) \in Messages /\ ~Mentions(Message(m), k)
      BY MessageTypes, Apart DEF Mentions
    <3>2. Agrees(Append(calls, Message(m)), k, notifying[k], Subscribed(k))
      BY <1>4, <1>5, <1>6, <2>1, <3>1, AppendQuiet
    <3>3. QED
      BY <1>7, <1>10, <3>2
  <2>2. QED
    BY <1>2, <1>10, <2>1
<1> HIDE DEF A, B
<1>11. CASE StartBattery
  <2>1. notifying'["battery"] /\ notifying'["heart"] = notifying["heart"]
    BY <1>1, <1>11 DEF StartBattery, HeartTypeOK, Chrcs
  <2>2. Handles(Start("battery")) /\ UNCHANGED <<registered, ccc>>
    BY <1>11 DEF StartBattery, bluezVars
  <2>3. \A k \in Chrcs : /\ Start("battery") = Start(k) => notifying'[k]
                         /\ Start("battery") # Stop(k)
                         /\ ~Mentions(Start("battery"), k) => notifying'[k] = notifying[k]
    BY <2>1, Apart DEF Chrcs, Mentions
  <2>4. QED
    BY <1>8, <2>2, <2>3
<1>12. CASE StartHeart
  <2>1. notifying'["heart"] /\ notifying'["battery"] = notifying["battery"]
    BY <1>1, <1>12 DEF StartHeart, HeartTypeOK, Chrcs
  <2>2. Handles(Start("heart")) /\ UNCHANGED <<registered, ccc>>
    BY <1>12 DEF StartHeart, bluezVars
  <2>3. \A k \in Chrcs : /\ Start("heart") = Start(k) => notifying'[k]
                         /\ Start("heart") # Stop(k)
                         /\ ~Mentions(Start("heart"), k) => notifying'[k] = notifying[k]
    BY <2>1, Apart DEF Chrcs, Mentions
  <2>4. QED
    BY <1>8, <2>2, <2>3
<1>13. ASSUME NEW l \in Chrcs, StopNotify(l)
       PROVE  NotifiesSubscribers'
  <2>1. Handles(Stop(l)) /\ UNCHANGED <<registered, ccc>>
    BY <1>13 DEF StopNotify, bluezVars
  <2>2. \A k \in Chrcs : notifying'[k] = IF k = l THEN FALSE ELSE notifying[k]
    BY <1>1, <1>13 DEF StopNotify, HeartTypeOK
  <2>3. \A k \in Chrcs : /\ Stop(l) # Start(k)
                         /\ Stop(l) = Stop(k) => ~notifying'[k]
                         /\ ~Mentions(Stop(l), k) => notifying'[k] = notifying[k]
    BY <2>2, Apart DEF Mentions
  <2>4. QED
    BY <1>8, <2>1, <2>3
<1>14. CASE Asks \/ AdvertisementFailed \/ Ignored
  <2>1. PICK m \in {"RequestAuthorization", "Release", "advertisement failed", "application failed"} :
           Handles(Message(m))
    BY <1>14 DEF Asks, AdvertisementFailed, Ignored
  <2>2. UNCHANGED <<notifying, registered, ccc>>
    BY <1>14 DEF Asks, AdvertisementFailed, Ignored, procVars, bluezVars
  <2>3. \A k \in Chrcs : Message(m) # Start(k) /\ Message(m) # Stop(k)
    BY Apart
  <2>4. QED
    BY <1>8, <2>1, <2>2, <2>3
<1>15. CASE Main \/ DaemonRestarts \/ Gone
  BY <1>3, <1>15 DEF Main, DaemonRestarts, Gone
<1>16. CASE MainFails \/ Drain \/ UserAnswers \/ Deliver \/ UNCHANGED heartVars
  BY <1>9, <1>16 DEF MainFails, Drain, UserAnswers, Deliver, heartVars, procVars, bluezVars
<1>17. CASE AdvertisementReply
  BY <1>9, <1>10, <1>17 DEF AdvertisementReply, procVars
<1>18. CASE ApplicationReply
  <2>1. CASE registered' = "yes"
    <3>1. registered = "pending" /\ UNCHANGED <<calls, notifying, ccc>>
      BY <1>18, <2>1 DEF ApplicationReply, procVars
    <3>2. ASSUME NEW k \in Chrcs
          PROVE  About(k)' = {} /\ ~notifying'[k] /\ ~Subscribed(k)'
      BY <1>1, <3>1 DEF Unregistered, About, Subscribed
    <3>3. QED
      BY <3>2 DEF NotifiesSubscribers
  <2>2. QED
    BY <1>3, <2>1
<1>19. ASSUME NEW c \in Clients, Connect(c) \/ Pair(c)
       PROVE  NotifiesSubscribers'
  BY <1>9, <1>10, <1>19 DEF Connect, Pair, procVars, bluezVars
<1>20. ASSUME NEW c \in Clients, NEW l \in Chrcs, Subscribe(c, l)
       PROVE  NotifiesSubscribers'
  <2>1. UNCHANGED <<notifying, registered>> /\ calls' = Append(calls, Start(l))
    BY <1>20 DEF Subscribe, procVars
  <2>2. ccc' = [ccc EXCEPT ![c] = @ \cup {l}]
    BY <1>20 DEF Subscribe
  <2>3. ASSUME NEW k \in Chrcs, A(k)
        PROVE  B(k)
    <3>1. CASE k = l
      <4>1. Subscribed(k)' = TRUE
        BY <1>1, <2>2, <3>1 DEF Subscribed, HeartTypeOK
      <4>2. Agrees(Append(calls, Start(k)), k, notifying[k], TRUE)
        BY <1>4, <1>5, AppendDecides
      <4>3. QED
        BY <2>1, <3>1, <4>1, <4>2 DEF B
    <3>2. CASE k # l
      <4>1. Subscribed(k)' = Subscribed(k)
        BY <1>1, <2>2, <3>2 DEF Subscribed, HeartTypeOK
      <4>2. Start(l) \in Messages /\ ~Mentions(Start(l), k)
        BY <3>2, MessageTypes, Apart DEF Mentions
      <4>3. Agrees(Append(calls, Start(l)), k, notifying[k], Subscribed(k))
        BY <1>4, <1>5, <1>6, <2>3, <4>2, AppendQuiet DEF A
      <4>4. QED
        BY <2>1, <4>1, <4>3 DEF B
    <3>3. QED
      BY <3>1, <3>2
  <2>4. QED
    BY <1>2, <2>1, <2>3
<1>21. ASSUME NEW c \in Clients, NEW ks \in SUBSET Chrcs, ks \subseteq ccc[c],
              Unsubscribes(c, ks), UNCHANGED <<notifying, registered>>
       PROVE  NotifiesSubscribers'
  <2> DEFINE last == {k \in ks : \A d \in Clients \ {c} : k \notin ccc[d]}
  <2>1. PICK stops \in Stops(last) : calls' = calls \o stops
    BY <1>21 DEF Unsubscribes
  <2>2. ccc' = [ccc EXCEPT ![c] = @ \ ks]
    BY <1>21 DEF Unsubscribes
  <2>3. ASSUME NEW k \in Chrcs
        PROVE  Subscribed(k)' = IF k \in last THEN FALSE ELSE Subscribed(k)
    BY <1>1, <1>21, <2>2 DEF Subscribed, HeartTypeOK
  <2>4. last \in SUBSET Chrcs
    OBVIOUS
  <2> HIDE DEF last
  <2>5. ASSUME NEW k \in Chrcs, A(k)
        PROVE  B(k)
    <3>1. Agrees(calls \o stops, k, notifying[k], Subscribed(k)')
      BY <1>4, <1>5, <1>6, <2>1, <2>3, <2>4, <2>5, StopsAgree DEF A
    <3>2. QED
      BY <1>21, <2>1, <3>1 DEF B
  <2>6. QED
    BY <1>2, <1>21, <2>5
<1>22. ASSUME NEW c \in Clients, Disconnect(c) \/ \E k \in Chrcs : Unsubscribe(c, k)
       PROVE  NotifiesSubscribers'
  <2>1. ccc[c] \in SUBSET Chrcs /\ \A k \in Chrcs : {k} \in SUBSET Chrcs
    BY <1>1 DEF HeartTypeOK
  <2>2. CASE Disconnect(c)
    BY <1>21, <2>1, <2>2 DEF Disconnect, procVars
  <2>3. ASSUME NEW k \in Chrcs, Unsubscribe(c, k)
        PROVE  NotifiesSubscribers'
    <3>1. {k} \subseteq ccc[c]
      BY <2>3 DEF Unsubscribe
    <3>2. QED
      BY <1>21, <2>1, <2>3, <3>1 DEF Unsubscribe, procVars
  <2>4. QED
    BY <1>22, <2>2, <2>3
<1>23. QED
  BY <1>11, <1>12, <1>13, <1>14, <1>15, <1>16, <1>17, <1>18, <1>19, <1>20, <1>22 DEF HeartNext

------------------------------------------------------------------------------
\* The invariant holds in every reachable state.
LEMMA HeartInvariant == HeartSpec => []HeartIInv
<1>1. HeartIInv /\ [HeartNext]_heartVars => HeartIInv'
  BY HeartTypeStep, UnregisteredStep, ToldStep, NotifiesStep, LastStep DEF HeartIInv
<1>2. QED
  BY <1>1, HeartInitInv, PTL DEF HeartSpec

(***************************************************************************)
(* Type correctness, for any number of clients and any bounds: the level   *)
(* of the battery never leaves its range.                                  *)
(***************************************************************************)
THEOREM HeartTypeCorrect == HeartSpec => []HeartTypeOK
<1>1. HeartIInv => HeartTypeOK
  BY DEF HeartIInv
<1>2. QED
  BY <1>1, HeartInvariant, PTL

(***************************************************************************)
(* With any number of clients behind one flag and any number of calls that *)
(* wait, the flag follows the subscriptions.                               *)
(***************************************************************************)
THEOREM FlagsFollow == HeartSpec => []NotifiesSubscribers
<1>1. HeartIInv => NotifiesSubscribers
  BY DEF HeartIInv
<1>2. QED
  BY <1>1, HeartInvariant, PTL

(***************************************************************************)
(* No client keeps a level of the battery that nothing will correct.       *)
(***************************************************************************)
THEOREM LevelIsCurrent == HeartSpec => []LevelCurrent
<1>1. HeartIInv => LevelCurrent
  <2> SUFFICES ASSUME HeartIInv, NEW c \in Clients, told[c]["battery"] # NULL,
                      About("battery") = {}
               PROVE  \/ told[c]["battery"] = battery_lvl /\ signals = <<>>
                      \/ signals # <<>> /\ signals[Len(signals)] = battery_lvl
    BY DEF LevelCurrent
  <2>1. "battery" \in Chrcs
    BY DEF Chrcs
  <2>2. "battery" \in ccc[c]
    BY <2>1 DEF HeartIInv, ToldSubscribed
  <2>3. registered = "yes" /\ Subscribed("battery")
    BY <2>2 DEF HeartIInv, Unregistered, Subscribed
  <2>4. notifying["battery"]
    BY <2>1, <2>3 DEF HeartIInv, NotifiesSubscribers
  <2>5. QED
    BY <2>4 DEF HeartIInv, LastSignalled
<1>2. QED
  BY <1>1, HeartInvariant, PTL

=============================================================================
