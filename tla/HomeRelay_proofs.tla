---------------------------- MODULE HomeRelay_proofs ----------------------------
(***************************************************************************)
(* Proofs about the relay and the sensor together.  The proofs of the two  *)
(* programs are instantiated, Relay with the sensor's state cut down to    *)
(* the relay's connection and Esp with the sensor's own: their invariants  *)
(* and theorems are used here once every step of the two together has been *)
(* shown to be a step of each (RelayStep, EspStep).                        *)
(***************************************************************************)
EXTENDS HomeRelay, SequenceTheorems, TLAPS

\* The relay's proofs, of the sensor's state as far as it is the relay's.
Relay == INSTANCE RelayTraffic_proofs WITH
    ccc <- IF joined THEN ccc ELSE {}, dirty <- joined /\ dirty

\* The sensor's proofs.
Esp == INSTANCE Sensor_proofs WITH
    MayFail <- DeviceMayFail, modified <- dirty, told <- peer_told, led_status <- lamp

\* What the two modules assume of their constants holds of their instances.
LEMMA RelayAssumed ==
    Relay!ConnAssumption /\ Relay!GattAssumption
  BY ConnAssumption, GattAssumption
  DEF ConnAssumption, GattAssumption, Relay!ConnAssumption, Relay!GattAssumption,
      Calls, Chars, Leds, Relay!Calls, Relay!Chars, Relay!Leds

LEMMA EspAssumed == Esp!SensorAssumption
  BY HomeAssumption, GattAssumption
  DEF HomeAssumption, GattAssumption, Esp!SensorAssumption, Leds, Esp!Leds

------------------------------------------------------------------------------
\* The instances' actions are the actions themselves

\* No event of the connection management reads the state that is cut down.
LEMMA SameConn ==
    /\ MainEnable <=> Relay!MainEnable
    /\ MainScan <=> Relay!MainScan
    /\ MainAdvertise <=> Relay!MainAdvertise
    /\ \A s \in Sensors : /\ ScanMatch(s) <=> Relay!ScanMatch(s)
                          /\ ConnectingError(s) <=> Relay!ConnectingError(s)
    /\ \A c \in Conns :
         /\ ConnectedCentral(c) <=> Relay!ConnectedCentral(c)
         /\ ConnectFailed(c) <=> Relay!ConnectFailed(c)
         /\ LinkLost(c) <=> Relay!LinkLost(c)
         /\ FatalAccess(c) <=> Relay!FatalAccess(c)
         /\ Disconnected(c) <=> Relay!Disconnected(c)
         /\ Release(c) <=> Relay!Release(c)
         /\ \A p \in Phones : ConnectedPhone(c, p) <=> Relay!ConnectedPhone(c, p)
<1> USE DEF Free, Relay!Free, IsCentral, Relay!IsCentral, ScanStart, Relay!ScanStart,
            Resume, Relay!Resume, Reserve, Relay!Reserve
<1>1. MainEnable <=> Relay!MainEnable
  BY DEF MainEnable, Relay!MainEnable
<1>2. MainScan <=> Relay!MainScan
  BY DEF MainScan, Relay!MainScan
<1>3. MainAdvertise <=> Relay!MainAdvertise
  BY DEF MainAdvertise, Relay!MainAdvertise
<1>4. ASSUME NEW s \in Sensors
      PROVE  /\ ScanMatch(s) <=> Relay!ScanMatch(s)
             /\ ConnectingError(s) <=> Relay!ConnectingError(s)
  BY DEF ScanMatch, Relay!ScanMatch, ConnectingError, Relay!ConnectingError
<1>5. ASSUME NEW c \in Conns
      PROVE  /\ ConnectedCentral(c) <=> Relay!ConnectedCentral(c)
             /\ LinkLost(c) <=> Relay!LinkLost(c)
             /\ Release(c) <=> Relay!Release(c)
  BY DEF ConnectedCentral, Relay!ConnectedCentral, LinkLost, Relay!LinkLost,
         Release, Relay!Release
<1>6. ASSUME NEW c \in Conns
      PROVE  /\ ConnectFailed(c) <=> Relay!ConnectFailed(c)
             /\ FatalAccess(c) <=> Relay!FatalAccess(c)
             /\ Disconnected(c) <=> Relay!Disconnected(c)
  BY DEF ConnectFailed, Relay!ConnectFailed, Disconnected, Relay!Disconnected,
         FatalAccess, Relay!FatalAccess, Reset, Relay!Reset
<1>7. ASSUME NEW c \in Conns, NEW p \in Phones
      PROVE  ConnectedPhone(c, p) <=> Relay!ConnectedPhone(c, p)
  BY DEF ConnectedPhone, Relay!ConnectedPhone
<1>8. QED
  BY <1>1, <1>2, <1>3, <1>4, <1>5, <1>6, <1>7

\* The sensor's program is the one its proofs are about.
LEMMA SameDevice ==
    /\ Device!SensorInit <=> Esp!SensorInit
    /\ Device!OnSync <=> Esp!OnSync
    /\ Device!ConnectFailed <=> Esp!ConnectFailed
    /\ Device!Disconnected <=> Esp!Disconnected
    /\ Device!HostReset <=> Esp!HostReset
    /\ Device!ReadTempAborts <=> Esp!ReadTempAborts
    /\ Device!SubscribeTemp <=> Esp!SubscribeTemp
    /\ Device!UnsubscribeTemp <=> Esp!UnsubscribeTemp
    /\ Device!ToggleLed <=> Esp!ToggleLed
    /\ Device!NotifyLed <=> Esp!NotifyLed
    /\ \A h \in Handles : Device!Connected(h) <=> Esp!Connected(h)
    /\ \A v \in Vals, oneByte \in BOOLEAN :
          Device!WriteLed(v, oneByte) <=> Esp!WriteLed(v, oneByte)
<1> USE DEF Device!appVars, Esp!appVars, Device!ledVars, Esp!ledVars, Device!Reboot, Esp!Reboot
<1>1. Device!SensorInit <=> Esp!SensorInit
  BY DEF Device!SensorInit, Esp!SensorInit
<1>2. Device!OnSync <=> Esp!OnSync
  BY DEF Device!OnSync, Esp!OnSync
<1>3. Device!ConnectFailed <=> Esp!ConnectFailed
  BY DEF Device!ConnectFailed, Esp!ConnectFailed
<1>4. Device!Disconnected <=> Esp!Disconnected
  BY DEF Device!Disconnected, Esp!Disconnected, Device!PeerGone, Esp!PeerGone,
         Device!Advertise, Esp!Advertise
<1>5. Device!HostReset <=> Esp!HostReset
  BY DEF Device!HostReset, Esp!HostReset, Device!PeerGone, Esp!PeerGone
<1>6. Device!ReadTempAborts <=> Esp!ReadTempAborts
  BY DEF Device!ReadTempAborts, Esp!ReadTempAborts
<1>7. Device!SubscribeTemp <=> Esp!SubscribeTemp
  BY DEF Device!SubscribeTemp, Esp!SubscribeTemp, Device!NotifyTemperature,
         Esp!NotifyTemperature, Device!NotifyAsserts, Esp!NotifyAsserts
<1>8. Device!UnsubscribeTemp <=> Esp!UnsubscribeTemp
  BY DEF Device!UnsubscribeTemp, Esp!UnsubscribeTemp
<1>9. Device!ToggleLed <=> Esp!ToggleLed
  BY DEF Device!ToggleLed, Esp!ToggleLed
<1>10. Device!NotifyLed <=> Esp!NotifyLed
  BY DEF Device!NotifyLed, Esp!NotifyLed
<1>11. \A h \in Handles : Device!Connected(h) <=> Esp!Connected(h)
  BY DEF Device!Connected, Esp!Connected
<1>12. \A v \in Vals, oneByte \in BOOLEAN :
          Device!WriteLed(v, oneByte) <=> Esp!WriteLed(v, oneByte)
  BY DEF Device!WriteLed, Esp!WriteLed, Device!Stored, Esp!Stored, Device!BlinkLed, Esp!BlinkLed
<1>13. QED
  BY <1>1, <1>2, <1>3, <1>4, <1>5, <1>6, <1>7, <1>8, <1>9, <1>10, <1>11, <1>12

\* The initial states and the steps RelayGatt takes are those of its proofs.
LEMMA SameRelay ==
    /\ Assumed!GattInit <=> Relay!GattInit
    /\ [Assumed!GattNext]_Assumed!gattVars <=> [Relay!GattNext]_Relay!gattVars
<1>1. Assumed!GattInit <=> Relay!GattInit
  BY DEF Assumed!GattInit, Relay!GattInit, Assumed!ConnInit, Relay!ConnInit,
         Assumed!Chars, Relay!Chars
<1> USE DEF Assumed!connVars, Relay!connVars, Assumed!relayVars, Relay!relayVars,
            Assumed!sensorVars, Relay!sensorVars, Assumed!Chars, Relay!Chars,
            Assumed!Leds, Relay!Leds
<1>2. Assumed!OtherConnEvent <=> Relay!OtherConnEvent
  <2> USE DEF Assumed!Free, Relay!Free, Assumed!IsCentral, Relay!IsCentral,
              Assumed!ScanStart, Relay!ScanStart, Assumed!Resume, Relay!Resume,
              Assumed!Reserve, Relay!Reserve
  <2>1. /\ Assumed!MainEnable <=> Relay!MainEnable
        /\ Assumed!MainScan <=> Relay!MainScan
        /\ Assumed!MainAdvertise <=> Relay!MainAdvertise
    BY DEF Assumed!MainEnable, Relay!MainEnable, Assumed!MainScan, Relay!MainScan,
           Assumed!MainAdvertise, Relay!MainAdvertise
  <2>2. ASSUME NEW s \in Sensors
        PROVE  /\ Assumed!ScanMatch(s) <=> Relay!ScanMatch(s)
               /\ Assumed!ConnectingError(s) <=> Relay!ConnectingError(s)
    BY DEF Assumed!ScanMatch, Relay!ScanMatch, Assumed!ConnectingError, Relay!ConnectingError
  <2>3. ASSUME NEW c \in Conns
        PROVE  /\ Assumed!ConnectFailed(c) <=> Relay!ConnectFailed(c)
               /\ Assumed!Release(c) <=> Relay!Release(c)
               /\ \A p \in Phones : Assumed!ConnectedPhone(c, p) <=> Relay!ConnectedPhone(c, p)
    BY DEF Assumed!ConnectFailed, Relay!ConnectFailed, Assumed!Release, Relay!Release,
           Assumed!ConnectedPhone, Relay!ConnectedPhone
  <2>4. QED
    BY <2>1, <2>2, <2>3 DEF Assumed!OtherConnEvent, Relay!OtherConnEvent
<1>3. ASSUME NEW c \in Conns
      PROVE  /\ Assumed!SensorConnected(c) <=> Relay!SensorConnected(c)
             /\ Assumed!SensorLost(c) <=> Relay!SensorLost(c)
             /\ Assumed!PhoneLost(c) <=> Relay!PhoneLost(c)
  BY DEF Assumed!SensorConnected, Relay!SensorConnected, Assumed!SensorLost, Relay!SensorLost,
         Assumed!PhoneLost, Relay!PhoneLost, Assumed!ConnectedCentral, Relay!ConnectedCentral,
         Assumed!LinkLost, Relay!LinkLost, Assumed!Queued, Relay!Queued,
         Assumed!Discover, Relay!Discover
<1>4. ASSUME NEW c \in Conns
      PROVE  /\ Assumed!SensorDisconnected(c) <=> Relay!SensorDisconnected(c)
             /\ Assumed!PhoneDisconnected(c) <=> Relay!PhoneDisconnected(c)
             /\ Assumed!PhoneFatal(c) <=> Relay!PhoneFatal(c)
  BY DEF Assumed!SensorDisconnected, Relay!SensorDisconnected, Assumed!PhoneDisconnected,
         Relay!PhoneDisconnected, Assumed!PhoneFatal, Relay!PhoneFatal, Assumed!Disconnected,
         Relay!Disconnected, Assumed!FatalAccess, Relay!FatalAccess, Assumed!Reset, Relay!Reset,
         Assumed!IsCentral, Relay!IsCentral, Assumed!ScanStart, Relay!ScanStart,
         Assumed!Discover, Relay!Discover
<1>5. ASSUME NEW c \in Conns
      PROVE  /\ Assumed!PhoneReadTemp(c) <=> Relay!PhoneReadTemp(c)
             /\ \A v \in Relay!Leds : Assumed!PhoneWriteLed(c, v) <=> Relay!PhoneWriteLed(c, v)
             /\ \A i \in Relay!Chars : Assumed!PhoneSubscribe(c, i) <=> Relay!PhoneSubscribe(c, i)
  BY DEF Assumed!PhoneReadTemp, Relay!PhoneReadTemp, Assumed!PhoneWriteLed, Relay!PhoneWriteLed,
         Assumed!PhoneSubscribe, Relay!PhoneSubscribe, Assumed!Phone, Relay!Phone,
         Assumed!IsCentral, Relay!IsCentral, Assumed!Forward, Relay!Forward,
         Assumed!SensorUp, Relay!SensorUp, Assumed!Queued, Relay!Queued,
         Assumed!Read, Relay!Read, Assumed!Write, Relay!Write
<1>6. /\ Assumed!SensorServes <=> Relay!SensorServes
      /\ Assumed!SensorNotifies <=> Relay!SensorNotifies
      /\ Assumed!SensorGone <=> Relay!SensorGone
      /\ Assumed!LampElsewhere <=> Relay!LampElsewhere
  BY DEF Assumed!SensorServes, Relay!SensorServes, Assumed!SensorNotifies, Relay!SensorNotifies,
         Assumed!SensorGone, Relay!SensorGone, Assumed!LampElsewhere, Relay!LampElsewhere,
         Assumed!Answer, Relay!Answer, Assumed!Response, Relay!Response,
         Assumed!Notification, Relay!Notification
<1>7. /\ Assumed!OnResponse <=> Relay!OnResponse
      /\ Assumed!OnNotification <=> Relay!OnNotification
  BY DEF Assumed!OnResponse, Relay!OnResponse, Assumed!OnNotification, Relay!OnNotification,
         Assumed!Discovered, Relay!Discovered, Assumed!Queued, Relay!Queued,
         Assumed!Discover, Relay!Discover, Assumed!Subscribe, Relay!Subscribe,
         Assumed!ReadMore, Relay!ReadMore
<1>8. QED
  BY <1>1, <1>2, <1>3, <1>4, <1>5, <1>6, <1>7
  DEF Assumed!GattNext, Relay!GattNext, Assumed!gattVars, Relay!gattVars

\* Requests and messages are the same records in the instance.
LEMMA SameMessages ==
    /\ \A r : Answer(r) = Relay!Answer(r)
    /\ \A f, v : Response(f, v) = Relay!Response(f, v)
    /\ \A i, v : Notification(i, v) = Relay!Notification(i, v)
    /\ \A i : Subscribe(i) = Relay!Subscribe(i)
  BY DEF Answer, Relay!Answer, Response, Relay!Response, Notification, Relay!Notification,
         Subscribe, Relay!Subscribe

------------------------------------------------------------------------------
\* The inductive invariant

\* The requests among q to subscribe to characteristic i.
Subs(q, i) == {k \in DOMAIN q : q[k] = Subscribe(i)}

\* A subscription the relay counts on is held by the sensor or asked for, once;
\* what is asked for is held from the moment the sensor has served the request.
InTune(q, i, subscribed, held, answered) ==
    /\ subscribed = "active" => held \/ Subs(q, i) # {}
    /\ \A k, l \in Subs(q, i) : k = l
    /\ \A k \in Subs(q, i) : held <=> k = 1 /\ answered

Agreed ==
    joined => peer # NULL /\ \A i \in Chars : InTune(attq, i, sub[i], i \in ccc, served)

(***************************************************************************)
(* The inductive invariant: that of the relay, that of the sensor, and     *)
(* what neither knows alone, that they agree on the subscriptions.  It is  *)
(* needed for the steps themselves: a request to subscribe to the LED      *)
(* toggles the sensor's subscription, so the sensor does as RelayGatt      *)
(* assumes only because it never holds what the relay asks for.            *)
(***************************************************************************)
HomeIInv ==
    /\ Relay!ConnIInv /\ Relay!LinkIInv /\ Relay!TrafficIInv
    /\ Esp!SensorIInv
    /\ Agreed

\* Both programs start in their initial states.
LEMMA RelayInit == HomeInit => Relay!GattInit
  BY DEF HomeInit, GattInit, ConnInit, Relay!GattInit, Relay!ConnInit, Chars, Relay!Chars

------------------------------------------------------------------------------
\* Every step is one of the relay with the sensor it assumes

\* What the relay does alone.
LEMMA RelayAloneStep ==
  ASSUME RelayAlone
  PROVE  Relay!GattNext
<1> USE DEF deviceVars, connVars, relayVars, sensorVars, Relay!connVars, Relay!relayVars,
            Relay!sensorVars, Chars, Relay!Chars, Leds, Relay!Leds
<1>1. CASE OtherConnEvent
  BY <1>1, SameConn DEF RelayAlone, OtherConnEvent, Relay!OtherConnEvent, Relay!GattNext
<1>2. ASSUME NEW c \in Conns, HalfLost(c)
      PROVE  Relay!SensorLost(c)
  BY <1>2, SameConn DEF RelayAlone, HalfLost, Relay!SensorLost
<1>3. ASSUME NEW c \in Conns
      PROVE  /\ PhoneLost(c) => Relay!PhoneLost(c)
             /\ SensorDisconnected(c) => Relay!SensorDisconnected(c)
             /\ PhoneDisconnected(c) => Relay!PhoneDisconnected(c)
             /\ PhoneFatal(c) => Relay!PhoneFatal(c)
  BY SameConn DEF RelayAlone, PhoneLost, Relay!PhoneLost,
     SensorDisconnected, Relay!SensorDisconnected, PhoneDisconnected, Relay!PhoneDisconnected,
     PhoneFatal, Relay!PhoneFatal, Discover, Relay!Discover
<1>4. ASSUME NEW c \in Conns
      PROVE  /\ PhoneReadTemp(c) => Relay!PhoneReadTemp(c)
             /\ \A v \in Leds : PhoneWriteLed(c, v) => Relay!PhoneWriteLed(c, v)
             /\ \A i \in Chars : PhoneSubscribe(c, i) => Relay!PhoneSubscribe(c, i)
  BY DEF RelayAlone, PhoneReadTemp, Relay!PhoneReadTemp, PhoneWriteLed, Relay!PhoneWriteLed,
         PhoneSubscribe, Relay!PhoneSubscribe, Phone, Relay!Phone, IsCentral, Relay!IsCentral,
         Forward, Relay!Forward, SensorUp, Relay!SensorUp, Queued, Relay!Queued,
         Read, Relay!Read, Write, Relay!Write
<1>5. OnResponse => Relay!OnResponse
  <2>1. ASSUME NEW i, NEW q
        PROVE  Discovered(i, q) <=> Relay!Discovered(i, q)
    BY DEF Discovered, Relay!Discovered, Queued, Relay!Queued, Discover, Relay!Discover,
           Subscribe, Relay!Subscribe
  <2>2. OnResponse /\ UNCHANGED deviceVars =>
          UNCHANGED <<Relay!connVars, led_status, phoneCcc, told, joined,
                      IF joined THEN ccc ELSE {}, joined /\ dirty, lamp, heard>>
    BY DEF OnResponse
  <2>3. UNCHANGED deviceVars
    BY DEF RelayAlone
  <2> HIDE DEF deviceVars, connVars, Relay!connVars
  <2>4. QED
    BY <2>1, <2>2, <2>3 DEF OnResponse, Relay!OnResponse, Queued, Relay!Queued,
       ReadMore, Relay!ReadMore
<1>6. OnNotification => Relay!OnNotification
  BY DEF RelayAlone, OnNotification, Relay!OnNotification
<1>7. QED
  BY <1>1, <1>2, <1>3, <1>4, <1>5, <1>6 DEF RelayAlone, Relay!GattNext

\* With its peer the sensor loses what it held for the relay.
LEMMA GoneStep ==
  ASSUME joined = TRUE, peer' = NULL, EndOfLink, lamp' \in Leds
  PROVE  Relay!SensorGone /\ joined' = FALSE
<1>1. joined' = FALSE
  BY DEF EndOfLink
<1>2. QED
  BY <1>1 DEF EndOfLink, mainVars, Relay!SensorGone, Leds, Relay!Leds, relayVars,
     Relay!relayVars, connVars, Relay!connVars

\* Whatever the sensor does with another peer, or with none, is LampElsewhere.
LEMMA ElsewhereStep ==
  ASSUME joined = FALSE, joined' = FALSE, lamp' \in Leds,
         UNCHANGED <<mainVars, served, downlink, heard>>
  PROVE  Relay!LampElsewhere
  BY DEF mainVars, Relay!LampElsewhere, Leds, Relay!Leds, relayVars,
     Relay!relayVars, connVars, Relay!connVars

\* The types of what both ends and the link keep.
LEMMA HomeTypes ==
  ASSUME HomeIInv
  PROVE  /\ joined \in BOOLEAN /\ served \in BOOLEAN /\ dirty \in BOOLEAN
         /\ lamp \in Leds /\ peer_told \in Leds \cup {NULL} /\ chr_val \in 0 .. 255
         /\ ccc \subseteq Chars /\ attq \in Seq(Request) /\ downlink \in Seq(Message)
  BY DEF HomeIInv, Relay!TrafficIInv, Relay!TrafficTypes, Esp!SensorIInv, Esp!SensorTypeOK,
     Leds, Esp!Leds, Chars, Esp!Chars, Request, Relay!Request, Relay!Chars, Stages, Relay!Stages,
     Relay!Leds, Message, Relay!Message

\* Of the sensor's own events only those that end its connection touch the
\* relay's: while it has a peer it is in sync and does not advertise.
LEMMA SensorAloneStep ==
  ASSUME HomeIInv, SensorAlone, lamp' \in Leds
  PROVE  (Relay!SensorGone \/ Relay!LampElsewhere) /\ joined' = FALSE
<1>1. CASE joined = FALSE
  <2>1. joined' = FALSE
    BY <1>1 DEF SensorAlone, EndOfLink
  <2>2. QED
    BY <1>1, <2>1, ElsewhereStep DEF SensorAlone, EndOfLink
<1>2. CASE joined = TRUE
  <2>1. peer # NULL /\ synced /\ ~adv
    BY <1>2 DEF HomeIInv, Agreed, Esp!SensorIInv, Esp!ConnectionView
  <2>2. Device!Disconnected \/ Device!HostReset
    BY <2>1 DEF SensorAlone, Device!OnSync, Device!ConnectFailed
  <2>3. peer' = NULL
    BY <2>1, <2>2 DEF Device!Disconnected, Device!HostReset, Device!PeerGone
  <2>4. QED
    BY <1>2, <2>3, GoneStep DEF SensorAlone
<1>3. QED
  BY <1>1, <1>2, HomeTypes

\* What other centrals do, while the relay is not connected.
LEMMA ElsewhereIsStep ==
  ASSUME HomeIInv, Elsewhere, lamp' \in Leds
  PROVE  Relay!LampElsewhere /\ joined' = FALSE
  BY HomeTypes, ElsewhereStep DEF Elsewhere, linkVars

\* The link comes up between a sensor and a relay that hold nothing of it.
LEMMA JoinStep ==
  ASSUME HomeIInv, NEW c \in Conns, Join(c)
  PROVE  /\ Relay!SensorConnected(c) /\ joined = FALSE
         /\ attq = <<>> /\ \A i \in Chars : sub[i] # "active"
<1>1. link[c] = "init"
  BY DEF Join, SensorConnected, ConnectedCentral
<1>2. c = central_conn
  BY <1>1 DEF HomeIInv, Relay!ConnIInv, Relay!Roles, Relay!CentralSlot
<1>3. joined = FALSE
  BY <1>1, <1>2, HomeTypes DEF HomeIInv, Relay!LinkIInv, Relay!SensorUp
<1>4. attq = <<>> /\ \A i \in Chars : sub[i] # "active"
  BY <1>1, <1>2 DEF HomeIInv, Relay!LinkIInv, Relay!NothingOutlivesLink, Chars, Relay!Chars
<1>5. Relay!ConnectedCentral(c)
  BY SameConn DEF Join, SensorConnected
<1>6. ASSUME SensorConnected(c)
      PROVE  /\ IF Len(attq) < ReqSlots
                THEN /\ attq' = Relay!Queued(Append(attq, Relay!Discover("temp", "service")),
                                      Relay!Discover("led", "service"))
                     /\ discover' = [i \in Relay!Chars |-> "service"]
                ELSE /\ discover' = [discover EXCEPT !["temp"] = "service"]
                     /\ UNCHANGED attq
             /\ UNCHANGED <<sub, temp_val, led_status, phoneCcc, told, served, downlink, heard>>
  BY <1>6 DEF SensorConnected, Queued, Relay!Queued, Discover, Relay!Discover, Chars, Relay!Chars
<1>7. CASE joined' = FALSE /\ SensorConnected(c) /\ UNCHANGED deviceVars
  <2>1. /\ UNCHANGED lamp /\ joined' \in BOOLEAN
        /\ (IF joined' THEN ccc' ELSE {}) = (IF joined THEN ccc ELSE {})
        /\ (joined' /\ dirty') = (joined /\ dirty)
    BY <1>3, <1>7 DEF deviceVars
  <2>2. QED
    BY <1>3, <1>4, <1>5, <1>6, <1>7, <2>1 DEF Relay!SensorConnected
<1>8. ASSUME NEW h \in Handles, Device!Connected(h), joined' = TRUE, SensorConnected(c)
      PROVE  Relay!SensorConnected(c)
  <2>1. ccc = {} /\ dirty = FALSE
    BY <1>8, HomeTypes DEF Device!Connected, HomeIInv, Esp!SensorIInv,
       Esp!ConnectionView, Esp!LedOwed
  <2>2. UNCHANGED <<ccc, dirty, lamp>>
    BY <1>8 DEF Device!Connected, Device!ledVars
  <2>3. /\ UNCHANGED lamp /\ joined' \in BOOLEAN
        /\ (IF joined' THEN ccc' ELSE {}) = (IF joined THEN ccc ELSE {})
        /\ (joined' /\ dirty') = (joined /\ dirty)
    BY <1>3, <1>8, <2>1, <2>2
  <2>4. QED
    BY <1>5, <1>6, <1>8, <2>3 DEF Relay!SensorConnected
<1>9. QED
  BY <1>3, <1>4, <1>7, <1>8 DEF Join

\* The request in flight.
LEMMA HeadRequest ==
  ASSUME HomeIInv, attq # <<>>
  PROVE  /\ Head(attq) \in Request /\ Head(attq) = attq[1] /\ 1 \in DOMAIN attq
         /\ Head(attq).op = "subscribe" =>
               Head(attq).of \in Chars /\ Head(attq) = Subscribe(Head(attq).of)
         /\ Head(attq).op = "write" => Head(attq).val \in Leds
<1>1. Head(attq) \in Request /\ Head(attq) = attq[1] /\ 1 \in DOMAIN attq
  <2>1. attq \in Seq(Request)
    BY HomeTypes
  <2>2. QED
    BY <2>1
<1>2. QED
  BY <1>1 DEF Request, Subscribe

\* One step of the sensor's own program, or none.
LEMMA EspStep ==
  ASSUME HomeIInv, [HomeNext]_homeVars
  PROVE  [Esp!SensorNext]_Esp!sensorVars
<1> USE DEF deviceVars, Esp!sensorVars, Esp!hostVars, Esp!appVars, Esp!ledVars
<1>1. CASE UNCHANGED homeVars
  BY <1>1 DEF homeVars
<1>2. CASE RelayAlone
  BY <1>2 DEF RelayAlone
<1>3. CASE SensorAlone
  BY <1>3, SameDevice DEF SensorAlone, Esp!SensorNext
<1>4. CASE Elsewhere
  BY <1>4, SameDevice DEF Elsewhere, Esp!SensorNext
<1>5. ASSUME NEW c \in Conns, Join(c)
      PROVE  [Esp!SensorNext]_Esp!sensorVars
  BY <1>5, SameDevice DEF Join, Esp!SensorNext
<1>6. CASE Serve
  <2>1. ASSUME Device!WriteLed(Head(attq).val, TRUE), Head(attq).op = "write"
        PROVE  Esp!SensorNext
    <3>1. Head(attq).val \in Vals
      BY <1>6, <2>1, HeadRequest, HomeAssumption DEF Serve, HomeAssumption
    <3>2. QED
      BY <2>1, <3>1, SameDevice DEF Esp!SensorNext
  <2>2. QED
    BY <1>6, <2>1, SameDevice DEF Serve, Esp!SensorNext
<1>7. CASE Notify
  BY <1>7, SameDevice DEF Notify, Esp!SensorNext
<1>8. QED
  BY <1>1, <1>2, <1>3, <1>4, <1>5, <1>6, <1>7 DEF HomeNext

\* So the sensor's invariant is preserved.
LEMMA EspNext ==
  ASSUME HomeIInv, [HomeNext]_homeVars
  PROVE  Esp!SensorIInv' /\ lamp' \in Leds
<1>1. Esp!SensorIInv'
  BY EspStep, Esp!SensorNextInv, EspAssumed DEF HomeIInv, Esp!SensorAssumption
<1>2. QED
  BY <1>1 DEF Esp!SensorIInv, Esp!SensorTypeOK, Leds, Esp!Leds

\* What the sensor's host has sent, appended to what is on its way.
LEMMA SentTogether ==
  ASSUME NEW S, NEW d \in Seq(S), NEW m \in S, NEW n \in S
  PROVE  /\ d \o Append(<<>>, m) = Append(d, m) /\ d \o <<m>> = Append(d, m)
         /\ d \o Append(<<n>>, m) = Append(Append(d, n), m)
<1>1. Append(<<>>, m) = <<m>>
  OBVIOUS
<1>2. d \o <<m>> = Append(d, m) /\ Append(d, n) = d \o <<n>>
  OBVIOUS
<1>3. <<n>> \in Seq(S) /\ <<m>> \in Seq(S)
  OBVIOUS
<1>4. Append(<<n>>, m) = <<n>> \o <<m>> /\ Append(d \o <<n>>, m) = (d \o <<n>>) \o <<m>>
  BY <1>3, AppendIsConcat, ConcatProperties
<1>5. QED
  BY <1>1, <1>2, <1>3, <1>4, ConcatAssociative

\* The callbacks of the sensor answer as RelayGatt assumes, or the sensor reboots
\* and is gone.
LEMMA ServeStep ==
  ASSUME HomeIInv, Serve, lamp' \in Leds
  PROVE  Relay!SensorServes \/ (Relay!SensorGone /\ joined' = FALSE)
<1> DEFINE r == Head(attq)
<1>0. /\ r \in Request /\ r = attq[1] /\ 1 \in DOMAIN attq
      /\ r.op = "subscribe" => r.of \in Chars /\ r = Subscribe(r.of)
      /\ r.op = "write" => r.val \in Leds
      /\ joined = TRUE /\ served = FALSE /\ attq # <<>> /\ peer # NULL
  BY HeadRequest, HomeTypes DEF Serve, HomeIInv, Agreed
<1>1. ASSUME EndOfLink, peer' = NULL
      PROVE  Relay!SensorGone /\ joined' = FALSE
  BY <1>0, <1>1, GoneStep
<1>2. /\ Answer(r) \in Message
      /\ \A t \in Temps : Response(TRUE, t) \in Message /\ Notification("temp", t) \in Message
  BY <1>0, GattAssumption, HomeAssumption
  DEF Answer, Message, Request, Response, Notification, Chars, HomeAssumption
<1>3. ASSUME NEW messages, Sends(messages)
      PROVE  /\ downlink' = downlink \o messages /\ joined' = TRUE
             /\ UNCHANGED <<Relay!connVars, Relay!relayVars, joined, heard>>
  BY <1>0, <1>3 DEF Sends, mainVars, connVars, relayVars, Relay!connVars, Relay!relayVars
<1>4. ASSUME Sends(Append(<<>>, Answer(r)))
      PROVE  downlink' = Append(downlink, Relay!Answer(r))
  BY <1>2, <1>3, <1>4, HomeTypes, SentTogether, SameMessages
<1>5. \A i \in Chars : r = Subscribe(i) => i \notin ccc
  BY <1>0 DEF HomeIInv, Agreed, InTune, Subs
<1> HIDE DEF r
<1>6. ASSUME r.op \in {"discover", "readmore"}, UNCHANGED deviceVars, served' = TRUE,
             Sends(Append(<<>>, Answer(r)))
      PROVE  Relay!SensorServes
  BY <1>0, <1>3, <1>4, <1>6 DEF Relay!SensorServes, deviceVars, r
<1>7. ASSUME r.op = "subscribe", r.of = "temp", Device!SubscribeTemp, peer' # NULL,
             NEW t \in Temps, served' = TRUE,
             Sends(Append(<<Notification("temp", t)>>, Answer(r)))
      PROVE  Relay!SensorServes
  <2>1. downlink' = Append(Append(downlink, Relay!Notification("temp", t)), Relay!Answer(r))
    <3>1. downlink' = downlink \o Append(<<Notification("temp", t)>>, Answer(r))
      BY <1>3, <1>7
    <3>2. downlink' = Append(Append(downlink, Notification("temp", t)), Answer(r))
      BY <1>2, <1>7, <3>1, HomeTypes, SentTogether
    <3>3. QED
      BY <3>2, SameMessages
  <2>2. ccc' = ccc \cup {"temp"} /\ UNCHANGED <<dirty, lamp>>
    BY <1>7 DEF Device!SubscribeTemp, Device!Reboot, Device!ledVars
  <2>3. QED
    BY <1>0, <1>3, <1>7, <2>1, <2>2 DEF Relay!SensorServes, r
<1>8. ASSUME r.op = "subscribe", r.of = "led", Device!ToggleLed, served' = TRUE,
             Sends(Append(<<>>, Answer(r)))
      PROVE  Relay!SensorServes
  <2>1. "led" \notin ccc
    BY <1>0, <1>5, <1>8
  <2>2. ccc' = ccc \cup {"led"} /\ UNCHANGED <<dirty, lamp>>
    BY <1>8, <2>1 DEF Device!ToggleLed, Device!ledVars
  <2>3. QED
    BY <1>0, <1>3, <1>4, <1>8, <2>2 DEF Relay!SensorServes, r
<1>9. ASSUME r.op = "read", UNCHANGED deviceVars, NEW t \in Temps, served' = TRUE,
             Sends(<<Response(TRUE, t)>>)
      PROVE  Relay!SensorServes
  <2>1. downlink' = Append(downlink, Relay!Response(TRUE, t))
    BY <1>2, <1>3, <1>9, HomeTypes, SentTogether, SameMessages
  <2>2. "temp" \in Offers
    BY HomeAssumption DEF HomeAssumption, Chars
  <2>3. QED
    BY <1>0, <1>3, <1>9, <2>1, <2>2 DEF Relay!SensorServes, deviceVars, r
<1>10. ASSUME r.op = "write", Device!WriteLed(r.val, TRUE), served' = TRUE,
              Sends(Append(<<>>, Answer(r)))
       PROVE  Relay!SensorServes
  <2>1. /\ lamp' = r.val /\ UNCHANGED ccc
        /\ dirty' = (dirty \/ "led" \in ccc)
    BY <1>0, <1>10 DEF Device!WriteLed, Device!Stored, Device!BlinkLed, Leds
  <2>2. "led" \in Offers
    BY HomeAssumption DEF HomeAssumption, Chars
  <2>3. QED
    BY <1>0, <1>3, <1>4, <1>10, <2>1, <2>2 DEF Relay!SensorServes, r
<1>11. ASSUME r.op = "read", Device!ReadTempAborts, EndOfLink
       PROVE  Relay!SensorGone /\ joined' = FALSE
  BY <1>1, <1>11 DEF Device!ReadTempAborts, Device!Reboot
<1>12. QED
  BY <1>1, <1>6, <1>7, <1>8, <1>9, <1>10, <1>11 DEF Serve, r

\* The notification of the LED carries the LED's state.
LEMMA NotifyStep ==
  ASSUME HomeIInv, Notify
  PROVE  Relay!SensorNotifies
<1>1. joined = TRUE /\ dirty = TRUE /\ downlink \in Seq(Message) /\ lamp \in Leds
  BY HomeTypes DEF Notify, Device!NotifyLed
<1>2. dirty' = FALSE /\ peer_told' = lamp /\ UNCHANGED <<ccc, lamp>>
  BY DEF Notify, Device!NotifyLed, Device!ledVars
<1>3. Notification("led", lamp) \in Message
  BY <1>1 DEF Notification, Message
<1>4. downlink' = Append(downlink, Relay!Notification("led", lamp))
  BY <1>1, <1>2, <1>3, SentTogether, SameMessages DEF Notify, Sends
<1>5. UNCHANGED <<Relay!connVars, Relay!relayVars, served, joined, heard>>
  BY DEF Notify, Sends, mainVars, connVars, relayVars, Relay!connVars, Relay!relayVars
<1>6. QED
  BY <1>1, <1>2, <1>4, <1>5 DEF Relay!SensorNotifies

\* Every step of the two together is one of the relay with the sensor it assumes.
LEMMA RelayStep ==
  ASSUME HomeIInv, [HomeNext]_homeVars
  PROVE  [Relay!GattNext]_Relay!gattVars
<1>1. lamp' \in Leds
  BY EspNext
<1>2. CASE UNCHANGED homeVars
  BY <1>2 DEF homeVars, mainVars, linkVars, deviceVars, connVars, relayVars, Relay!gattVars,
     Relay!connVars, Relay!relayVars, Relay!sensorVars
<1>3. CASE RelayAlone
  BY <1>3, RelayAloneStep
<1>4. CASE SensorAlone
  BY <1>1, <1>4, SensorAloneStep DEF Relay!GattNext
<1>5. CASE Elsewhere
  BY <1>1, <1>5, ElsewhereIsStep DEF Relay!GattNext
<1>6. ASSUME NEW c \in Conns, Join(c)
      PROVE  Relay!GattNext
  BY <1>6, JoinStep DEF Relay!GattNext
<1>7. CASE Serve
  BY <1>1, <1>7, ServeStep DEF Relay!GattNext
<1>8. CASE Notify
  BY <1>8, NotifyStep DEF Relay!GattNext
<1>9. QED
  BY <1>2, <1>3, <1>4, <1>5, <1>6, <1>7, <1>8 DEF HomeNext

------------------------------------------------------------------------------
\* The two ends agree on the subscriptions

\* Another request is appended.
LEMMA TuneAppend ==
  ASSUME NEW q \in Seq(Request), NEW r \in Request, NEW i, r # Subscribe(i),
         NEW s, NEW h, NEW a, InTune(q, i, s, h, a)
  PROVE  InTune(Append(q, r), i, s, h, a)
<1>1. /\ DOMAIN q = 1 .. Len(q) /\ DOMAIN Append(q, r) = 1 .. Len(q) + 1 /\ Len(q) \in Nat
      /\ \A k \in 1 .. Len(q) : Append(q, r)[k] = q[k]
      /\ Append(q, r)[Len(q) + 1] = r
  OBVIOUS
<1>2. Subs(Append(q, r), i) = Subs(q, i)
  BY <1>1 DEF Subs
<1>3. QED
  BY <1>2 DEF InTune

\* The subscription is asked for.
LEMMA TuneAsk ==
  ASSUME NEW q \in Seq(Request), NEW i \in Chars, NEW s, Subs(q, i) = {}
  PROVE  InTune(Append(q, Subscribe(i)), i, s, FALSE, FALSE)
<1> DEFINE r == Subscribe(i)
<1>1. r \in Request
  BY DEF Request, Subscribe
<1>2. r = Subscribe(i)
  OBVIOUS
<1> HIDE DEF r
<1>3. /\ DOMAIN q = 1 .. Len(q) /\ DOMAIN Append(q, r) = 1 .. Len(q) + 1 /\ Len(q) \in Nat
      /\ \A k \in 1 .. Len(q) : Append(q, r)[k] = q[k]
      /\ Append(q, r)[Len(q) + 1] = r
  BY <1>1
<1>4. Subs(Append(q, r), i) = {Len(q) + 1}
  BY <1>2, <1>3 DEF Subs
<1>5. QED
  BY <1>2, <1>4 DEF InTune

\* The first request was served and ends.
LEMMA TuneTail ==
  ASSUME NEW q \in Seq(Request), q # <<>>, NEW i, NEW s, NEW h, InTune(q, i, s, h, TRUE)
  PROVE  InTune(Tail(q), i, s, h, FALSE)
<1>1. /\ DOMAIN q = 1 .. Len(q) /\ Len(q) \in Nat /\ Len(q) >= 1
      /\ DOMAIN Tail(q) = 1 .. Len(q) - 1
      /\ \A k \in 1 .. Len(q) - 1 : Tail(q)[k] = q[k + 1]
  OBVIOUS
<1>2. \A k \in Subs(Tail(q), i) : k \in Int /\ k + 1 \in Subs(q, i) /\ k + 1 # 1
  BY <1>1 DEF Subs
<1>3. \A k \in Subs(q, i) : k = 1 \/ k - 1 \in Subs(Tail(q), i)
  <2>1. ASSUME NEW k \in Subs(q, i), k # 1
        PROVE  k - 1 \in 1 .. Len(q) - 1 /\ (k - 1) + 1 = k
    BY <1>1, <2>1 DEF Subs
  <2>2. QED
    BY <1>1, <2>1 DEF Subs
<1>4. \A k, l \in Subs(Tail(q), i) : k = l
  <2>1. \A k, l \in Subs(Tail(q), i) : k + 1 = l + 1
    BY <1>2 DEF InTune
  <2>2. QED
    BY <1>2, <2>1
<1>5. \A k \in Subs(Tail(q), i) : ~h
  BY <1>2 DEF InTune
<1>6. s = "active" => h \/ Subs(Tail(q), i) # {}
  BY <1>3 DEF InTune
<1>7. QED
  BY <1>4, <1>5, <1>6 DEF InTune

\* The first request is served.
LEMMA TuneServed ==
  ASSUME NEW q \in Seq(Request), q # <<>>, NEW i, NEW s, NEW h, InTune(q, i, s, h, FALSE)
  PROVE  /\ Head(q) = Subscribe(i) => InTune(q, i, s, TRUE, TRUE)
         /\ Head(q) # Subscribe(i) => InTune(q, i, s, h, TRUE)
<1>1. 1 \in DOMAIN q /\ Head(q) = q[1]
  OBVIOUS
<1>2. CASE Head(q) = Subscribe(i)
  <2>1. Subs(q, i) = {1}
    BY <1>1, <1>2 DEF InTune, Subs
  <2>2. QED
    BY <1>2, <2>1 DEF InTune
<1>3. CASE Head(q) # Subscribe(i)
  <2>1. 1 \notin Subs(q, i)
    BY <1>1, <1>3 DEF Subs
  <2>2. QED
    BY <1>3, <2>1 DEF InTune
<1>4. QED
  BY <1>2, <1>3

\* The response that arrives is the one to the first request.
LEMMA ResponseFacts ==
  ASSUME HomeIInv, joined, OnResponse
  PROVE  /\ served = TRUE /\ attq # <<>> /\ attq \in Seq(Request)
         /\ Tail(attq) \in Seq(Request) /\ Len(Tail(attq)) < ReqSlots
         /\ Head(attq) \in Request
         /\ \A i \in Chars : i \in ccc => sub[i] = "active"
         /\ \A i \in Chars : Head(attq).op = "discover" /\ Head(attq).of = i =>
               sub[i] # "active" /\ Subs(Tail(attq), i) = {}
<1>1. /\ attq \in Seq(Relay!Request) /\ attq \in Seq(Request) /\ Len(attq) <= ReqSlots
      /\ ReqSlots \in Nat /\ served \in BOOLEAN /\ downlink \in Seq(Relay!Message)
  BY HomeTypes, GattAssumption
  DEF GattAssumption, HomeIInv, Relay!TrafficIInv, Relay!TrafficTypes
<1>2. /\ served = TRUE /\ attq # <<>>
  <2>1. downlink # <<>> /\ Relay!Answers(downlink, attq, served)
    BY DEF OnResponse, HomeIInv, Relay!TrafficIInv, Relay!Exchange
  <2>2. QED
    BY <1>1, <2>1, Relay!TailAnswers, RelayAssumed
    DEF OnResponse, Relay!ConnAssumption, Relay!GattAssumption
<1>3. /\ Tail(attq) \in Seq(Request) /\ Len(Tail(attq)) < ReqSlots /\ Head(attq) \in Request
  BY <1>1, <1>2
<1>4. \A i \in Chars : i \in ccc => sub[i] = "active"
  BY DEF HomeIInv, Relay!TrafficIInv, Relay!Subscribed
<1>5. ASSUME NEW i \in Chars, Head(attq).op = "discover", Head(attq).of = i
      PROVE  sub[i] # "active" /\ Subs(Tail(attq), i) = {}
  <2>1. Relay!InOrder(attq, i, discover[i], sub[i])
    BY DEF HomeIInv, Relay!TrafficIInv, Relay!Ordered, Chars, Relay!Chars
  <2>2. sub[i] # "active" /\ \A k \in DOMAIN Tail(attq) : Tail(attq)[k] # Relay!Subscribe(i)
    BY <1>1, <1>2, <1>5, <2>1, Relay!TailAsk, RelayAssumed
    DEF Relay!ConnAssumption, Relay!GattAssumption, Chars, Relay!Chars
  <2>3. QED
    BY <2>2, SameMessages DEF Subs
<1>6. QED
  BY <1>1, <1>2, <1>3, <1>4, <1>5

\* A response ends the request to subscribe it answers, or leads to the next
\* request of its procedure, the last of which subscribes.
LEMMA AgreedResponse ==
  ASSUME HomeIInv, joined, OnResponse, UNCHANGED deviceVars
  PROVE  Agreed'
<1> DEFINE q == Tail(attq)
           r == Head(attq)
<1>1. /\ q \in Seq(Request) /\ Len(q) < ReqSlots /\ served' = FALSE /\ r \in Request
      /\ peer' # NULL /\ UNCHANGED ccc
  BY ResponseFacts DEF OnResponse, deviceVars, HomeIInv, Agreed
<1>2. \A i \in Chars : InTune(q, i, sub[i], i \in ccc, FALSE)
  <2>1. \A i \in Chars : InTune(attq, i, sub[i], i \in ccc, TRUE)
    BY ResponseFacts DEF HomeIInv, Agreed
  <2>2. QED
    BY <2>1, ResponseFacts, TuneTail
<1>3. \A a \in Request : Queued(q, a) = Append(q, a)
  BY <1>1 DEF Queued
<1>4. \A i \in Chars, st \in Stages \ {"zero"} :
        Discover(i, st) \in Request /\ \A j : Discover(i, st) # Subscribe(j)
  BY DEF Discover, Request, Subscribe
<1>5. ReadMore \in Request /\ \A j : ReadMore # Subscribe(j)
  BY DEF ReadMore, Request, Subscribe
<1>6. ASSUME NEW j \in Chars, r.op = "discover", r.of = j, Discovered(j, q), NEW i \in Chars
      PROVE  InTune(attq', i, sub'[i], i \in ccc, FALSE)
  <2>0. sub \in [Chars -> {"none", "handle", "active"}]
    BY DEF HomeIInv, Relay!TrafficIInv, Relay!TrafficTypes, Chars, Relay!Chars
  <2>1. CASE attq' = Queued(q, Discover(j, "char")) /\ UNCHANGED sub
    <3>1. Discover(j, "char") \in Request /\ Discover(j, "char") # Subscribe(i)
      BY <1>4 DEF Stages
    <3>2. QED
      BY <1>1, <1>2, <1>3, <2>1, <3>1, TuneAppend
  <2>2. CASE attq' = Queued(q, Discover(j, "ccc")) /\ sub' = [sub EXCEPT ![j] = "handle"]
    <3>1. Discover(j, "ccc") \in Request /\ Discover(j, "ccc") # Subscribe(i)
      BY <1>4 DEF Stages
    <3>2. InTune(q, i, sub'[i], i \in ccc, FALSE)
      BY <1>2, <2>0, <2>2 DEF InTune
    <3>3. QED
      BY <1>1, <1>3, <2>2, <3>1, <3>2, TuneAppend
  <2>3. CASE attq' = Queued(q, Subscribe(j)) /\ sub' = [sub EXCEPT ![j] = "active"]
    <3>1. Subscribe(j) \in Request /\ (i # j => Subscribe(j) # Subscribe(i))
      BY DEF Subscribe, Request
    <3>2. CASE i # j
      <4>1. InTune(q, i, sub'[i], i \in ccc, FALSE)
        BY <1>2, <2>0, <2>3, <3>2
      <4>2. QED
        BY <1>1, <1>3, <2>3, <3>1, <3>2, <4>1, TuneAppend
    <3>3. CASE i = j
      <4>1. Subs(q, i) = {} /\ (i \in ccc) = FALSE
        BY <1>6, <3>3, ResponseFacts
      <4>2. InTune(Append(q, Subscribe(i)), i, sub'[i], FALSE, FALSE)
        BY <1>1, <4>1, TuneAsk
      <4>3. QED
        BY <1>3, <2>3, <3>1, <3>3, <4>1, <4>2
    <3>4. QED
      BY <3>2, <3>3
  <2>4. QED
    BY <1>1, <1>6, <2>1, <2>2, <2>3 DEF Discovered
<1>7. ASSUME NEW i \in Chars, UNCHANGED sub, attq' \in {q, Queued(q, ReadMore)}
      PROVE  InTune(attq', i, sub'[i], i \in ccc, FALSE)
  BY <1>1, <1>2, <1>3, <1>5, <1>7, TuneAppend
<1>8. \A i \in Chars : InTune(attq', i, sub'[i], i \in ccc, FALSE)
  <2>1. r.op = "discover" => r.of \in Chars
    BY <1>1 DEF Request
  <2>2. \/ r.op = "discover" /\ Discovered(r.of, q)
        \/ UNCHANGED sub /\ attq' \in {q, Queued(q, ReadMore)}
    BY DEF OnResponse
  <2>3. QED
    BY <1>6, <1>7, <2>1, <2>2
<1>9. QED
  BY <1>1, <1>8 DEF Agreed

\* What phones ask for subscribes to nothing.
LEMMA AgreedForward ==
  ASSUME HomeIInv, joined, NEW r \in Request, r.op \notin {"discover", "subscribe"}, Forward(r),
         UNCHANGED deviceVars
  PROVE  Agreed'
<1>1. attq' \in {attq, Append(attq, r)} /\ UNCHANGED <<sub, served, ccc, peer>>
  BY DEF Forward, Queued, sensorVars, deviceVars
<1>2. peer # NULL /\ \A i \in Chars : InTune(attq, i, sub[i], i \in ccc, served)
  BY DEF HomeIInv, Agreed
<1>3. \A i \in Chars : r # Subscribe(i)
  BY DEF Subscribe
<1>4. \A i \in Chars : InTune(attq', i, sub[i], i \in ccc, served)
  BY <1>1, <1>2, <1>3, HomeTypes, TuneAppend
<1>5. QED
  BY <1>1, <1>2, <1>4 DEF Agreed

\* What the relay does alone keeps the agreement, or ends the connection.
LEMMA AgreedAlone ==
  ASSUME HomeIInv, RelayAlone
  PROVE  Agreed'
<1> USE DEF sensorVars
<1>0. UNCHANGED deviceVars
  BY DEF RelayAlone
<1>1. ASSUME UNCHANGED <<sub, attq, served, joined>>
      PROVE  Agreed'
  BY <1>0, <1>1 DEF HomeIInv, Agreed, deviceVars
<1>2. CASE OtherConnEvent
  BY <1>1, <1>2 DEF OtherConnEvent, relayVars
<1>3. CASE OnResponse
  <2>1. UNCHANGED joined
    BY <1>3 DEF OnResponse
  <2>2. joined => Agreed'
    BY <1>0, <1>3, AgreedResponse
  <2>3. QED
    BY <2>1, <2>2 DEF Agreed
<1>4. CASE OnNotification
  BY <1>1, <1>4 DEF OnNotification
<1>5. ASSUME NEW c \in Conns, HalfLost(c)
      PROVE  Agreed'
  BY <1>5 DEF HalfLost, Agreed
<1>6. ASSUME NEW c \in Conns,
             PhoneLost(c) \/ PhoneDisconnected(c) \/ \E i \in Chars : PhoneSubscribe(c, i)
      PROVE  Agreed'
  BY <1>1, <1>6 DEF PhoneLost, PhoneDisconnected, PhoneSubscribe, relayVars
<1>7. ASSUME NEW c \in Conns, SensorDisconnected(c) \/ PhoneFatal(c)
      PROVE  Agreed'
  <2>1. ~SensorUp
    BY <1>7 DEF SensorDisconnected, Disconnected, PhoneFatal, FatalAccess, SensorUp
  <2>2. ~joined
    BY <2>1 DEF HomeIInv, Relay!LinkIInv, SensorUp, Relay!SensorUp
  <2>3. UNCHANGED joined
    BY <1>7 DEF SensorDisconnected, PhoneFatal
  <2>4. QED
    BY <2>2, <2>3 DEF Agreed
<1>8. ASSUME NEW c \in Conns, PhoneReadTemp(c) \/ \E v \in Leds : PhoneWriteLed(c, v)
      PROVE  Agreed'
  <2>1. PICK r \in Request : r.op \notin {"discover", "subscribe"} /\ Forward(r)
    <3>1. Read \in Request /\ Read.op = "read"
      BY DEF Read, Request
    <3>2. \A v \in Leds : Write(v) \in Request /\ Write(v).op = "write"
      BY DEF Write, Request
    <3>3. QED
      BY <1>8, <3>1, <3>2 DEF PhoneReadTemp, PhoneWriteLed
  <2>2. UNCHANGED joined
    BY <2>1 DEF Forward
  <2>3. joined => Agreed'
    BY <1>0, <2>1, AgreedForward
  <2>4. QED
    BY <2>2, <2>3 DEF Agreed
<1>9. QED
  BY <1>2, <1>3, <1>4, <1>5, <1>6, <1>7, <1>8 DEF RelayAlone

\* A subscription is held from the moment the sensor serves it.
LEMMA AgreedServe ==
  ASSUME HomeIInv, Serve, joined'
  PROVE  Agreed'
<1> DEFINE r == Head(attq)
<1>0. /\ joined /\ attq # <<>> /\ attq \in Seq(Request) /\ served = FALSE /\ peer # NULL
      /\ \A i \in Chars : InTune(attq, i, sub[i], i \in ccc, FALSE)
      /\ r.op = "subscribe" => r.of \in Chars /\ r = Subscribe(r.of)
  BY HomeTypes, HeadRequest DEF Serve, HomeIInv, Agreed
<1>1. \A i \in Chars : /\ r = Subscribe(i) => InTune(attq, i, sub[i], TRUE, TRUE)
                       /\ r # Subscribe(i) => InTune(attq, i, sub[i], i \in ccc, TRUE)
  BY <1>0, TuneServed
<1>2. \A i, j \in Chars : Subscribe(i) = Subscribe(j) => i = j
  BY DEF Subscribe
<1>3. /\ UNCHANGED <<attq, sub>>
      /\ peer' # NULL
      /\ served' = TRUE
      /\ ccc' = IF r.op = "subscribe" THEN ccc \cup {r.of} ELSE ccc
  <2>1. peer' = NULL /\ EndOfLink => ~joined'
    BY DEF EndOfLink
  <2>2. ASSUME NEW m, Sends(m)
        PROVE  UNCHANGED <<attq, sub>>
    BY <2>2 DEF Sends, mainVars, relayVars
  <2>3. CASE UNCHANGED deviceVars /\ r.op # "subscribe" /\ served' = TRUE /\ \E m : Sends(m)
    BY <1>0, <2>2, <2>3 DEF deviceVars
  <2>4. CASE r.op = "subscribe" /\ r.of = "temp" /\ Device!SubscribeTemp
             /\ served' = TRUE /\ peer' # NULL /\ \E m : Sends(m)
    BY <2>2, <2>4 DEF Device!SubscribeTemp, Device!Reboot
  <2>5. CASE r.op = "subscribe" /\ r.of = "led" /\ Device!ToggleLed
             /\ served' = TRUE /\ \E m : Sends(m)
    <3>1. "led" \notin ccc
      <4>1. 1 \in Subs(attq, "led")
        BY <1>0, <2>5, HeadRequest DEF Subs, Chars
      <4>2. QED
        BY <1>0, <4>1 DEF InTune, Chars
    <3>2. QED
      BY <1>0, <2>2, <2>5, <3>1 DEF Device!ToggleLed
  <2>6. CASE r.op = "write" /\ Device!WriteLed(r.val, TRUE) /\ served' = TRUE /\ \E m : Sends(m)
    BY <1>0, <2>2, <2>6 DEF Device!WriteLed
  <2>7. CASE r.op = "read" /\ Device!ReadTempAborts /\ EndOfLink
    BY <2>1, <2>7 DEF Device!ReadTempAborts, Device!Reboot
  <2>8. QED
    BY <2>1, <2>3, <2>4, <2>5, <2>6, <2>7 DEF Serve
<1>4. ASSUME NEW i \in Chars
      PROVE  InTune(attq, i, sub[i], i \in ccc', TRUE)
  <2>1. CASE r = Subscribe(i)
    <3>1. r.op = "subscribe" /\ r.of = i
      BY <2>1 DEF Subscribe
    <3>2. (i \in ccc') = TRUE
      BY <1>3, <3>1
    <3>3. QED
      BY <1>1, <2>1, <3>2
  <2>2. CASE r # Subscribe(i)
    <3>1. (i \in ccc') = (i \in ccc)
      BY <1>0, <1>3, <2>2
    <3>2. QED
      BY <1>1, <2>2, <3>1
  <2>3. QED
    BY <2>1, <2>2
<1>5. QED
  BY <1>3, <1>4 DEF Agreed

\* Every step of the two together keeps the agreement.
LEMMA AgreedNext ==
  ASSUME HomeIInv, [HomeNext]_homeVars
  PROVE  Agreed'
<1>0. lamp' \in Leds
  BY EspNext
<1>1. CASE UNCHANGED homeVars
  BY <1>1 DEF homeVars, mainVars, relayVars, linkVars, deviceVars, HomeIInv, Agreed
<1>2. CASE RelayAlone
  BY <1>2, AgreedAlone
<1>3. CASE SensorAlone \/ Elsewhere
  BY <1>0, <1>3, SensorAloneStep, ElsewhereIsStep DEF Agreed
<1>4. ASSUME NEW c \in Conns, Join(c)
      PROVE  Agreed'
  <2>1. CASE joined' = FALSE
    BY <2>1 DEF Agreed
  <2>2. ASSUME NEW h \in Handles, Device!Connected(h), SensorConnected(c)
        PROVE  Agreed'
    <3>1. peer' # NULL
      BY <2>2, HomeAssumption DEF HomeAssumption, Device!Connected
    <3>2. attq' = <<Discover("temp", "service"), Discover("led", "service")>> /\ UNCHANGED sub
      <4>1. attq = <<>>
        BY <1>4, JoinStep
      <4>2. UNCHANGED sub
        BY <2>2 DEF SensorConnected
      <4>3. QED
        BY <2>2, <4>1, <4>2, GattAssumption DEF SensorConnected, Queued, GattAssumption
    <3>3. \A i \in Chars : Subs(attq', i) = {} /\ sub'[i] # "active"
      <4>1. \A i \in Chars : sub[i] # "active"
        BY <1>4, JoinStep
      <4>2. DOMAIN attq' = 1 .. 2 /\ attq'[1] = Discover("temp", "service")
            /\ attq'[2] = Discover("led", "service")
        BY <3>2
      <4>3. \A i \in Chars, k \in 1 .. 2 : attq'[k] # Subscribe(i)
        BY <4>2 DEF Discover, Subscribe
      <4>4. QED
        BY <3>2, <4>1, <4>2, <4>3 DEF Subs
    <3>4. QED
      BY <3>1, <3>3 DEF Agreed, InTune
  <2>3. QED
    BY <1>4, <2>1, <2>2 DEF Join
<1>5. CASE Serve
  BY <1>5, AgreedServe DEF Agreed
<1>6. CASE Notify
  BY <1>6 DEF Notify, Sends, mainVars, relayVars, Device!NotifyLed, HomeIInv, Agreed
<1>7. QED
  BY <1>1, <1>2, <1>3, <1>4, <1>5, <1>6 DEF HomeNext

------------------------------------------------------------------------------
\* The theorems

\* The initial states satisfy the invariant, and every step preserves it.
LEMMA HomeInitInv == HomeInit => Relay!GattInit /\ HomeIInv
<1> SUFFICES ASSUME HomeInit
             PROVE  Relay!GattInit /\ HomeIInv
  OBVIOUS
<1>1. Relay!GattInit
  BY RelayInit
<1>2. Relay!ConnIInv
  BY <1>1, Relay!ConnInitInv, RelayAssumed
  DEF Relay!GattInit, Relay!ConnAssumption, Relay!GattAssumption
<1>3. Relay!LinkIInv
  BY <1>1 DEF Relay!GattInit, Relay!LinkIInv, Relay!NothingOutlivesLink, Relay!Chars
<1>4. Relay!TrafficIInv
  <2>1. ~Relay!SensorUp
    BY <1>1 DEF Relay!GattInit, Relay!ConnInit, Relay!SensorUp
  <2>2. QED
    BY <1>1, <2>1, Relay!TrafficClear, RelayAssumed
    DEF Relay!GattInit, Relay!ConnAssumption, Relay!GattAssumption, Relay!Leds
<1>5. Esp!SensorIInv
  BY SameDevice, Esp!SensorInitInv, EspAssumed DEF HomeInit, Esp!SensorAssumption
<1>6. Agreed
  BY DEF HomeInit, GattInit, Agreed
<1>7. QED
  BY <1>1, <1>2, <1>3, <1>4, <1>5, <1>6 DEF HomeIInv

LEMMA HomeNextInv == HomeIInv /\ [HomeNext]_homeVars => HomeIInv'
<1> SUFFICES ASSUME HomeIInv, [HomeNext]_homeVars
             PROVE  HomeIInv'
  OBVIOUS
<1>1. [Relay!GattNext]_Relay!gattVars
  BY RelayStep
<1>2. Relay!ConnIInv'
  <2>1. [Relay!ConnNext]_Relay!connVars
    BY <1>1, Relay!GattStepsConn, RelayAssumed DEF Relay!ConnAssumption, Relay!GattAssumption
  <2>2. QED
    BY <2>1, Relay!ConnNextInv, RelayAssumed
    DEF HomeIInv, Relay!ConnAssumption, Relay!GattAssumption
<1>3. Relay!LinkIInv'
  BY <1>1, Relay!LinkInvNext, RelayAssumed
  DEF HomeIInv, Relay!ConnAssumption, Relay!GattAssumption
<1>4. Relay!TrafficIInv'
  BY <1>1, Relay!TrafficNext, RelayAssumed
  DEF HomeIInv, Relay!ConnAssumption, Relay!GattAssumption
<1>5. QED
  BY <1>2, <1>3, <1>4, EspNext, AgreedNext DEF HomeIInv

\* The invariant of the relay and the sensor together holds in every behaviour.
THEOREM HomeInvariant == HomeSpec => []HomeIInv
  BY HomeInitInv, HomeNextInv, PTL DEF HomeSpec

\* So what is proved of RelayGatt holds of the two together.
LEMMA RelayAtHome == HomeSpec => Relay!GattSpec
<1>1. HomeIInv /\ [HomeNext]_homeVars => [Relay!GattNext]_Relay!gattVars
  BY RelayStep
<1>2. QED
  BY <1>1, HomeInitInv, HomeInvariant, PTL DEF HomeSpec, Relay!GattSpec

\* The sensor's program keeps what RelayGatt assumes of it, through reboots, resets
\* of its host and the connections of other centrals: the composition implements
\* RelayGatt.
THEOREM SensorKeepsAssumption == HomeSpec => SensorAsAssumed
<1>1. HomeIInv /\ [HomeNext]_homeVars => [Assumed!GattNext]_Assumed!gattVars
  BY RelayStep, SameRelay
<1>2. HomeInit => Assumed!GattInit
  BY HomeInitInv, SameRelay
<1>3. QED
  BY <1>1, <1>2, HomeInvariant, PTL DEF HomeSpec, SensorAsAssumed, Assumed!GattSpec

\* Relay and sensor agree on the subscriptions of the connection they share.
THEOREM EndsAgree == HomeSpec => []SubscriptionsAgree
<1>1. HomeIInv => SubscriptionsAgree
  <2> SUFFICES ASSUME HomeIInv, joined
               PROVE  /\ peer # NULL /\ SensorUp
                      /\ \A i \in Chars : sub[i] = "active" <=>
                            i \in ccc \/ \E k \in DOMAIN attq : attq[k] = Subscribe(i)
    BY DEF SubscriptionsAgree
  <2>1. SensorUp
    BY DEF HomeIInv, Relay!LinkIInv, SensorUp, Relay!SensorUp
  <2>2. ASSUME NEW i \in Chars
        PROVE  /\ sub[i] = "active" => i \in ccc \/ Subs(attq, i) # {}
               /\ i \in ccc => sub[i] = "active"
               /\ Subs(attq, i) # {} => sub[i] = "active"
    <3>1. Relay!InOrder(attq, i, discover[i], sub[i])
      BY DEF HomeIInv, Relay!TrafficIInv, Relay!Ordered, Chars, Relay!Chars
    <3>2. Subs(attq, i) # {} => sub[i] = "active"
      BY <3>1, SameMessages DEF Relay!InOrder, Subs
    <3>3. QED
      BY <3>2 DEF HomeIInv, Agreed, InTune, Relay!TrafficIInv, Relay!Subscribed
  <2>3. QED
    BY <2>1, <2>2 DEF HomeIInv, Agreed, Subs
<1>2. QED
  BY <1>1, HomeInvariant, PTL

\* End to end: a phone that was notified of the LED on this connection knows the
\* pixel's state, or the notification that tells it is due or on its way.
THEOREM PhonesKnowLamp == HomeSpec => []PhoneKnowsLamp
<1>1. Relay!CacheFollowsLamp /\ Relay!PhonesFollowCache => PhoneKnowsLamp
  BY SameMessages DEF Relay!CacheFollowsLamp, Relay!PhonesFollowCache, PhoneKnowsLamp
<1>2. Relay!GattSpec => []Relay!CacheFollowsLamp
  BY Relay!CacheIsLamp, RelayAssumed, PTL DEF Relay!ConnAssumption, Relay!GattAssumption
<1>3. Relay!GattSpec => []Relay!PhonesFollowCache
  BY Relay!SubscribersCurrent, RelayAssumed, PTL DEF Relay!ConnAssumption, Relay!GattAssumption
<1>4. QED
  BY <1>1, <1>2, <1>3, RelayAtHome, PTL

\* With the real sensor no procedure is confused or dropped, and no request or
\* subscription outlives its connection.
THEOREM DiscoveryAtHome ==
    HomeSpec => [](DiscoveryInOrder /\ DiscoveryNeverDropped /\ NothingOutlivesLink)
<1>1. Relay!DiscoveryInOrder <=> DiscoveryInOrder
  BY DEF Relay!DiscoveryInOrder, DiscoveryInOrder
<1>2. Relay!DiscoveryNeverDropped <=> DiscoveryNeverDropped
  BY DEF Relay!DiscoveryNeverDropped, DiscoveryNeverDropped, SensorUp, Relay!SensorUp,
         Discover, Relay!Discover
<1>3. Relay!NothingOutlivesLink <=> NothingOutlivesLink
  BY DEF Relay!NothingOutlivesLink, NothingOutlivesLink, Chars, Relay!Chars
<1>4. Relay!GattSpec => []Relay!DiscoveryInOrder
  BY Relay!ProceduresInOrder, RelayAssumed, PTL DEF Relay!ConnAssumption, Relay!GattAssumption
<1>5. Relay!GattSpec => []Relay!DiscoveryNeverDropped
  BY Relay!ProceduresNeverDropped, RelayAssumed, PTL DEF Relay!ConnAssumption, Relay!GattAssumption
<1>6. Relay!GattSpec => []Relay!NothingOutlivesLink
  BY Relay!ListsEmptyBetween, RelayAssumed, PTL DEF Relay!ConnAssumption, Relay!GattAssumption
<1>7. QED
  BY <1>1, <1>2, <1>3, <1>4, <1>5, <1>6, RelayAtHome, PTL

\* The LED's path, from the pixel that any central may set to the relay's cache,
\* implements LedContract.
THEOREM ContractAtHome == HomeSpec => Relay!RelayKeepsLedContract
<1>1. Relay!GattSpec => Relay!RelayKeepsLedContract
  BY Relay!RelayImplementsContract, RelayAssumed, PTL
  DEF Relay!ConnAssumption, Relay!GattAssumption
<1>2. QED
  BY <1>1, RelayAtHome, PTL

=============================================================================
