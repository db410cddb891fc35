--------------------------- MODULE RelayGatt_proofs ---------------------------
(***************************************************************************)
(* Proofs about RelayGatt: it is an implementation of RelayConn, so every  *)
(* theorem of RelayConn_proofs holds of it, and no request, subscription   *)
(* or notified value outlives its connection.                              *)
(***************************************************************************)
EXTENDS RelayGatt, RelayConn_proofs

(***************************************************************************)
(* Each step of the GATT layer is a step of the connection management or   *)
(* leaves its variables alone.                                             *)
(***************************************************************************)
LEMMA GattStepsConn == [GattNext]_gattVars => [ConnNext]_connVars
<1> SUFFICES ASSUME [GattNext]_gattVars
             PROVE  [ConnNext]_connVars
  OBVIOUS
<1>1. CASE UNCHANGED gattVars
  BY <1>1 DEF gattVars
<1>2. CASE OtherConnEvent
  BY <1>2 DEF OtherConnEvent, ConnNext
<1>3. ASSUME NEW c \in Conns,
             \/ SensorConnected(c) \/ SensorLost(c) \/ PhoneLost(c)
             \/ SensorDisconnected(c) \/ PhoneDisconnected(c) \/ PhoneFatal(c)
      PROVE  ConnNext
  BY <1>3 DEF SensorConnected, SensorLost, PhoneLost, SensorDisconnected,
              PhoneDisconnected, PhoneFatal, ConnNext
<1>4. ASSUME NEW c \in Conns,
             \/ PhoneReadTemp(c)
             \/ \E v \in Leds : PhoneWriteLed(c, v)
             \/ \E i \in Chars : PhoneSubscribe(c, i)
      PROVE  UNCHANGED connVars
  BY <1>4 DEF PhoneReadTemp, PhoneWriteLed, PhoneSubscribe, Forward
<1>5. CASE \/ SensorServes \/ SensorNotifies \/ SensorGone \/ LampElsewhere
           \/ OnResponse \/ OnNotification
  BY <1>5 DEF SensorServes, SensorNotifies, SensorGone, LampElsewhere, OnResponse,
              OnNotification
<1>6. QED
  BY <1>1, <1>2, <1>3, <1>4, <1>5 DEF GattNext

\* The relay with its GATT layer refines the connection management alone:
\* reference counts, the central slot and the LEDs are right in it too.
THEOREM GattImplementsConn == GattSpec => ConnSpec
<1>1. GattInit => ConnInit
  BY DEF GattInit
<1>2. QED
  BY <1>1, GattStepsConn, PTL DEF GattSpec, ConnSpec

\* The connection management's invariant holds of the whole relay.
LEMMA ConnInGatt == GattSpec => []ConnIInv
  BY GattImplementsConn, ConnInvariant, PTL

------------------------------------------------------------------------------
\* Between two connections to a sensor nothing of the first is left.

(***************************************************************************)
(* The inductive invariant behind NothingOutlivesLink.  A callback could   *)
(* queue a request or a subscription while idle only if a response of the  *)
(* sensor were still on its way, so the downlink has to be empty then too, *)
(* and the sensor's end of the connection gone.                            *)
(***************************************************************************)
LinkIInv ==
    /\ NothingOutlivesLink
    /\ downlink # <<>> \/ joined => SensorUp

\* A step that leaves the central connection and the traffic alone keeps it.
LEMMA LinkInvFrame ==
  ASSUME LinkIInv,
         central_conn' = central_conn,
         central_conn # NULL => link'[central_conn] = link[central_conn],
         UNCHANGED <<attq, sub, downlink, joined>>
  PROVE  LinkIInv'
  BY DEF LinkIInv, NothingOutlivesLink, SensorUp

\* While the sensor is up, whatever is queued or subscribed is of its connection.
LEMMA LinkInvUp ==
  ASSUME SensorUp, UNCHANGED connVars
  PROVE  LinkIInv'
  BY DEF LinkIInv, NothingOutlivesLink, SensorUp, connVars

\* Between two connections to a sensor, or waiting for the second.
Idle == central_conn = NULL \/ link[central_conn] = "init"

\* What leaves the central connection alone leaves the sensor as it is.
LEMMA CentralFrame ==
  ASSUME central_conn' = central_conn,
         central_conn # NULL => link'[central_conn] = link[central_conn]
  PROVE  (SensorUp' <=> SensorUp) /\ (Idle' <=> Idle)
  BY DEF SensorUp, Idle

\* Boot steps, scan reports, failed attempts and the phones' connections neither
\* bring the sensor up nor lose it, and end no idle time.
LEMMA OtherKeepsSensor ==
  ASSUME ConnIInv, OtherConnEvent
  PROVE  (SensorUp' <=> SensorUp) /\ (Idle' <=> Idle)
<1>0. /\ central_conn \in Conns \cup {NULL} /\ NULL \notin Conns
      /\ link \in [Conns -> LinkStates]
  BY ConnAssumption DEF ConnIInv, ConnTypeOK
<1>1. CASE MainEnable \/ MainScan
  BY <1>0, <1>1, CentralFrame DEF MainEnable, MainScan
<1>2. CASE MainAdvertise
  <2>1. \A c \in Conns : Free(c) => c # central_conn
    BY RefCount DEF Free
  <2>2. central_conn # NULL => link'[central_conn] = link[central_conn]
    BY <1>0, <1>2, <2>1 DEF MainAdvertise, Reserve
  <2>3. QED
    BY <1>0, <1>2, <2>2, CentralFrame DEF MainAdvertise
<1>3. ASSUME NEW s \in Sensors, ScanMatch(s) \/ ConnectingError(s)
      PROVE  (SensorUp' <=> SensorUp) /\ (Idle' <=> Idle)
  <2>1. CASE ConnectingError(s)
    BY <1>0, <2>1, CentralFrame DEF ConnectingError
  <2>2. CASE ScanMatch(s)
    <3>1. central_conn = NULL
      BY <2>2 DEF ScanMatch, ConnIInv, ScanExclusive
    <3>2. central_conn' \in Conns /\ link'[central_conn'] = "init"
      BY <1>0, <2>2 DEF ScanMatch
    <3>3. QED
      BY <1>0, <3>1, <3>2 DEF Idle, SensorUp
  <2>3. QED
    BY <1>3, <2>1, <2>2
<1>4. ASSUME NEW c \in Conns, ConnectFailed(c)
      PROVE  (SensorUp' <=> SensorUp) /\ (Idle' <=> Idle)
  <2>1. link[c] = "init" /\ c = central_conn
    BY <1>4, RefCount DEF ConnectFailed
  <2>2. central_conn' = NULL
    BY <1>4, <2>1 DEF ConnectFailed
  <2>3. QED
    BY <1>0, <2>1, <2>2 DEF Idle, SensorUp
<1>5. ASSUME NEW c \in Conns, Release(c)
      PROVE  (SensorUp' <=> SensorUp) /\ (Idle' <=> Idle)
  <2>1. PICK e \in Conns \cup {NULL} : Moved(c, "none", NULL, 0, e)
    BY <1>5, ReleaseMoves
  <2>2. c # central_conn /\ (e \in Conns /\ e # c => e # central_conn)
    BY <1>5, <2>1, <1>0, RefCount DEF Release, Moved
  <2>3. central_conn # NULL => link'[central_conn] = link[central_conn]
    BY <1>0, <2>1, <2>2 DEF Moved
  <2>4. QED
    BY <1>0, <1>5, <2>3, CentralFrame DEF Release
<1>6. ASSUME NEW c \in Conns, NEW p \in Phones, ConnectedPhone(c, p)
      PROVE  (SensorUp' <=> SensorUp) /\ (Idle' <=> Idle)
  <2>1. Moved(c, "up", p, 1, NULL)
    BY <1>6, PhoneMoves
  <2>2. c # central_conn
    BY <1>6, RefCount DEF ConnectedPhone
  <2>3. central_conn # NULL => link'[central_conn] = link[central_conn]
    BY <1>0, <2>1, <2>2 DEF Moved
  <2>4. QED
    BY <1>0, <1>6, <2>3, CentralFrame DEF ConnectedPhone
<1>7. QED
  BY <1>1, <1>2, <1>3, <1>4, <1>5, <1>6 DEF OtherConnEvent

\* They preserve the invariant.
LEMMA LinkInvOther == ConnIInv /\ LinkIInv /\ OtherConnEvent => LinkIInv'
<1> SUFFICES ASSUME ConnIInv, LinkIInv, OtherConnEvent
             PROVE  LinkIInv'
  OBVIOUS
<1>1. (SensorUp' <=> SensorUp) /\ (Idle' <=> Idle)
  BY OtherKeepsSensor
<1>2. UNCHANGED <<attq, sub, downlink, joined>>
  BY DEF OtherConnEvent, relayVars, sensorVars
<1>3. QED
  BY <1>1, <1>2 DEF LinkIInv, NothingOutlivesLink, Idle

\* Every step of the relay and of the sensor preserves it.
LEMMA LinkInvNext == ConnIInv /\ LinkIInv /\ [GattNext]_gattVars => LinkIInv'
<1> SUFFICES ASSUME ConnIInv, LinkIInv, [GattNext]_gattVars
             PROVE  LinkIInv'
  OBVIOUS
<1>0. /\ central_conn \in Conns \cup {NULL} /\ NULL \notin Conns
      /\ link \in [Conns -> LinkStates]
  BY ConnAssumption DEF ConnIInv, ConnTypeOK
<1>1. CASE UNCHANGED gattVars
  BY <1>0, <1>1, LinkInvFrame DEF gattVars, connVars, relayVars, sensorVars
<1>2. CASE OtherConnEvent
  BY <1>2, LinkInvOther
<1>3. ASSUME NEW c \in Conns, SensorConnected(c) \/ SensorLost(c)
      PROVE  LinkIInv'
  <2>1. c = central_conn
    BY <1>3, RefCount DEF SensorConnected, ConnectedCentral, SensorLost
  <2>2. CASE SensorConnected(c)
    BY <1>0, <2>1, <2>2
    DEF SensorConnected, ConnectedCentral, LinkIInv, NothingOutlivesLink, SensorUp
  <2>3. CASE SensorLost(c)
    BY <1>0, <2>1, <2>3 DEF SensorLost, LinkLost, LinkIInv, NothingOutlivesLink, SensorUp
  <2>4. QED
    BY <1>3, <2>2, <2>3
<1>4. ASSUME NEW c \in Conns, PhoneLost(c) \/ PhoneDisconnected(c)
      PROVE  LinkIInv'
  <2>1. /\ c # central_conn /\ central_conn' = central_conn
        /\ UNCHANGED <<attq, sub, downlink, joined>>
    BY <1>4 DEF PhoneLost, LinkLost, PhoneDisconnected, Disconnected, relayVars, sensorVars
  <2>2. central_conn # NULL => link'[central_conn] = link[central_conn]
    BY <1>0, <1>4, <2>1 DEF PhoneLost, LinkLost, PhoneDisconnected, Disconnected
  <2>3. QED
    BY <2>1, <2>2, LinkInvFrame
<1>5. ASSUME NEW c \in Conns, SensorDisconnected(c)
      PROVE  LinkIInv'
  <2>1. /\ c = central_conn /\ link[c] = "down" /\ central_conn' = NULL
        /\ UNCHANGED <<downlink, joined>>
    BY <1>5 DEF SensorDisconnected, Disconnected, sensorVars
  <2>2. attq' = <<>> /\ \A i \in Chars : sub'[i] # "active"
    BY <1>5 DEF SensorDisconnected
  <2>3. QED
    BY <2>1, <2>2 DEF LinkIInv, NothingOutlivesLink, SensorUp
<1>6. ASSUME NEW c \in Conns, PhoneFatal(c)
      PROVE  LinkIInv'
  <2>1. central_conn = NULL /\ central_conn' = NULL /\ UNCHANGED <<downlink, joined>>
    BY <1>6 DEF PhoneFatal, FatalAccess, Reset, sensorVars
  <2>2. attq' = <<>> /\ \A i \in Chars : sub'[i] # "active"
    BY <1>6 DEF PhoneFatal
  <2>3. QED
    BY <2>1, <2>2 DEF LinkIInv, NothingOutlivesLink, SensorUp
<1>7. ASSUME NEW r, Forward(r)
      PROVE  LinkIInv'
  <2>1. CASE SensorUp
    BY <1>7, <2>1, LinkInvUp DEF Forward
  <2>2. CASE ~SensorUp
    BY <1>7, <2>2, LinkInvFrame DEF Forward, connVars, sensorVars
  <2>3. QED
    BY <2>1, <2>2
<1>8. ASSUME NEW c \in Conns, NEW i \in Chars, PhoneSubscribe(c, i)
      PROVE  LinkIInv'
  BY <1>8, LinkInvFrame DEF PhoneSubscribe, connVars, sensorVars
<1>9. CASE SensorServes \/ SensorNotifies \/ SensorGone \/ OnResponse \/ OnNotification
  <2>1. SensorUp
    BY <1>9 DEF SensorServes, SensorNotifies, SensorGone, OnResponse, OnNotification, LinkIInv
  <2>2. UNCHANGED connVars
    BY <1>9 DEF SensorServes, SensorNotifies, SensorGone, OnResponse, OnNotification
  <2>3. QED
    BY <2>1, <2>2, LinkInvUp
<1>10. CASE LampElsewhere
  BY <1>10, LinkInvFrame DEF LampElsewhere, connVars, relayVars
<1>11. QED
  BY <1>1, <1>2, <1>3, <1>4, <1>5, <1>6, <1>7, <1>8, <1>9, <1>10
  DEF GattNext, PhoneReadTemp, PhoneWriteLed

(***************************************************************************)
(* gatt_discover() always starts from an empty list: no request and no     *)
(* subscription made on one connection to the sensor is there when the     *)
(* next one is made, whatever the phones did in between.                   *)
(***************************************************************************)
THEOREM ListsEmptyBetween == GattSpec => []NothingOutlivesLink
<1>1. GattInit => LinkIInv
  BY DEF GattInit, LinkIInv, NothingOutlivesLink
<1>2. GattSpec => []LinkIInv
  BY <1>1, LinkInvNext, ConnInGatt, PTL DEF GattSpec
<1>3. LinkIInv => NothingOutlivesLink
  BY DEF LinkIInv
<1>4. QED
  BY <1>2, <1>3, PTL

------------------------------------------------------------------------------
\* Inductive: only a phone that is subscribed has a last notified value, so
\* notify_led_status() reaches every phone whose value it makes outdated.
ToldIInv ==
    /\ PhonesFollowCache
    /\ DOMAIN told = Conns
    /\ phoneCcc \in [Conns -> SUBSET Chars]
    /\ \A c \in Conns : told[c] # NULL => "led" \in phoneCcc[c]

\* Every step preserves it; only subscriptions and notifications touch it.
LEMMA ToldNext == ToldIInv /\ [GattNext]_gattVars => ToldIInv'
<1> SUFFICES ASSUME ToldIInv, [GattNext]_gattVars
             PROVE  ToldIInv'
  OBVIOUS
<1> USE GattAssumption DEF ToldIInv, PhonesFollowCache
<1>1. CASE UNCHANGED <<led_status, phoneCcc, told>>
  BY <1>1
<1>2. ASSUME NEW c \in Conns, PhoneDisconnected(c) \/ PhoneFatal(c)
      PROVE  ToldIInv'
  BY <1>2 DEF PhoneDisconnected, PhoneFatal
<1>3. ASSUME NEW c \in Conns, NEW i \in Chars, PhoneSubscribe(c, i)
      PROVE  ToldIInv'
  <2>1. phoneCcc' \in [Conns -> SUBSET Chars] /\ led_status' = led_status
    BY <1>3 DEF PhoneSubscribe
  <2>2. told' = IF i = "led" THEN [told EXCEPT ![c] = NULL] ELSE told
    BY <1>3 DEF PhoneSubscribe
  <2>3. \A d \in Conns : told'[d] # NULL => told'[d] = told[d] /\ (d = c => i # "led")
    BY <2>2
  <2>4. \A d \in Conns : phoneCcc'[d] = phoneCcc[d] \/ (d = c /\ ("led" \in phoneCcc'[d]
                                                       <=> ("led" \in phoneCcc[d]) # (i = "led")))
    BY <1>3 DEF PhoneSubscribe
  <2>5. DOMAIN told' = Conns
    BY <2>2
  <2>6. QED
    BY <2>1, <2>3, <2>4, <2>5
<1>4. CASE OnNotification
  <2>1. CASE told' = told /\ led_status' = led_status
    BY <1>4, <2>1 DEF OnNotification
  <2>2. CASE told' = [c \in Conns |-> IF "led" \in phoneCcc[c] THEN led_status' ELSE told[c]]
    BY <1>4, <2>2 DEF OnNotification
  <2>3. QED
    BY <1>4, <2>1, <2>2 DEF OnNotification
<1>5. QED
  BY <1>1, <1>2, <1>3, <1>4
  DEF GattNext, gattVars, relayVars, OtherConnEvent, SensorConnected, SensorLost, PhoneLost,
      SensorDisconnected, PhoneReadTemp, PhoneWriteLed, Forward, SensorServes,
      SensorNotifies, SensorGone, LampElsewhere, OnResponse

\* A phone that was told the LED's status is told of every later change of the
\* cache: notify_led_status() leaves no subscribed phone behind.
THEOREM SubscribersCurrent == GattSpec => []PhonesFollowCache
<1>1. GattInit => ToldIInv
  BY DEF GattInit, ToldIInv, PhonesFollowCache
<1>2. ToldIInv => PhonesFollowCache
  BY DEF ToldIInv
<1>3. QED
  BY <1>1, <1>2, ToldNext, PTL DEF GattSpec

=============================================================================
