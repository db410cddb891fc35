---------------------------- MODULE Sensor_proofs ----------------------------
(***************************************************************************)
(* Proofs about Sensor, for any handles and any bytes written.             *)
(***************************************************************************)
EXTENDS Sensor, TLAPS

\* A notification is owed, or one was sent, only on a subscription to the LED.
LedOwed == modified \/ told # NULL => "led" \in ccc

(***************************************************************************)
(* The inductive invariant.  ConnectionView is inductive with the types;   *)
(* the contract needs LedOwed, because its Notify is for a subscribed      *)
(* client while the host's event looks at the due notification only.       *)
(***************************************************************************)
SensorIInv ==
    /\ SensorTypeOK
    /\ ConnectionView
    /\ LedOwed
    /\ PeerCurrent

\* The power-on state satisfies the invariant.
LEMMA SensorInitInv == SensorInit => SensorIInv
<1> SUFFICES ASSUME SensorInit
             PROVE  SensorIInv
  OBVIOUS
<1> USE DEF SensorInit
<1>1. SensorTypeOK
  <2>1. synced \in BOOLEAN /\ adv \in BOOLEAN
    OBVIOUS
  <2>2. modified \in BOOLEAN /\ device_connected \in BOOLEAN
    OBVIOUS
  <2>3. notify_enabled \in {0, 1} /\ chr_val \in 0 .. 255 /\ led_status \in Leds
    BY DEF Leds
  <2>4. /\ peer \in Handles \cup {NULL} /\ conn_handle \in Handles \cup {NULL}
        /\ ccc \subseteq Chars /\ told \in Leds \cup {NULL}
    OBVIOUS
  <2>5. QED
    BY <2>1, <2>2, <2>3, <2>4 DEF SensorTypeOK
<1>2. ConnectionView
  BY DEF ConnectionView
<1>3. LedOwed /\ PeerCurrent
  BY DEF LedOwed, PeerCurrent, Contract!ClientCurrent
<1>4. QED
  BY <1>1, <1>2, <1>3 DEF SensorIInv

\* A reboot leads back to the power-on state.
LEMMA RebootInv == ASSUME Reboot PROVE SensorIInv'
<1> USE DEF Reboot
<1>1. SensorTypeOK'
  <2>1. synced' \in BOOLEAN /\ adv' \in BOOLEAN
    OBVIOUS
  <2>2. modified' \in BOOLEAN /\ device_connected' \in BOOLEAN
    OBVIOUS
  <2>3. notify_enabled' \in {0, 1} /\ chr_val' \in 0 .. 255 /\ led_status' \in Leds
    BY DEF Leds
  <2>4. /\ peer' \in Handles \cup {NULL} /\ conn_handle' \in Handles \cup {NULL}
        /\ ccc' \subseteq Chars /\ told' \in Leds \cup {NULL}
    OBVIOUS
  <2>5. QED
    BY <2>1, <2>2, <2>3, <2>4 DEF SensorTypeOK
<1>2. ConnectionView'
  BY DEF ConnectionView
<1>3. LedOwed' /\ PeerCurrent'
  BY DEF LedOwed, PeerCurrent, Contract!ClientCurrent
<1>4. QED
  BY <1>1, <1>2, <1>3 DEF SensorIInv

\* Every event of the host task preserves the invariant.
LEMMA SensorNextInv == SensorIInv /\ [SensorNext]_sensorVars => SensorIInv'
<1> SUFFICES ASSUME SensorIInv, [SensorNext]_sensorVars
             PROVE  SensorIInv'
  OBVIOUS
<1> USE SensorAssumption
    DEF SensorIInv, SensorTypeOK, ConnectionView, LedOwed, PeerCurrent,
        Contract!ClientCurrent, appVars, ledVars
<1>1. CASE UNCHANGED sensorVars
  BY <1>1 DEF sensorVars, hostVars
<1>2. CASE Reboot
  BY <1>2, RebootInv
<1>3. CASE OnSync /\ ~Reboot
  <2> USE <1>3 DEF OnSync
  <2>1. SensorTypeOK'
    OBVIOUS
  <2>2. ConnectionView'
    OBVIOUS
  <2>3. LedOwed' /\ PeerCurrent'
    OBVIOUS
  <2>4. QED
    BY <2>1, <2>2, <2>3
<1>4. ASSUME NEW h \in Handles, Connected(h)
      PROVE  SensorIInv'
  BY <1>4 DEF Connected
<1>5. CASE ConnectFailed
  BY <1>5 DEF ConnectFailed
<1>6. CASE Disconnected
  <2> USE <1>6 DEF Disconnected, PeerGone, Advertise
  <2>1. SensorTypeOK'
    OBVIOUS
  <2>2. ConnectionView'
    OBVIOUS
  <2>3. LedOwed' /\ PeerCurrent'
    OBVIOUS
  <2>4. QED
    BY <2>1, <2>2, <2>3
<1>7. CASE HostReset
  <2> USE <1>7 DEF HostReset, PeerGone
  <2>1. SensorTypeOK'
    OBVIOUS
  <2>2. ConnectionView'
    OBVIOUS
  <2>3. LedOwed' /\ PeerCurrent'
    OBVIOUS
  <2>4. QED
    BY <2>1, <2>2, <2>3
<1>8. CASE SubscribeTemp /\ ~Reboot
  <2>1. /\ ccc' = ccc \cup {"temp"} /\ notify_enabled' = 1 /\ peer # NULL
        /\ UNCHANGED <<synced, adv, peer, modified, told, device_connected,
                       conn_handle, chr_val, led_status>>
    BY <1>8 DEF SubscribeTemp
  <2>2. SensorTypeOK'
    BY <2>1 DEF Chars
  <2>3. ConnectionView'
    <3>1. notify_enabled' = 1 <=> "temp" \in ccc'
      BY <2>1
    <3>2. QED
      BY <2>1, <3>1
  <2>4. LedOwed' /\ PeerCurrent'
    <3>1. "led" \in ccc => "led" \in ccc'
      BY <2>1
    <3>2. QED
      BY <2>1, <3>1
  <2>5. QED
    BY <2>2, <2>3, <2>4
<1>9. CASE UnsubscribeTemp
  BY <1>9 DEF UnsubscribeTemp
<1>10. CASE ToggleLed
  BY <1>10 DEF ToggleLed, Chars
<1>11. ASSUME NEW v \in Vals, NEW oneByte \in BOOLEAN, WriteLed(v, oneByte)
       PROVE  SensorIInv'
  <2>1. chr_val' \in 0 .. 255 /\ led_status' \in Leds
    BY <1>11 DEF WriteLed, Stored, BlinkLed, Leds
  <2>2. QED
    BY <1>11, <2>1 DEF WriteLed
<1>12. CASE NotifyLed
  BY <1>12 DEF NotifyLed
<1>13. QED
  BY <1>1, <1>2, <1>3, <1>4, <1>5, <1>6, <1>7, <1>8, <1>9, <1>10, <1>11, <1>12
  DEF SensorNext, ReadTempAborts

\* The strengthened invariant holds in every reachable state.
THEOREM SensorInvariant == SensorSpec => []SensorIInv
  BY SensorInitInv, SensorNextInv, PTL DEF SensorSpec

\* Type correctness for any handles and any bytes written: the LED status stays
\* a bit, whatever byte of whatever length a peer wrote.
THEOREM SensorTypeCorrect == SensorSpec => []SensorTypeOK
<1>1. SensorIInv => SensorTypeOK
  BY DEF SensorIInv
<1>2. QED
  BY <1>1, SensorInvariant, PTL

(***************************************************************************)
(* main.c's connection handle and notification flag are those of the       *)
(* host's connection in every state: no temperature goes to a peer that    *)
(* did not subscribe, and the handle is never stale.                       *)
(***************************************************************************)
THEOREM ViewIsRight == SensorSpec => []ConnectionView
<1>1. SensorIInv => ConnectionView
  BY DEF SensorIInv
<1>2. QED
  BY <1>1, SensorInvariant, PTL

\* A peer notified of the LED has its state, or a notification is due to it.
THEOREM PeerIsCurrent == SensorSpec => []PeerCurrent
<1>1. SensorIInv => PeerCurrent
  BY DEF SensorIInv
<1>2. QED
  BY <1>1, SensorInvariant, PTL

(***************************************************************************)
(* The sensor is gone from the air only after a failed connection event,   *)
(* a failed start of advertising or a reset of the host.                   *)
(***************************************************************************)
THEOREM StaysReachable == SensorSpec => InvisibleOnlyOnFailure
<1> DEFINE Kept == Reachable /\ ~Reachable' => \/ ConnectFailed
                                               \/ "adv" \in MayFail
                                               \/ ~synced'
<1>1. SensorIInv /\ [SensorNext]_sensorVars => [Kept]_sensorVars
  <2> SUFFICES ASSUME SensorIInv, SensorNext, Reachable, ~Reachable',
                      "adv" \notin MayFail, synced'
               PROVE  ConnectFailed
    OBVIOUS
  <2>1. CASE OnSync \/ HostReset
    BY <2>1 DEF OnSync, HostReset, Reboot, Reachable
  <2>2. CASE Disconnected
    BY <2>2 DEF Disconnected, Advertise, Reachable
  <2>3. ASSUME NEW h \in Handles, Connected(h)
        PROVE  FALSE
    BY <2>3, SensorAssumption DEF Connected, Reachable
  <2>4. CASE ReadTempAborts \/ SubscribeTemp \/ UnsubscribeTemp \/ ToggleLed \/ NotifyLed
    BY <2>4 DEF ReadTempAborts, SubscribeTemp, UnsubscribeTemp, ToggleLed, NotifyLed, Reboot,
                Reachable
  <2>5. ASSUME NEW v \in Vals, NEW oneByte \in BOOLEAN, WriteLed(v, oneByte)
        PROVE  FALSE
    BY <2>5 DEF WriteLed, Reachable
  <2>6. QED
    BY <2>1, <2>2, <2>3, <2>4, <2>5 DEF SensorNext
<1>2. QED
  BY <1>1, SensorInvariant, PTL DEF SensorSpec, InvisibleOnlyOnFailure

------------------------------------------------------------------------------
\* Every step of the sensor is a step of the LED contract or leaves it alone.
LEMMA SensorStepsContract ==
  SensorIInv /\ [SensorNext]_sensorVars => [Contract!ContractNext]_Contract!contractVars
<1> SUFFICES ASSUME SensorIInv, [SensorNext]_sensorVars
             PROVE  [Contract!ContractNext]_Contract!contractVars
  OBVIOUS
<1> USE DEF Contract!contractVars
<1>1. CASE UNCHANGED <<led_status, ccc, modified, told>>
  BY <1>1
<1>2. ASSUME led_status' \in Leds, "led" \notin ccc', modified' = FALSE, told' = NULL
      PROVE  Contract!ContractNext
  BY <1>2 DEF Contract!ContractNext, Contract!Leave
<1>3. led_status \in Leds
  BY DEF SensorIInv, SensorTypeOK
<1>4. CASE Reboot
  BY <1>2, <1>4 DEF Reboot, Leds
<1>5. CASE Disconnected \/ HostReset
  BY <1>1, <1>2, <1>3, <1>5 DEF Disconnected, HostReset, PeerGone, ledVars
<1>6. CASE ToggleLed
  <2>1. CASE "led" \in ccc
    BY <1>2, <1>3, <1>6, <2>1 DEF ToggleLed, ledVars
  <2>2. CASE "led" \notin ccc
    BY <1>6, <2>2 DEF ToggleLed, ledVars, Contract!ContractNext, Contract!Follow
  <2>3. QED
    BY <2>1, <2>2
<1>7. ASSUME NEW v \in Vals, NEW oneByte \in BOOLEAN, WriteLed(v, oneByte)
      PROVE  Contract!ContractNext
  <2>1. led_status' \in Leds
    BY <1>7 DEF WriteLed, BlinkLed, Leds
  <2>2. Contract!Change(led_status')
    BY <1>7 DEF WriteLed, Contract!Change
  <2>3. QED
    BY <2>1, <2>2 DEF Contract!ContractNext
<1>8. CASE NotifyLed
  <2>1. "led" \in ccc
    BY <1>8 DEF NotifyLed, SensorIInv, LedOwed
  <2>2. QED
    BY <1>8, <2>1 DEF NotifyLed, ledVars, Contract!ContractNext, Contract!Notify
<1>9. CASE \/ (OnSync \/ SubscribeTemp) /\ ~Reboot
           \/ ConnectFailed \/ UnsubscribeTemp
           \/ \E h \in Handles : Connected(h)
           \/ UNCHANGED sensorVars
  <2>1. /\ UNCHANGED <<led_status, modified, told>>
        /\ "led" \in ccc' <=> "led" \in ccc
    BY <1>9 DEF OnSync, SubscribeTemp, ConnectFailed, UnsubscribeTemp, Connected,
                sensorVars, hostVars, ledVars
  <2>2. QED
    BY <2>1
<1>10. QED
  BY <1>4, <1>5, <1>6, <1>7, <1>8, <1>9 DEF SensorNext, ReadTempAborts

(***************************************************************************)
(* The sensor implements the LED contract: whatever is written, and in     *)
(* whatever order connections, subscriptions, resets and the host's        *)
(* deferred notifications come, its LED characteristic behaves as promised.*)
(***************************************************************************)
THEOREM SensorImplementsContract == SensorSpec => KeepsLedContract
<1>1. SensorInit => Contract!ContractInit
  BY DEF SensorInit, Contract!ContractInit, Leds
<1>2. QED
  BY <1>1, SensorInvariant, SensorStepsContract, PTL
  DEF SensorSpec, KeepsLedContract, Contract!ContractSpec

=============================================================================
