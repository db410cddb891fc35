------------------------------- MODULE HomeRelay -------------------------------
(***************************************************************************)
(* The relay and the sensor together: RelayGatt with the application of    *)
(* the sensor (Sensor) at the other end of its link, instead of the        *)
(* reduced sensor RelayGatt assumes.  Each side learns of the loss of the  *)
(* link for itself, the sensor may restart under the relay's feet, and     *)
(* between two connections of the relay other centrals use the sensor.     *)
(*                                                                         *)
(* ccc, dirty and lamp are the sensor's own here: of its peer, whoever     *)
(* that is, and not of the relay only.                                     *)
(***************************************************************************)
EXTENDS RelayGatt

CONSTANTS
    Handles, Vals,  \* of Sensor
    DeviceMayFail   \* its MayFail

\* The sensor has both characteristics (gatt_svr.c), and what the relay writes is
\* among what any central may write.
ASSUME HomeAssumption ==
    /\ Offers = Chars
    /\ NULL \notin Handles
    /\ Leds \subseteq Vals /\ Vals \subseteq 0 .. 255
    /\ DeviceMayFail \subseteq {"adv", "connect", "notify", "temp"}

VARIABLES
    synced, adv, peer, peer_told, device_connected, conn_handle, notify_enabled, chr_val

Device == INSTANCE Sensor WITH
    MayFail <- DeviceMayFail, modified <- dirty, told <- peer_told, led_status <- lamp

\* What RelayGatt takes the sensor to be: its state as far as it is the relay's.
Assumed == INSTANCE RelayGatt WITH
    ccc <- IF joined THEN ccc ELSE {}, dirty <- joined /\ dirty

mainVars   == <<connVars, relayVars>>
linkVars   == <<served, downlink, heard, joined>>
deviceVars == <<synced, adv, peer, ccc, dirty, peer_told, device_connected, conn_handle,
                notify_enabled, chr_val, lamp>>
homeVars   == <<mainVars, linkVars, deviceVars>>

HomeInit == GattInit /\ Device!SensorInit

------------------------------------------------------------------------------
\* What one side does alone

\* The relay's end is lost; the sensor's goes on until it notices.
HalfLost(c) ==
    /\ LinkLost(c) /\ c = central_conn
    /\ downlink' = <<>> /\ served' = FALSE /\ heard' = FALSE /\ joined' = FALSE
    /\ UNCHANGED relayVars

RelayAlone ==
    /\ UNCHANGED deviceVars
    /\ \/ OtherConnEvent \/ OnResponse \/ OnNotification
       \/ \E c \in Conns :
            \/ HalfLost(c) \/ PhoneLost(c)
            \/ SensorDisconnected(c) \/ PhoneDisconnected(c)
            \/ PhoneReadTemp(c) \/ PhoneFatal(c)
            \/ \E v \in Leds : PhoneWriteLed(c, v)
            \/ \E i \in Chars : PhoneSubscribe(c, i)

\* The relay gets no more than it had been sent once the sensor has lost its
\* peer, to a disconnection, a reset of its host or a reboot.
EndOfLink ==
    /\ joined' = (joined /\ peer' # NULL)
    /\ IF joined' = joined THEN UNCHANGED downlink
       ELSE \E k \in 0 .. Len(downlink) : downlink' = SubSeq(downlink, 1, k)
    /\ UNCHANGED <<mainVars, served, heard>>

SensorAlone ==
    /\ \/ Device!OnSync \/ Device!ConnectFailed
       \/ Device!Disconnected \/ Device!HostReset
    /\ EndOfLink

\* Another central connects and makes its requests.
Elsewhere ==
    /\ ~joined
    /\ \/ \E h \in Handles : Device!Connected(h)
       \/ Device!ReadTempAborts \/ Device!SubscribeTemp \/ Device!UnsubscribeTemp
       \/ Device!ToggleLed \/ Device!NotifyLed
       \/ \E v \in Vals, oneByte \in BOOLEAN : Device!WriteLed(v, oneByte)
    /\ UNCHANGED <<mainVars, linkVars>>

------------------------------------------------------------------------------
\* What they do together

\* The link comes up at both ends, or the sensor misses the request to connect.
Join(c) ==
    \/ \E h \in Handles : Device!Connected(h) /\ joined' = TRUE /\ SensorConnected(c)
    \/ joined' = FALSE /\ SensorConnected(c) /\ UNCHANGED deviceVars

Sends(messages) ==
    /\ downlink' = downlink \o messages
    /\ UNCHANGED <<mainVars, heard, joined>>

\* The sensor's host takes the request in flight; gatt_svr_chr_access() and the
\* SUBSCRIBE event run before it answers, and may reboot the sensor instead.
Serve ==
    /\ joined /\ attq # <<>> /\ ~served
    /\ LET r == Head(attq)
           Answered(messages) == served' = TRUE /\ Sends(Append(messages, Answer(r)))
       IN  \/ /\ r.op \in {"discover", "readmore"}
              /\ UNCHANGED deviceVars
              /\ Answered(<<>>)
           \/ /\ r.op = "subscribe" /\ r.of = "temp"
              /\ Device!SubscribeTemp
              /\ IF peer' = NULL THEN EndOfLink
                 ELSE \E t \in Temps : Answered(<<Notification("temp", t)>>)
           \/ /\ r.op = "subscribe" /\ r.of = "led"
              /\ Device!ToggleLed
              /\ Answered(<<>>)
           \/ /\ r.op = "read"
              /\ UNCHANGED deviceVars
              /\ \E t \in Temps : served' = TRUE /\ Sends(<<Response(TRUE, t)>>)
           \/ r.op = "read" /\ Device!ReadTempAborts /\ EndOfLink
           \/ /\ r.op = "write"
              /\ Device!WriteLed(r.val, TRUE)
              /\ Answered(<<>>)

\* The sensor's host notifies the relay of the LED.
Notify ==
    /\ joined /\ Device!NotifyLed
    /\ Sends(<<Notification("led", peer_told')>>)
    /\ UNCHANGED served

HomeNext ==
    \/ RelayAlone \/ SensorAlone \/ Elsewhere
    \/ \E c \in Conns : Join(c)
    \/ Serve \/ Notify

HomeSpec == HomeInit /\ [][HomeNext]_homeVars

------------------------------------------------------------------------------
\* Properties

(***************************************************************************)
(* The sensor does what RelayGatt assumes of it: every step of the two     *)
(* programs together is one of RelayGatt's, with the sensor's state cut    *)
(* down to the relay's connection.  So what is shown of RelayGatt holds of *)
(* the relay with this sensor, reboots and other centrals included.        *)
(***************************************************************************)
SensorAsAssumed == Assumed!GattSpec

(***************************************************************************)
(* The two ends agree on the subscriptions: the sensor holds those the     *)
(* relay has made on this connection, none of an earlier peer's, and the   *)
(* relay counts on none the sensor has forgotten.                          *)
(***************************************************************************)
SubscriptionsAgree ==
    joined =>
        /\ peer # NULL /\ SensorUp
        /\ \A i \in Chars :
             sub[i] = "active" <=>
                i \in ccc \/ \E k \in DOMAIN attq : attq[k] = Subscribe(i)

(***************************************************************************)
(* End to end: a phone notified of the LED on this connection knows the    *)
(* pixel's state, or the notification that tells it is due at the sensor   *)
(* or on its way, whoever wrote the LED, whatever the length written.      *)
(***************************************************************************)
PhoneKnowsLamp ==
    joined /\ heard => \A c \in Conns : told[c] # NULL =>
        \/ told[c] = lamp
        \/ dirty
        \/ \E k \in DOMAIN downlink : downlink[k] = Notification("led", lamp)

=============================================================================
