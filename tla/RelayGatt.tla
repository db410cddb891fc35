------------------------------ MODULE RelayGatt ------------------------------
(***************************************************************************)
(* The GATT layer of the relay (nrf52840-dk/src/main.c) on top of its      *)
(* connection management: the two discovery procedures and subscriptions   *)
(* towards the sensor, the cached temperature and LED status, and the      *)
(* requests of phones that the caches and the sensor answer.  The sensor   *)
(* is its GATT server (esp32-c6/main/gatt_svr.c) reduced to what it sends. *)
(*                                                                         *)
(* All ATT traffic of the relay runs on the Bluetooth RX thread.  Requests *)
(* to the sensor are sent one at a time, in order, from at most ReqSlots   *)
(* request objects; the response and the notifications of the sensor       *)
(* travel in order in downlink.  The two ends of the link do not learn of  *)
(* its loss at the same time: the sensor's end may be gone, or never have  *)
(* come up, while the relay waits for its supervision timeout.             *)
(***************************************************************************)
EXTENDS RelayConn

CONSTANTS
    Offers,    \* the characteristics the sensor has: a subset of Chars
    Temps,     \* temperatures the sensor may report, 0 excluded
    ReqSlots   \* ATT request objects (CONFIG_BT_L2CAP_TX_BUF_COUNT)

\* The two characteristics relayed; "temp" is index 0 of the arrays of main.c.
Chars == {"temp", "led"}
Leds  == {0, 1}

ASSUME GattAssumption ==
    /\ Offers \subseteq Chars
    /\ Temps \subseteq Nat \ {0}
    /\ ReqSlots \in Nat \ {0, 1}
    /\ NULL \notin Leds

VARIABLES
    discover,   \* the stage discover_params[i] is set up for
    sub,        \* subscribe_params[i]: empty, value handle known, or subscribed
    attq,       \* requests to the sensor, the first one in flight
    temp_val,   \* main.c: the cached temperature
    led_status, \* main.c: the cached LED status
    phoneCcc,   \* what the phone on each connection subscribed to
    told,       \* the LED status last notified to it since it subscribed
    served,     \* the sensor has answered the request in flight
    downlink,   \* responses and notifications on their way to the relay
    joined,     \* sensor: its end of the relay's connection is up
    ccc,        \* sensor: the characteristics the relay subscribed to
    dirty,      \* sensor: an LED notification is due
    lamp,       \* sensor: the state of the LED
    heard       \* history: an LED notification arrived on this connection

relayVars  == <<discover, sub, attq, temp_val, led_status, phoneCcc, told>>
sensorVars == <<served, downlink, joined, ccc, dirty, lamp, heard>>
gattVars   == <<connVars, relayVars, sensorVars>>

Stages == {"zero", "service", "char", "ccc"}

Request == [op : {"discover"}, of : Chars, stage : Stages \ {"zero"}]
      \cup [op : {"subscribe"}, of : Chars]
      \cup [op : {"read", "readmore"}]
      \cup [op : {"write"}, val : Leds]

Discover(i, s) == [op |-> "discover", of |-> i, stage |-> s]
Subscribe(i)   == [op |-> "subscribe", of |-> i]
Read           == [op |-> "read"]
ReadMore       == [op |-> "readmore"]
Write(v)       == [op |-> "write", val |-> v]

Message == [kind : {"response"}, found : BOOLEAN, val : Temps \cup {0}]
      \cup [kind : {"notification"}, of : {"temp"}, val : Temps]
      \cup [kind : {"notification"}, of : {"led"}, val : Leds]

Response(f, v)     == [kind |-> "response", found |-> f, val |-> v]
Notification(i, v) == [kind |-> "notification", of |-> i, val |-> v]

SensorUp == central_conn # NULL /\ link[central_conn] = "up"

\* Mutant of Queued: no limit.
QueuedUnbounded(q, r) == Append(q, r)

\* bt_gatt_read(), bt_gatt_write(), ...: without a free request object the call
\* returns an error, which main.c only prints.
Queued(q, r) == IF Len(q) < ReqSlots THEN Append(q, r) ELSE q

GattInit ==
    /\ ConnInit
    /\ discover = [i \in Chars |-> "zero"]
    /\ sub = [i \in Chars |-> "none"]
    /\ attq = <<>>
    /\ temp_val = 0
    /\ led_status = 0
    /\ phoneCcc = [c \in Conns |-> {}]
    /\ told = [c \in Conns |-> NULL]
    /\ served = FALSE
    /\ downlink = <<>>
    /\ joined = FALSE
    /\ ccc = {}
    /\ dirty = FALSE
    /\ lamp = 0
    /\ heard = FALSE

------------------------------------------------------------------------------
\* Connection events, with what they do to GATT

\* Mutant of SensorConnected: the second procedure is not started.
SensorConnectedOnce(c) ==
    /\ ConnectedCentral(c)
    /\ attq' = Queued(attq, Discover("temp", "service"))
    /\ discover' = [discover EXCEPT !["temp"] = "service"]
    /\ joined' \in BOOLEAN
    /\ UNCHANGED <<sub, temp_val, led_status, phoneCcc, told, served, downlink, ccc, dirty,
                   lamp, heard>>

(***************************************************************************)
(* connected() as central calls gatt_discover(): both procedures start at  *)
(* the primary service; the second is not tried when the first fails.  The *)
(* sensor may have missed the request to connect: then it never answers.   *)
(***************************************************************************)
SensorConnected(c) ==
    /\ ConnectedCentral(c)
    /\ IF Len(attq) < ReqSlots
       THEN /\ attq' = Queued(Append(attq, Discover("temp", "service")),
                              Discover("led", "service"))
            /\ discover' = [i \in Chars |-> "service"]
       ELSE /\ discover' = [discover EXCEPT !["temp"] = "service"]
            /\ UNCHANGED attq
    /\ joined' \in BOOLEAN
    /\ UNCHANGED <<sub, temp_val, led_status, phoneCcc, told, served, downlink, ccc, dirty,
                   lamp, heard>>

\* The relay's end of the link is lost, with what is in flight; main.c learns of
\* it in disconnected().  Nothing the sensor holds for the relay counts any more.
SensorLost(c) ==
    /\ LinkLost(c) /\ c = central_conn
    /\ downlink' = <<>> /\ served' = FALSE
    /\ joined' = FALSE
    /\ ccc' = {} /\ dirty' = FALSE /\ heard' = FALSE
    /\ UNCHANGED <<relayVars, lamp>>

PhoneLost(c) ==
    /\ LinkLost(c) /\ c # central_conn
    /\ UNCHANGED <<relayVars, sensorVars>>

\* Mutant of SensorDisconnected: notify_*(NULL) does not clear the value handle.
SensorDisconnectedKeepsSubs(c) ==
    /\ Disconnected(c) /\ c = central_conn
    /\ discover' = [i \in Chars |-> "zero"]
    /\ attq' = <<>>
    /\ UNCHANGED <<sub, temp_val, led_status, phoneCcc, told, sensorVars>>

(***************************************************************************)
(* Before disconnected() the host ends every pending request and every     *)
(* subscription: discover_func(NULL) clears its parameters, notify_*(NULL) *)
(* clears the value handle.                                                *)
(***************************************************************************)
SensorDisconnected(c) ==
    /\ Disconnected(c) /\ c = central_conn
    /\ discover' = [i \in Chars |->
                      IF \E k \in DOMAIN attq : attq[k] = Discover(i, discover[i])
                      THEN "zero" ELSE discover[i]]
    /\ sub' = [i \in Chars |-> IF sub[i] = "active" THEN "none" ELSE sub[i]]
    /\ attq' = <<>>
    /\ UNCHANGED <<temp_val, led_status, phoneCcc, told, sensorVars>>

PhoneDisconnected(c) ==
    /\ Disconnected(c) /\ c # central_conn
    /\ phoneCcc' = [phoneCcc EXCEPT ![c] = {}]
    /\ told' = [told EXCEPT ![c] = NULL]
    /\ UNCHANGED <<discover, sub, attq, temp_val, led_status, sensorVars>>

OtherConnEvent ==
    /\ \/ MainEnable \/ MainScan \/ MainAdvertise
       \/ \E s \in Sensors : ScanMatch(s) \/ ConnectingError(s)
       \/ \E c \in Conns : \/ ConnectFailed(c) \/ Release(c)
                           \/ \E p \in Phones : ConnectedPhone(c, p)
    /\ UNCHANGED <<relayVars, sensorVars>>

------------------------------------------------------------------------------
\* Requests of the phone on connection c

Phone(c) == link[c] = "up" /\ ~IsCentral(c)

\* A GATT client call of read_temp() or write_led(): sent while the sensor is
\* connected, an error otherwise.  Both address the sensor's characteristic with a
\* handle of the relay's own table, less a constant: it is the right one for the
\* sensor's table as it is, which the model takes as given.
Forward(r) ==
    /\ central_conn # NULL
    /\ attq' = IF SensorUp THEN Queued(attq, r) ELSE attq
    /\ UNCHANGED <<connVars, discover, sub, temp_val, led_status, phoneCcc, told,
                   sensorVars>>

\* read_temp(): asks the sensor and answers at once with temp_val as it is.
PhoneReadTemp(c) == Phone(c) /\ Forward(Read)

\* write_led(): forwards the value and does not wait for the sensor's answer.
\* The cached led_status is left alone.
PhoneWriteLed(c, v) == Phone(c) /\ Forward(Write(v))

\* Either of them without a central_conn resets the relay.
PhoneFatal(c) ==
    /\ FatalAccess(c)
    /\ discover' = [i \in Chars |-> "zero"]
    /\ sub' = [i \in Chars |-> "none"]
    /\ attq' = <<>>
    /\ temp_val' = 0
    /\ led_status' = 0
    /\ phoneCcc' = [d \in Conns |-> {}]
    /\ told' = [d \in Conns |-> NULL]
    /\ UNCHANGED sensorVars

\* A CCC write.  ess_ccc_cfg_changed() and led_ccc_cfg_changed() notify the
\* handle of the descriptor, not of the value: the phone is told nothing.
PhoneSubscribe(c, i) ==
    /\ Phone(c)
    /\ phoneCcc' = [phoneCcc EXCEPT ![c] = IF i \in @ THEN @ \ {i} ELSE @ \cup {i}]
    /\ told' = IF i = "led" THEN [told EXCEPT ![c] = NULL] ELSE told
    /\ UNCHANGED <<connVars, discover, sub, attq, temp_val, led_status, sensorVars>>

------------------------------------------------------------------------------
\* The sensor (esp32-c6)

\* The sensor's end is lost first, or the sensor restarts: the subscriptions are
\* gone, and the relay gets no more than it had been sent.
SensorGone ==
    /\ joined
    /\ joined' = FALSE
    /\ ccc' = {} /\ dirty' = FALSE
    /\ lamp' \in Leds
    /\ \E k \in 0 .. Len(downlink) : downlink' = SubSeq(downlink, 1, k)
    /\ UNCHANGED <<connVars, relayVars, served, heard>>

\* A sensor the relay has no connection with restarts, or another central
\* writes its LED.
LampElsewhere ==
    /\ ~joined
    /\ lamp' \in Leds
    /\ UNCHANGED <<connVars, relayVars, served, downlink, joined, ccc, dirty, heard>>

\* The answer to the request in flight, but for the temperature read.
Answer(r) ==
    Response(CASE r.op = "discover"  -> r.of \in Offers
               [] r.op = "subscribe" -> TRUE
               [] r.op = "read"      -> "temp" \in Offers
               [] r.op = "readmore"  -> FALSE
               [] r.op = "write"     -> "led" \in Offers, 0)

SensorServes ==
    /\ joined /\ attq # <<>> /\ ~served
    /\ served' = TRUE
    /\ LET r == Head(attq) IN
       /\ \/ /\ r.op = "subscribe" /\ r.of = "temp"
             \* notify_temperature() runs inside the CCC write, before its response
             /\ \E t \in Temps :
                  downlink' = Append(Append(downlink, Notification("temp", t)), Answer(r))
          \/ /\ r.op = "read" /\ "temp" \in Offers
             /\ \E t \in Temps : downlink' = Append(downlink, Response(TRUE, t))
          \/ /\ ~(r.op = "subscribe" /\ r.of = "temp")
             /\ ~(r.op = "read" /\ "temp" \in Offers)
             /\ downlink' = Append(downlink, Answer(r))
       /\ ccc' = IF r.op = "subscribe" THEN ccc \cup {r.of} ELSE ccc
       /\ IF r.op = "write" /\ "led" \in Offers
          THEN lamp' = r.val /\ dirty' = (dirty \/ "led" \in ccc)
          ELSE UNCHANGED <<lamp, dirty>>
    /\ UNCHANGED <<connVars, relayVars, joined, heard>>

\* The scheduled notification: the value is read when it is sent, so several
\* writes may share one.
SensorNotifies ==
    /\ joined /\ dirty
    /\ dirty' = FALSE
    /\ downlink' = Append(downlink, Notification("led", lamp))
    /\ UNCHANGED <<connVars, relayVars, served, joined, ccc, lamp, heard>>

------------------------------------------------------------------------------
\* Callbacks of the relay

\* Mutants of Discovered: the UUID of the stage is not advanced, the last stage
\* is forgotten.
DiscoveredSameStage(i, q) ==
    /\ attq' = Queued(q, Discover(i, IF discover[i] = "service" THEN "char" ELSE "ccc"))
    /\ UNCHANGED <<discover, sub>>

DiscoveredNoCcc(i, q) ==
    \/ /\ discover[i] = "service"
       /\ discover' = [discover EXCEPT ![i] = "char"]
       /\ attq' = Queued(q, Discover(i, "char"))
       /\ UNCHANGED sub
    \/ /\ discover[i] # "service"
       /\ discover' = [discover EXCEPT ![i] = "ccc"]
       /\ sub' = [sub EXCEPT ![i] = "handle"]
       /\ attq' = q

\* discover_func() and discover_func1(): the next stage, or the subscription.
Discovered(i, q) ==
    \/ /\ discover[i] = "service"
       /\ discover' = [discover EXCEPT ![i] = "char"]
       /\ attq' = Queued(q, Discover(i, "char"))
       /\ UNCHANGED sub
    \/ /\ discover[i] = "char"
       /\ discover' = [discover EXCEPT ![i] = "ccc"]
       /\ sub' = [sub EXCEPT ![i] = "handle"]
       /\ attq' = Queued(q, Discover(i, "ccc"))
    \/ /\ discover[i] \notin {"service", "char"}
       /\ attq' = Queued(q, Subscribe(i))
       /\ sub' = IF Len(q) < ReqSlots THEN [sub EXCEPT ![i] = "active"] ELSE sub
       /\ UNCHANGED discover

\* Mutant of OnResponse: the request it answers is not ended.
OnResponseIgnored ==
    /\ downlink # <<>> /\ Head(downlink).kind = "response"
    /\ downlink' = Tail(downlink)
    /\ UNCHANGED <<connVars, relayVars, served, joined, ccc, dirty, lamp, heard>>

\* A response ends the request in flight and frees its object; then the
\* callback of the request runs.
OnResponse ==
    /\ downlink # <<>> /\ Head(downlink).kind = "response"
    /\ downlink' = Tail(downlink)
    /\ served' = FALSE
    /\ LET r == Head(attq)
           m == Head(downlink)
           q == Tail(attq)
       IN  \/ /\ r.op = "discover" /\ m.found
              /\ Discovered(r.of, q)
              /\ UNCHANGED temp_val
           \/ /\ r.op = "discover" /\ ~m.found
              /\ discover' = [discover EXCEPT ![r.of] = "zero"]
              /\ attq' = q
              /\ UNCHANGED <<sub, temp_val>>
           \/ \* read_func() returns BT_GATT_ITER_CONTINUE: the host reads on
              /\ r.op = "read" /\ m.found
              /\ temp_val' = m.val
              /\ attq' = Queued(q, ReadMore)
              /\ UNCHANGED <<discover, sub>>
           \/ /\ r.op \notin {"discover", "read"} \/ (r.op = "read" /\ ~m.found)
              /\ attq' = q
              /\ UNCHANGED <<discover, sub, temp_val>>
    /\ UNCHANGED <<connVars, led_status, phoneCcc, told, joined, ccc, dirty, lamp, heard>>

\* Mutants of OnNotification: the value is passed on and not cached, or cached
\* and not passed on.
OnNotificationNoCache ==
    /\ downlink # <<>> /\ Head(downlink).kind = "notification"
    /\ downlink' = Tail(downlink)
    /\ LET m == Head(downlink) IN
       /\ told' = [c \in Conns |-> IF m.of = "led" /\ "led" \in phoneCcc[c]
                                  THEN m.val ELSE told[c]]
       /\ heard' = (heard \/ m.of = "led")
    /\ UNCHANGED <<connVars, discover, sub, attq, temp_val, led_status, phoneCcc,
                   served, joined, ccc, dirty, lamp>>

OnNotificationFirstOnly ==
    /\ downlink # <<>> /\ Head(downlink).kind = "notification"
    /\ downlink' = Tail(downlink)
    /\ LET m == Head(downlink) IN
       IF m.of = "led"
       THEN /\ led_status' = m.val
            /\ told' = [c \in Conns |-> IF "led" \in phoneCcc[c] /\ told[c] = NULL
                                       THEN m.val ELSE told[c]]
            /\ heard' = TRUE
            /\ UNCHANGED temp_val
       ELSE temp_val' = m.val /\ UNCHANGED <<led_status, told, heard>>
    /\ UNCHANGED <<connVars, discover, sub, attq, phoneCcc, served, joined, ccc, dirty, lamp>>

\* notify_temp() and notify_led_status(): cache the value and pass it on to the
\* phones that subscribed.  The host drops what no subscription matches.
OnNotification ==
    /\ downlink # <<>> /\ Head(downlink).kind = "notification"
    /\ downlink' = Tail(downlink)
    /\ LET m == Head(downlink) IN
       \/ /\ m.of = "temp" /\ sub["temp"] = "active"
          /\ temp_val' = m.val
          /\ UNCHANGED <<led_status, told, heard>>
       \/ /\ m.of = "led" /\ sub["led"] = "active"
          /\ led_status' = m.val
          /\ told' = [c \in Conns |-> IF "led" \in phoneCcc[c] THEN m.val ELSE told[c]]
          /\ heard' = TRUE
          /\ UNCHANGED temp_val
       \/ /\ sub[m.of] # "active"
          /\ UNCHANGED <<temp_val, led_status, told, heard>>
    /\ UNCHANGED <<connVars, discover, sub, attq, phoneCcc, served, joined, ccc, dirty, lamp>>

------------------------------------------------------------------------------
GattNext ==
    \/ OtherConnEvent
    \/ \E c \in Conns :
         \/ SensorConnected(c) \/ SensorLost(c) \/ PhoneLost(c)
         \/ SensorDisconnected(c) \/ PhoneDisconnected(c)
         \/ PhoneReadTemp(c) \/ PhoneFatal(c)
         \/ \E v \in Leds : PhoneWriteLed(c, v)
         \/ \E i \in Chars : PhoneSubscribe(c, i)
    \/ SensorServes \/ SensorNotifies \/ SensorGone \/ LampElsewhere
    \/ OnResponse \/ OnNotification

GattSpec == GattInit /\ [][GattNext]_gattVars

\* The sensor answers, what arrived is processed, and a link whose other end is
\* gone ends by the supervision timeout.
GattFairSpec ==
    /\ GattSpec
    /\ WF_gattVars(SensorServes) /\ WF_gattVars(SensorNotifies)
    /\ WF_gattVars(OnResponse) /\ WF_gattVars(OnNotification)
    /\ \A c \in Conns : WF_gattVars(~joined /\ SensorLost(c))

------------------------------------------------------------------------------
\* Properties

GattTypeOK ==
    /\ ConnTypeOK
    /\ discover \in [Chars -> Stages]
    /\ sub \in [Chars -> {"none", "handle", "active"}]
    /\ attq \in Seq(Request) /\ Len(attq) <= ReqSlots
    /\ temp_val \in Temps \cup {0}
    /\ led_status \in Leds
    /\ phoneCcc \in [Conns -> SUBSET Chars]
    /\ told \in [Conns -> Leds \cup {NULL}]
    /\ served \in BOOLEAN /\ joined \in BOOLEAN /\ dirty \in BOOLEAN /\ heard \in BOOLEAN
    /\ downlink \in Seq(Message)
    /\ ccc \subseteq Chars
    /\ lamp \in Leds

(***************************************************************************)
(* The host keeps a pointer to discover_params[i] while its request is     *)
(* queued or in flight.  The callbacks reuse the same parameters for the   *)
(* next stage, yet at most one request per procedure is ever out, and it   *)
(* is for the stage the parameters are set up for: no response is taken    *)
(* for an attribute of another stage, not even across a reconnection.      *)
(***************************************************************************)
DiscoveryInOrder ==
    \A k \in DOMAIN attq : attq[k].op = "discover" =>
        /\ attq[k].stage = discover[attq[k].of]
        /\ \A l \in DOMAIN attq :
              attq[l].op = "discover" /\ attq[l].of = attq[k].of => l = k

(***************************************************************************)
(* However many requests phones queue, neither procedure dies for want of  *)
(* a request object: each callback reuses the object its response freed.   *)
(* While the sensor is connected every characteristic it offers is either  *)
(* subscribed to or still being discovered.                                *)
(***************************************************************************)
DiscoveryNeverDropped ==
    SensorUp => \A i \in Offers :
        \/ sub[i] = "active"
        \/ \E k \in DOMAIN attq : attq[k] = Discover(i, discover[i])

(***************************************************************************)
(* No request and no subscription outlives its connection: between two     *)
(* connections to a sensor the host's list is empty, so the -EALREADY that *)
(* discover_func() tolerates cannot hide a missing subscription.           *)
(***************************************************************************)
NothingOutlivesLink ==
    (central_conn = NULL \/ link[central_conn] = "init") =>
        attq = <<>> /\ \A i \in Chars : sub[i] # "active"

(***************************************************************************)
(* Once an LED notification has arrived on a connection, the cache that    *)
(* read_led() serves is the sensor's LED, or the notification that will    *)
(* make it so is due or on its way, as long as the sensor's end is there.  *)
(***************************************************************************)
CacheFollowsLamp ==
    joined /\ heard =>
        \/ led_status = lamp
        \/ dirty
        \/ \E k \in DOMAIN downlink : downlink[k] = Notification("led", lamp)

\* A subscribed phone that has been notified knows the cached LED status:
\* every change of the cache is passed on to it.
PhonesFollowCache == \A c \in Conns : told[c] # NULL => told[c] = led_status

(***************************************************************************)
(* The sensor, its link and the relay's callbacks together are a client of *)
(* LedContract: the value it was last notified of is the last one on its   *)
(* way, or the cache once one has arrived.  None is lost, overtaken or     *)
(* dropped for want of a subscription, and none survives the link.         *)
(***************************************************************************)
LedNotes(d) == {k \in DOMAIN d : d[k].kind = "notification" /\ d[k].of = "led"}

LastLed(d, cached) ==
    IF LedNotes(d) = {} THEN cached
    ELSE d[CHOOSE k \in LedNotes(d) : \A l \in LedNotes(d) : l <= k].val

LastSent == IF joined THEN LastLed(downlink, IF heard THEN led_status ELSE NULL) ELSE NULL

Contract == INSTANCE LedContract WITH
    value <- lamp, subscribed <- "led" \in ccc, due <- dirty, sent <- LastSent

RelayKeepsLedContract == Contract!ContractSpec

\* A connected sensor ends up subscribed to in all it offers, whatever phones
\* ask meanwhile, unless the link is lost.
SubscribesEventually ==
    SensorUp ~> (~SensorUp \/ \A i \in Offers : sub[i] = "active")

\* A write the relay has queued reaches the LED unless the link is lost.
WriteTakesEffect ==
    \A v \in Leds : (\E k \in DOMAIN attq : attq[k] = Write(v))
                       ~> (lamp = v \/ "led" \notin Offers \/ ~SensorUp)

------------------------------------------------------------------------------
(***************************************************************************)
(* "Report current led status" (raspberry-pi/Central/central.py:60) of the *)
(* voice command "LED", which read_led() answers: with everything          *)
(* subscribed and nothing on its way, the answer is the LED's state.       *)
(***************************************************************************)
LedReportCurrent ==
    /\ joined /\ "led" \in Offers
    /\ \A i \in Offers : sub[i] = "active"
    /\ attq = <<>> /\ downlink = <<>> /\ ~dirty
    => led_status = lamp

=============================================================================
