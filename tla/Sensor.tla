-------------------------------- MODULE Sensor --------------------------------
(***************************************************************************)
(* The sensor (esp32-c6/main): a NimBLE peripheral with a temperature and  *)
(* an LED.  Everything runs on the NimBLE host task, one event at a time:  *)
(* an action is one event with the callbacks of main.c and gatt_svr.c it   *)
(* leads to, the five seconds notify_temperature() sleeps included.        *)
(*                                                                         *)
(* The host is external.  It takes one peer at a time here, because it     *)
(* advertises only while it has none; it keeps the peer's subscriptions,   *)
(* and a change it is told of with ble_gatts_chr_updated() is notified by  *)
(* an event of its own, later.                                             *)
(***************************************************************************)
EXTENDS Naturals

CONSTANTS
    Handles,  \* connection handles of the controller
    Vals,     \* bytes a peer writes to the LED characteristic
    NULL,     \* BLE_HS_CONN_HANDLE_NONE, and no value
    MayFail   \* the external events that may go wrong

Chars == {"temp", "led"}
Leds  == {0, 1}

ASSUME SensorAssumption ==
    /\ NULL \notin Handles \cup Leds
    /\ Vals \subseteq 0 .. 255
    /\ MayFail \subseteq {"adv", "connect", "notify", "temp"}

VARIABLES
    synced,           \* the host is in sync with the controller
    adv,              \* it advertises
    peer,             \* the handle of its connection, or NULL
    ccc,              \* the characteristics the peer subscribed to
    modified,         \* host: the LED is to be notified
    told,             \* the last LED status notified on the subscription
    device_connected, \* main.c
    conn_handle,      \* main.c
    notify_enabled,   \* main.c: of the temperature
    chr_val,          \* gatt_svr.c: gatt_svr_chr_val
    led_status        \* led.c: what blink_led() has set the pixel to

hostVars   == <<synced, adv, peer, ccc, modified, told>>
appVars    == <<device_connected, conn_handle, notify_enabled>>
ledVars    == <<chr_val, led_status>>
sensorVars == <<hostVars, appVars, ledVars>>

\* app_main(): RAM is cleared and configure_led() switches the pixel off.  The
\* host task starts after temp_sensor_init(), whose failure only boots again.
SensorInit ==
    /\ synced = FALSE /\ adv = FALSE /\ peer = NULL
    /\ ccc = {} /\ modified = FALSE /\ told = NULL
    /\ device_connected = FALSE /\ conn_handle = NULL /\ notify_enabled = 0
    /\ chr_val = 0 /\ led_status = 0

\* A failed assert() aborts, and the panic handler reboots.
Reboot ==
    /\ synced' = FALSE /\ adv' = FALSE /\ peer' = NULL
    /\ ccc' = {} /\ modified' = FALSE /\ told' = NULL
    /\ device_connected' = FALSE /\ conn_handle' = NULL /\ notify_enabled' = 0
    /\ chr_val' = 0 /\ led_status' = 0

\* ble_prphl_advertise(): refused before the host is in sync or while it
\* advertises already.  Its callers in the event handler ignore the result.
Advertise ==
    \/ adv' = TRUE
    \/ "adv" \in MayFail /\ adv' = FALSE

------------------------------------------------------------------------------
\* Mutant of OnSync: advertising is not started.
OnSyncSilent ==
    /\ ~synced
    /\ synced' = TRUE
    /\ UNCHANGED <<adv, peer, ccc, modified, told, appVars, ledVars>>

\* ble_prphl_on_sync(): an error of ble_prphl_advertise() is an assertion.
OnSync ==
    /\ ~synced
    /\ \/ /\ ~adv
          /\ synced' = TRUE /\ adv' = TRUE
          /\ UNCHANGED <<peer, ccc, modified, told, appVars, ledVars>>
       \/ /\ adv \/ "adv" \in MayFail
          /\ Reboot

\* BLE_GAP_EVENT_CONNECT with status 0; the host stops advertising by itself.
Connected(h) ==
    /\ adv /\ peer = NULL
    /\ adv' = FALSE /\ peer' = h
    /\ conn_handle' = h /\ device_connected' = TRUE
    /\ UNCHANGED <<synced, ccc, modified, told, notify_enabled, ledVars>>

\* The same event with an error: it is only logged, nothing is restarted.
ConnectFailed ==
    /\ adv /\ "connect" \in MayFail
    /\ adv' = FALSE
    /\ UNCHANGED <<synced, peer, ccc, modified, told, appVars, ledVars>>

\* Mutants of PeerGone and Disconnected: the handle is kept, advertising is not
\* restarted.
PeerGoneKeepsHandle ==
    /\ peer' = NULL /\ ccc' = {} /\ modified' = FALSE /\ told' = NULL
    /\ device_connected' = FALSE /\ notify_enabled' = 0
    /\ UNCHANGED conn_handle

DisconnectedSilent ==
    /\ peer # NULL
    /\ peer' = NULL /\ ccc' = {} /\ modified' = FALSE /\ told' = NULL
    /\ conn_handle' = NULL /\ device_connected' = FALSE /\ notify_enabled' = 0
    /\ UNCHANGED <<synced, adv, ledVars>>

(***************************************************************************)
(* What the application does when the connection is gone: the host first   *)
(* ends the subscriptions (SUBSCRIBE, reason TERM, which sets              *)
(* notify_enabled), then reports BLE_GAP_EVENT_DISCONNECT.                 *)
(***************************************************************************)
PeerGone ==
    /\ peer' = NULL /\ ccc' = {} /\ modified' = FALSE /\ told' = NULL
    /\ conn_handle' = NULL /\ device_connected' = FALSE /\ notify_enabled' = 0

\* BLE_GAP_EVENT_DISCONNECT: the handler restarts advertising.
Disconnected ==
    /\ peer # NULL
    /\ PeerGone
    /\ Advertise
    /\ UNCHANGED <<synced, ledVars>>

\* The host loses sync: it drops the connection (DISCONNECT) or ends the
\* advertising (ADV_COMPLETE); the restart of either handler is refused.
HostReset ==
    /\ synced
    /\ synced' = FALSE /\ adv' = FALSE
    /\ IF peer # NULL THEN PeerGone
       ELSE UNCHANGED <<peer, ccc, modified, told, appVars>>
    /\ UNCHANGED ledVars

------------------------------------------------------------------------------
\* Requests of the peer

\* notify_temperature() with notify_enabled = 1: the host refuses a handle that
\* is not its connection's, and any error is an assertion, read_temperature()'s too.
NotifyTemperature == ~device_connected \/ conn_handle = peer
NotifyAsserts     == device_connected /\ (conn_handle # peer \/ {"notify", "temp"} \cap MayFail # {})

\* A read of the temperature that fails in read_temperature(), which it does for
\* one outside the range asked for; a successful one changes nothing.
ReadTempAborts ==
    /\ peer # NULL /\ "temp" \in MayFail
    /\ Reboot

SubscribeTemp ==
    /\ peer # NULL /\ "temp" \notin ccc
    /\ \/ /\ NotifyTemperature
          /\ ccc' = ccc \cup {"temp"}
          /\ notify_enabled' = 1
          /\ UNCHANGED <<synced, adv, peer, modified, told, device_connected,
                         conn_handle, ledVars>>
       \/ NotifyAsserts /\ Reboot

UnsubscribeTemp ==
    /\ peer # NULL /\ "temp" \in ccc
    /\ ccc' = ccc \ {"temp"}
    /\ notify_enabled' = 0
    /\ UNCHANGED <<synced, adv, peer, modified, told, device_connected, conn_handle, ledVars>>

\* The CCC of the LED: the SUBSCRIBE event is of another handle and ignored.
ToggleLed ==
    /\ peer # NULL
    /\ IF "led" \in ccc
       THEN ccc' = ccc \ {"led"} /\ modified' = FALSE /\ told' = NULL
       ELSE ccc' = ccc \cup {"led"} /\ UNCHANGED <<modified, told>>
    /\ UNCHANGED <<synced, adv, peer, appVars, ledVars>>

\* Mutant of BlinkLed: the byte written becomes the status.
BlinkLedRaw(v) == led_status' = v

\* blink_led(), of the value v.
BlinkLed(v) == led_status' = IF v # 0 THEN 1 ELSE 0

\* gatt_svr_write(): one byte is stored, any other length is not.
Stored(v, oneByte) == IF oneByte THEN v ELSE chr_val

\* Mutant of WriteLed: ble_gatts_chr_updated() only when the LED is switched on.
WriteLedHalfAnnounced(v, oneByte) ==
    /\ peer # NULL
    /\ chr_val' = Stored(v, oneByte)
    /\ modified' = (modified \/ ("led" \in ccc /\ chr_val' # 0))
    /\ BlinkLed(chr_val')
    /\ UNCHANGED <<synced, adv, peer, ccc, told, appVars>>

(***************************************************************************)
(* gatt_svr_chr_access(), a write of the LED: the result of                *)
(* gatt_svr_write() is dropped, so the change is announced and the LED set *)
(* either way.                                                             *)
(***************************************************************************)
WriteLed(v, oneByte) ==
    /\ peer # NULL
    /\ chr_val' = Stored(v, oneByte)
    /\ modified' = (modified \/ "led" \in ccc)
    /\ BlinkLed(chr_val')
    /\ UNCHANGED <<synced, adv, peer, ccc, told, appVars>>

\* Mutant of NotifyLed: the access callback reads gatt_svr_chr_val.
NotifyLedRaw ==
    /\ modified
    /\ modified' = FALSE
    /\ told' = chr_val
    /\ UNCHANGED <<synced, adv, peer, ccc, appVars, ledVars>>

\* The host's notification event: the access callback reads led_status.
NotifyLed ==
    /\ modified
    /\ modified' = FALSE
    /\ told' = led_status
    /\ UNCHANGED <<synced, adv, peer, ccc, appVars, ledVars>>

------------------------------------------------------------------------------
SensorNext ==
    \/ OnSync \/ ConnectFailed \/ Disconnected \/ HostReset
    \/ \E h \in Handles : Connected(h)
    \/ ReadTempAborts \/ SubscribeTemp \/ UnsubscribeTemp \/ ToggleLed \/ NotifyLed
    \/ \E v \in Vals, oneByte \in BOOLEAN : WriteLed(v, oneByte)

SensorSpec == SensorInit /\ [][SensorNext]_sensorVars

\* The host task resynchronises and sends what is due; peers do as they like.
SensorFairSpec ==
    SensorSpec /\ WF_sensorVars(OnSync) /\ WF_sensorVars(NotifyLed)

------------------------------------------------------------------------------
\* Properties

SensorTypeOK ==
    /\ synced \in BOOLEAN /\ adv \in BOOLEAN
    /\ peer \in Handles \cup {NULL}
    /\ ccc \subseteq Chars
    /\ modified \in BOOLEAN
    /\ told \in Leds \cup {NULL}
    /\ device_connected \in BOOLEAN
    /\ conn_handle \in Handles \cup {NULL}
    /\ notify_enabled \in {0, 1}
    /\ chr_val \in 0 .. 255
    /\ led_status \in Leds

(***************************************************************************)
(* The application's view of the connection is the host's: the handle the  *)
(* temperature is notified on is the peer's, and notify_enabled is that    *)
(* peer's subscription.  A subscription that outlived its connection would *)
(* notify the next peer, or assert.                                        *)
(***************************************************************************)
ConnectionView ==
    /\ conn_handle = peer
    /\ device_connected <=> peer # NULL
    /\ notify_enabled = 1 <=> "temp" \in ccc
    /\ ccc # {} => peer # NULL
    /\ adv \/ peer # NULL => synced
    /\ adv => peer = NULL

(***************************************************************************)
(* The sensor goes off the air in three ways only: a connection attempt    *)
(* that failed, an advertising start that failed, a reset of the host.     *)
(* After the first two it stays invisible: nothing tries again.            *)
(***************************************************************************)
Reachable == adv \/ peer # NULL

InvisibleOnlyOnFailure ==
    [][Reachable /\ ~Reachable' => ConnectFailed \/ "adv" \in MayFail \/ ~synced']_sensorVars

(***************************************************************************)
(* The LED characteristic keeps its contract: the deferred notification    *)
(* carries what blink_led() has set, whatever length was written, and no   *)
(* subscription survives a disconnection, a host reset or a reboot.        *)
(***************************************************************************)
Contract == INSTANCE LedContract WITH
    value <- led_status, subscribed <- "led" \in ccc, due <- modified, sent <- told

KeepsLedContract == Contract!ContractSpec

\* A peer that was notified of the LED knows its state, or is due a notification.
PeerCurrent == Contract!ClientCurrent

(***************************************************************************)
(* A sensor whose host lost sync, or that rebooted on a failed assertion   *)
(* in the middle of a peer's request, is reachable again.                  *)
(***************************************************************************)
ComesBack == ~synced ~> Reachable

=============================================================================
