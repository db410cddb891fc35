# Verification of the BLE demo

A chain of three BLE devices shares a temperature sensor and an LED. This
directory holds TLA+ models of its programs, the TLC configurations that check
them and TLAPS proofs about them. Paths below are relative to the repository.

## The system

```
 ESP32-C6 sensor              nRF52840-DK relay                Raspberry Pi
 esp32-c6/main      <-----    nrf52840-dk/src/main.c   <-----  raspberry-pi/Central
 GATT server                  GATT client + server             voice-driven GATT client
 temperature, LED             "central" + "peripheral"         (or any phone)
   |
 espressif__led_strip: the driver of the LED
```

The relay connects to the sensor as a central, discovers the temperature (ESS
0x181A/0x2A6E) and the LED (0x1234/0x5678), subscribes to both, caches the
notified values and offers the same two characteristics to phones, to which it
is a peripheral. The sensor's LED is a pixel of the strip driver.
`raspberry-pi/Peripheral` is a separate heart-rate demonstration.

| Component | State it keeps | Operations | Hard behaviour |
|---|---|---|---|
| Relay, connections: `main()`, scan and connection callbacks | the connection objects and their reference counts (a pool of two shared by both roles), `central_conn`, the running scan, advertising, LEDs 2 and 3 | boot, scan report, connected, connection failed, link lost, `disconnected()`, release of the object | three threads; a pool at its limit; each role's events interleaved with the other's; every call may fail and most results are only printed |
| Relay, GATT: discovery, subscriptions, handlers of its own attributes | `discover_params`, `subscribe_params`, requests to the sensor, `temp_val`, `led_status`, the phones' subscriptions | two discovery procedures, notifications, phones' reads, writes, subscriptions | parameters reused while the host points to them; three request objects shared by procedures and phones; stale caches; sensor lost or restarted at any moment |
| Sensor application: GAP events, GATT server, LED, temperature | `conn_handle`, `device_connected`, `notify_enabled`, `gatt_svr_chr_val`, the pixel | connect, disconnect, subscribe, read, write, host reset, reboot | copies of the host's state; deferred notification; dropped error results; assertions and driver errors that reboot |
| Relay and sensor together | the link between them, each end's view of it | connection, request, notification, loss of either end | each end learns of a lost link for itself; a reboot inside a request; other centrals between two connections |
| LED strip driver: API, RMT back end with its encoder, SPI back end | what a handle holds, `pixel_buf`, the encoder's `state` and position, whether the channel is enabled | new, set pixel (RGB, RGBW, HSV), refresh, clear, del | an encoder resumed by interrupts; creation failing at any step; early returns of a refresh; bytes or-ed into an SPI coding |
| Voice central: `central.py`, `rpi_central.py` | nested activations of `input_loop()`, `device_address`, `devices`, the two characteristic proxies | ten voice commands, property-change signals, read replies | exceptions and interrupts in the middle of loops over shared lists; BlueZ changing state at any time; recursion per command |
| Heart-rate peripheral: `ble_peripheral.py` | notification flags, battery level, registrations | BlueZ method calls, the battery timer, registration errors, the agent's question | one flag for all subscribers; messages waiting in the main loop while clients come and go; exceptions after a flag was set; a restart of bluetoothd |

What makes each component correct:

* relay connections: no object of the pool leaks or is released twice; the
  pointer `central_conn` is the sensor's connection and no other; no scan while
  there is a sensor; a lost sensor is sought again; the relay stays visible to
  phones; the LEDs tell the truth;
* relay GATT: no discovery response is taken for another stage; no procedure is
  lost for want of a request object; no subscription outlives its connection;
  the caches follow the sensor and the phones follow the caches;
* sensor: the application's picture of the connection is the host's; a
  subscribed peer learns every change of the LED; the sensor is reachable again
  after every disconnection;
* together: the two ends agree on the subscriptions, and a phone notified of the
  LED knows the pixel;
* strip driver: nothing leaks; every byte is sent once, in order, whatever the
  memory of the channel; the LEDs show what was asked; every refresh returns;
* voice central: every device it connected stays within reach of its list; each
  command ends the program for reasons of its own only; its commands do what
  they say;
* heart-rate peripheral: a client that asked for notifications gets them, and
  none keeps a battery level that nothing will correct.

## Modules

| Module | Models | Composes |
|---|---|---|
| `RelayConn` | relay, connection management | |
| `RelayGatt` | relay, GATT, with a sensor reduced to its GATT traffic | `EXTENDS RelayConn`: every connection event of `RelayConn` is conjoined with what it does to GATT |
| `Sensor` | sensor application | |
| `HomeRelay` | relay and sensor over one link | `EXTENDS RelayGatt`; `Device` is an instance of `Sensor`; `Assumed` is `RelayGatt` seen from the composition, to be refined |
| `LedContract` | abstract: what the LED characteristic promises its client | `INSTANCE`d by `Sensor` and `RelayGatt` |
| `LedStrip` | strip driver, both back ends, and its hardware | |
| `VoiceCentral` | voice central, with BlueZ and the devices as its environment | |
| `HeartPeripheral` | heart-rate peripheral, with BlueZ and its clients as its environment | |
| `MC*` | symmetry sets, sets of colours, and the facts an instance must satisfy | |
| `*_proofs` | theorems and their proofs; `RelayTraffic_proofs` builds on `RelayGatt_proofs` and that on `RelayConn_proofs`; `HomeRelay_proofs` is about the composition | instantiates `RelayTraffic_proofs` and `Sensor_proofs` and discharges their assumptions |

Definitions called "Mutant of X" are variants of X with a plausible mistake:
with X replaced by the variant, a property named in PROJECT.json is violated.
They are part of no specification.

### RelayConn: correspondence

One action is one callback or boot step run to its end. The RX thread and the
workqueue of Zephyr are cooperative threads: a callback gives way to the other
thread only where it blocks. `scan_start()` does, because it issues synchronous
HCI commands. In `connected()` it runs on the RX thread itself. In `disconnected()`
it runs on the workqueue and is the last thing the callback does, after every
variable of main.c has its new value: what the RX thread handles while it waits
is what it may handle between `Disconnected` and `Release`, except that a report
needs the scan to be running already. So a callback is atomic with respect to
the others; what interleaves is their order. Connection objects are modelled
with the host's own reference and the application's:

| Action | Code |
|---|---|
| `MainEnable`, `MainScan`, `MainAdvertise` | the three fallible parts of `main()`; an error returns from `main()`, the callbacks live on |
| `ScanMatch`, `ConnectingError` | a filter match: the scan library has stopped the scan, then `scan_connecting()` or `scan_connecting_error()` |
| `ConnectedCentral`, `ConnectFailed`, `ConnectedPhone` | `connected()` |
| `LinkLost`, `Disconnected`, `Release` | link down; `disconnected()` from the workqueue; the host drops its reference and resumes advertising |
| `FatalAccess` | a phone's request with `central_conn == NULL` trips an assertion of the host: the board resets |

`Resume` is the host's own restart of connectable advertising, which the
configuration of the relay enables (no `BT_LE_ADV_OPT_ONE_TIME`). The host tries
it when a phone connected and when a phone's object is released. The relay is
built with `CONFIG_BT_CTLR_SDC_PERIPHERAL_COUNT 1` (`autoconf.h:110`): while a
phone is connected the controller refuses, the host gives the object back, and
nothing changes. Advertising resumes when the phone's object is released, so at
most one object at a time is a phone's or the advertising's (`OnePeripheral`).
`Reserve` is `bt_le_adv_start()` without a free object: it reports no error,
because the host means to resume later. `MayFail` lists the calls that may
report an error.

### RelayGatt: correspondence

`discover[i]`, `sub[i]` are `discover_params` and `subscribe_params` of index i
("temp" is 0). `attq` holds the requests to the sensor: the first is in flight;
`Queued` is what every GATT client call does when no request object is left: it
returns an error that main.c prints. `Discovered` is `discover_func()` and
`discover_func1()`, which differ in the index only. `OnResponse` ends the
request before its callback runs, as the host does; therefore a callback always
finds the object its own response freed. `Forward` is the call both phone handlers
make. The handles they use are computed from the relay's own attribute table
(`main.c:200-203` subtracts a constant); they are right for the sensor's table as it
is, and the model takes them as given.

The link to the sensor may be half open. `joined` says that the sensor's end is
up; `SensorConnected` may leave it `FALSE` (the sensor missed the request to
connect), and `SensorGone` is the sensor that loses its peer first, resets or
restarts: its subscriptions are gone and of what it had sent a prefix still
arrives. The relay notices with the supervision timeout, the `SensorLost` of a
link with `~joined`. While the relay has no sensor end, `LampElsewhere` is other
centrals and restarts changing the LED.

`told[c]` is the value last notified to the phone on connection c, a history
of the relay's sends; `heard` records that an LED notification arrived on this
connection. A CCC write of a phone notifies a wrong attribute handle, so the
phone is told nothing at that point.

`write_led()` and `read_temp()` are declared `void` where the host expects a
length. The phone's answer is therefore arbitrary. It is not part of the state,
so the properties hold for every such answer.

### Sensor: correspondence

Everything in the sensor runs on the NimBLE host task: one action is one event
with all it calls. The application's variables stand beside the host's (`peer`,
`ccc`, `modified`) so that their agreement can be stated. `WriteLed` covers
`gatt_svr_write()` with its dropped result: a write of the wrong length is
acknowledged, announced, and sets the LED from the byte stored before. A failed
assertion is `Reboot`. `read_temperature()` (temp.c) is part of what calls it;
it aborts when the driver reports an error, and `ReadTempAborts` and the failing
branch of `SubscribeTemp` are that reboot in the middle of a peer's request. The
five seconds that `notify_temperature()` sleeps are part of the action; the
model has no time.

### HomeRelay: correspondence

The variables `ccc`, `dirty` and `lamp` of `RelayGatt` are the sensor's own here.
`RelayAlone` and `SensorAlone` are what one program does without the other
(`HalfLost` is the relay's end lost first; `EndOfLink` the sensor's, which cuts
what was in flight to a prefix); `Elsewhere` is another central at the sensor;
`Join`, `Serve` and `Notify` are the steps both take part in: connection,
request, notification. In `Serve` the sensor's handler runs inside the relay's
request and may reboot instead of answering.

### LedStrip: correspondence

A handle is `backend`, `strip_len`, `bytes_per_pixel` and what it `held`s, one
name per resource the creation acquires in order; `NewFails(b, k)` fails at step
k and then runs the code of the error label (`Cleanup`). The SPI bus is one of
the chip's and has an owner, `bus`, that may be another driver (`OtherDriver`).
The SPI error label frees the bus whenever there is a strip, also when
`spi_bus_initialize()` failed because another driver has the bus: `BusFreed` is
what becomes of it then (it stays if that driver has devices on it, or it is
lost to that driver). `Del` may fail half way: the device is removed and
`spi_bus_free()` refuses. The strip is then `leaked` and the bus is nobody's. A
byte of `pixel_buf` is its set of bits, so that the or-ing of the SPI coding
(`Coded`, `CodedOver`) is a union. `Put` is the part the three set-pixel calls
share; `Rgb` is the integer arithmetic of `led_strip_set_pixel_hsv()`, `Hue` the
meaning of a hue; the lemma `HueNear` compares them at every degree, saturation
and value.

With RMT, a refresh is `Refresh`, `RmtEnable`, `RmtTransmit`, then one `RmtEncode`
per interrupt, then `RmtDisable`. `RmtEncode` is `rmt_encode_led_strip()`: its
`state`, the copied position of the bytes encoder (`last_byte`), and the room the
interrupt offers (`free`); the bytes and copy encoders are IDF's and external.
With SPI a refresh is one blocking call; `SpiLine` reads the bits off the line
and recognises the pulses of the strip in them. `shown` is what the LEDs latched,
`wanted` what the caller asked, the two ends `ShowsWanted` relates.

### VoiceCentral: correspondence

`input_loop()` executes one command and then enters `mainloop.run()`, which only
an interrupt (Ctrl-C) leaves; the exception handler calls `input_loop()` again.
`phase`, `depth` and `command` are that structure; `Silence` is the empty
command of the start. Replies to reads are only printed and leave no trace in
the state. D-Bus signals and replies are dispatched in the main loop only, and
PyGObject turns an interrupt during a callback into one after it, so a callback
is atomic; a command is not: `Connect` and `Disconnect` may stop after any
number of devices, because a call raised (`Dies`: nobody handles it) or because
of an interrupt (`Interrupted`). `ConnectRaises` says where a call of
`connect()` may raise: at the next device, or while the characteristics of the
last one connected are enumerated (`returned` is `FALSE`). `WriteLed` always
raises: the call names no interface and passes an array for the options, and
BlueZ exports only `WriteValue(aya{sv})` (as `ble.py:177` declares it). An
exception inside `PropertiesChanged` is logged by dbus-python and leaves what
was done so far. `Skipped` is what Python's iteration over a list leaves when
the loop removes the element it is at. `MaxDepth` is Python's recursion limit in
activations.

BlueZ is external: it may have devices connected by an earlier run that died
(`VoiceInit`); `opened` is the history of those this run connected. It refuses a
second start of discovery, `Disconnect()` of a device that is not connected, and
calls on objects it has removed; it resolves services at any time after the
connection; it sends no `Address` with a changed property (there is no pairing
in this system). `devices` therefore keeps its initial value.

### HeartPeripheral: correspondence

`proc` is where `main()` is: "boot", in the main loop, "asking" its user on
standard input (`RequestAuthorization()` blocks the loop until answered), or
"ended". `calls` is the queue of D-Bus messages the main loop handles one by
one: `StartBattery`, `StartHeart`, `StopNotify`, `Asks`, `AdvertisementFailed`
(ends the program) and `Ignored` (handlers that raise and change nothing: the
error handler of `RegisterApplication` was passed in a list, the agent's
`Release()` names something undefined). `Drain` is the battery timer. `signals`
are the property changes on their way to BlueZ. BlueZ is external: it calls
`StartNotify()` for the first subscriber of a characteristic and `StopNotify()`
after the last, notifies its clients of a signal, forgets everything when it
restarts (`DaemonRestarts`; the program does not register again) and when the
program left the bus (`Gone`).

## Runs

| Run | Question | Instance |
|---|---|---|
| `relayconn` | are the pool, the pointer, advertising and the LEDs right in every interleaving, is a lost sensor sought, and what can end the search? | 3 objects, 2 sensors, 2 phones (one link at a time), boot, advertising and connection attempts may fail; fair |
| `relayconn_scan` | does the relay keep its central role? (no) | the shipped pool of 2, one sensor, one phone, only a connection attempt may be refused; fair |
| `relaygatt` | do discovery, caches and subscriptions stay right, does the relay implement the client side of `LedContract`, is every characteristic subscribed in the end, does a write arrive? | pool of 2, both characteristics, 3 request objects, one temperature, the scan may fail to start; fair |
| `relaygatt_led` | is the reported LED status the LED's? (no) | the same, no call fails |
| `home` | does the sensor do what `RelayGatt` assumes, do the two ends agree, does a phone know the LED? | pool of 2, 2 request objects, 1 handle, bytes 0, 1, 2, the temperature driver may fail; symmetric |
| `sensor` | is the application's view right, does the sensor implement `LedContract`, is it reachable again? | 3 handles, bytes 0, 1, 2, 255, connections, notifications and the temperature may fail; fair |
| `strip` | do creation and deletion leak, are the bytes sent once and in order, do the LEDs show what was asked, does every refresh return? | strips of 0 to 2 LEDs, GRB and GRBW, both back ends, 48 symbols, the SPI bus also used by another driver, every call may fail; fair |
| `strip_hue` | does an LED show every hue the header admits? (no) | one LED, hue 360, no call fails |
| `heart` | do the flags follow the subscriptions, is a notified level current, are subscribers served? | 2 clients, a battery of 4, 3 messages and 2 signals under way; fair |
| `heart_silent` | does a subscriber of the heart rate get measurements? (no) | the same |
| `voice` | are the connected devices listed, and what may end the program in each command? | 3 devices, 5 activations, connections, enumerations, disconnections, discovery and the microphone may fail; symmetric |
| `voice_disconnect` | does `disconnect` disconnect? (no) | 2 devices, no call fails of itself |

Bounds. Three connection objects are one more than shipped, and the least with
which advertising finds an object whatever the scan holds: the scan can hold
two, the connection being closed and the next attempt. Two sensors let a report
of the second arrive while the first is connecting or closing; two phones let
the next connection be another phone's. In `RelayGatt` a pool of two is what the
relay is built with, one object is always the sensor's, so one phone is all that
fits. Three request objects are the configured `BT_L2CAP_TX_BUF_COUNT`: two
procedures and one request of a phone fill it. `HomeRelay` takes two, the least
with which both procedures run: there a phone's request finds none left sooner.
One temperature is enough because no property compares temperatures. The queues
need no bound of their own: `attq` is bounded by `ReqSlots`, and `downlink`
holds at most the response to one request with its notification and one LED
notification per served write. For the sensor three handles let a peer return
under its own handle, under one another peer had, and under a new one; the bytes
are off, on, on-but-not-1 and the largest. In `HomeRelay` one handle is enough,
as its reuse is the worst case: nothing but the order of events tells two peers
apart. The symbol memory of 48 is that of the ESP32-C6; one and two LEDs fill it
in part, exactly (two GRB pixels, 48 symbols) and with a second interrupt (two
GRBW pixels), and the strip without LEDs is the boundary at which the driver
refuses to transmit. One of the two colours has three different
bytes and an argument beyond a byte; one hue, in the last sector, is enough because `HueNear` is proved of
every hue. Two clients of the heart-rate peripheral share one flag; three
waiting messages hold a stop between two starts; a battery of 4 drains through 2
to 0. In `VoiceCentral` three devices are the least for which `disconnect()`
skips one and goes on, and five activations allow a discovery, a connection, a
disconnection and two more commands. Deadlock is not checked where the system
may really stop: the relay whose `main()` returned before scanning started, the
heart-rate program that ended, and the voice central after `quit` or an
exception.

Fairness. `ConnFairness`: `main()` is run by the kernel, the controller answers
a connection attempt in the end (the host cancels it after its timeout), the
workqueue drains. `GattFairSpec`: the sensor answers a request and sends what is
due while its link is up (ATT's own 30 s rule disconnects it otherwise, which is
`SensorLost`), the RX thread processes what arrived, and a link whose other end
is gone is lost (the supervision timeout of the link layer, weak fairness of
`~joined /\ SensorLost(c)`). `SensorFairSpec`: the host task resynchronises and
sends the notification it owes. `StripFairSpec`: a call runs on and the RMT
interrupts are served. `HeartFairSpec`: the main loop handles the message at its
head and BlueZ delivers signals (weak fairness); the timer's fairness is strong,
since it is due every five seconds while the model's bounded `signals` may
disable it in between. Nothing is assumed about the radio, the phones, or a
sensor in range: no property promises a connection.

## What the checks found

* `relayconn_scan`, `KeepsCentralRole`: the scan library stops scanning before
  it calls `bt_conn_le_create()`, and `scan_connecting_error()` only prints. One
  refusal ends the search for the sensor for good, although
  `nrf52840-dk/README.rst` says that the central role scans. The controller may
  refuse; and `disconnected()` starts the scan before the host has released the
  object of the lost connection, so that a report of the same sensor handled in
  between (a matter of microseconds) is refused by the host itself.
  `GivesUpOnlyOnConnectingError` shows that this is the only way (besides a
  reset or a scan that cannot be started).
* `relaygatt_led`, `LedReportCurrent`: the relay never reads the sensor's LED;
  until the first change it reports its own initial 0 (after a reset, or when the
  LED was on before the relay subscribed).
* `voice_disconnect`, `DisconnectsAll`: `disconnect()` skips every second device.
* `strip_hue`, `HueAsDocumented`: hue 360, which `led_strip.h:62` admits, falls into
  the branch of the last sector and shows magenta instead of red.
* `heart_silent`, `HeartBeats`: `StartNotify()` of the heart rate sets its flag and
  then raises, because `gobject` is not bound; no measurement is ever sent.

Other defects met while reading need no model to be seen and are left to tests:

* `rpi_central.py:60`: the call of `WriteValue()` names no interface and passes
  the wrong kind of options, so that ON and OFF end the program without writing
  (`Fatal` lists them without a condition); `:58`: the value written would
  be 1 for both; `:37`: `temp_read_val_cb()` adds a string and a number, so no
  temperature is ever printed;
* `main.c:193` (relay): `write_led()` and `read_temp()` return nothing where the
  host expects a length; `:202`: one `write_params` serves overlapping writes;
* `ble_peripheral.py:337`: the error handler is passed in a list and can never
  run; `:235`: `ReadValue()` lacks the parameter BlueZ sends; `:405`:
  `RequestAuthorization()` waits for its user inside the main loop; `:272`: a
  refused advertisement ends the whole program;
* `led_strip_spi_dev.c:203`: the error label frees a bus the creation did not
  get (`NewFails` with `bus = "other"`); `:116`: a failing `spi_bus_free()`
  leaves a strip whose device is gone, and a second deletion removes that device
  again;
* `led_strip_rmt_dev.c:73`: a failed `rmt_transmit()` leaves the channel
  enabled; every later refresh is refused and the strip cannot be deleted
  (`FailsOnlyAfterFailure` says that nothing else does this);
* `led.c:44` (sensor): `blink_led()` ignores the results of the driver.

## What is proved

The proofs hold for every set of connection objects, sensors, phones, handles,
bytes, colours, devices and clients, every number of request objects above one,
every length of strip, size of symbol memory and depth of recursion, and every
subset of failing calls. They rest on `ConnAssumption`, `GattAssumption`,
`SensorAssumption`, `HomeAssumption`, `StripAssumption`, `VoiceAssumption` and
`HeartAssumption` only: pairwise distinct kinds of values, the ranges of the
numbers, a symbol memory of whole pairs of bytes, and a set of known calls.

Every invariant, every action property and every refinement that a passing run
checks is a theorem.

* `RelayConn_proofs`: `ConnIInv` is inductive. It adds to the checked invariants
  `Roles` (an object has a remote device exactly while it has a link or an
  attempt, and only the scan initiates), `OnePeripheral` (at most one object is
  a phone's or the advertising's), `ClosingAtHead` (an object being closed is
  the first of the workqueue, so at most one is) and `BootOrder` (what `main()`
  has not started is not there). `RefAccounting` and `CentralSlot` are not
  inductive alone: a callback knows the role of a connection only by comparing
  it with `central_conn`, which needs `Roles`, and a matching report overwrites
  `central_conn`, which needs `ScanExclusive`, which in turn needs `BootOrder`
  for the scan that `main()` starts. LED 3 needs `OnePeripheral`, since the loss
  of any phone switches it off. `Visible` assumes three objects (`Roomy`): with
  the shipped two, the scan can hold both when `main()` starts to advertise (the
  first object still closing, the second connecting), and nothing ever resumes
  the advertising. From it follow `ConnTypeCorrect`, `NoLeak`, `OneCentral`,
  `ScanOnlyWithoutSensor`, `Visible`, `LedsAreTruthful` and, as an action
  property, `GivesUpOnlyOnError`.
* `RelayGatt_proofs`: `GattImplementsConn`: every step of the whole relay is a
  step of `RelayConn` or leaves its variables alone, so all of the above holds
  of the whole relay. `ListsEmptyBetween` uses the inductive `LinkIInv` (what
  travels to the relay does so only while the sensor's link is up), relative to
  `ConnIInv`. `SubscribersCurrent` uses `ToldIInv` (only a subscribed phone has
  been told anything).
* `RelayTraffic_proofs`: `TrafficIInv`, inductive relative to the two before.
  `Ordered` says that a procedure has at most one request, for the stage its
  parameters are in, and none once it is subscribed; that the response to it
  finds it so takes `Exchange` (what is on its way answers the first request).
  `Sought` is the promise that no procedure is dropped: a callback finds the
  object its own response freed, so it needs no bound on what phones queue.
  `Subscribed` (the sensor notifies only what the relay is subscribed to) is why
  no notification is dropped, and only with it is the last one sent the LED's
  value (`LedSent`). Hence `GattTypeCorrect`, `ProceduresInOrder`,
  `ProceduresNeverDropped`, `CacheIsLamp` and the refinement
  `RelayImplementsContract`, which maps the abstract `sent` to the last
  notification in flight, or the cache. A link cut anywhere leaves a prefix, and
  what is to come stays in order in one (`PrefixAnswers`): that covers half-open
  links.
* `Sensor_proofs`: `SensorIInv` adds to the checked invariants that only a
  subscribed peer is owed or was sent anything. `SensorTypeCorrect`,
  `ViewIsRight`, `PeerIsCurrent`, `StaysReachable` and the refinement
  `SensorImplementsContract` follow.
* `HomeRelay_proofs`: the composition. `HomeIInv` joins the relay's invariants
  (`ConnIInv`, `LinkIInv`, `TrafficIInv`), the sensor's (`SensorIInv`) and
  `Agreed`: a subscription the relay counts on is held by the sensor or asked
  for, once, and not held while it is asked for. `Agreed` is needed for the
  steps themselves: a request that found the subscription held would be served
  as `ToggleLed` from the other side, which `RelayGatt` does not allow. Each
  step of the composition is a step of `RelayGatt` or leaves it alone, and one
  of `Sensor` or leaves it alone: `SensorKeepsAssumption` (the refinement of
  `RelayGatt`), `EndsAgree`, `PhonesKnowLamp`. So the theorems about
  `RelayGatt`, `RelayConn` and `Sensor` are theorems about the two programs
  together: `DiscoveryAtHome` and `ContractAtHome` state the most important of
  them so.
* `LedStrip_proofs`, the driver: `StripIInv` adds that nothing is lost unless
  giving back may fail (`NothingLost`), where the encoder is (`Encoder`: what is
  on the wire is the buffer up to the copied position), which calls need the
  channel enabled (`Channel`), that between calls only a failure leaves it so
  (`Faults`), and that an interrupt has room for whole bytes (`WholeBytes`),
  without which the reset code could come before the end of the data.
  `StripTypeCorrect`, `NothingLeaked`, `WireKeepsOrder`, `OnlyFailuresStick`.
  `EncoderAdvances` is the half of `RefreshReturns` that needs no fairness:
  every interrupt leaves the encoder less to do or completes the transmission.
* `LedStrip_proofs`, the colours: `LedsShowWanted`, for every hue but 360
  (`HuesBelow360`; `strip_hue` shows that it is needed), from `ColourIInv`,
  relative to `StripIInv`: `Stored` (each cell of the buffer codes a byte near
  the one asked for the pixel) and `Lit` (what the last interrupt latched,
  before the result is known). It rests on lemmas about the data: the bits of a
  byte are that byte (`ByteBack`), three SPI bytes are read as the byte they
  code (`PulsesBack`), the six sectors agree with the meaning of a hue within
  one (`HueNear`), a line of pulses is a train of bytes (`LineInOrder`, by a
  least counterexample in place of an induction), and a LED takes its own bytes
  of it (`LatchesOwn`).
* `VoiceCentral_proofs`: `NoneOutOfReach` from `ListIInv`, which adds that the
  list is a sequence; the lemmas `SkippedSeq` and `SkippedKeeps` say that
  removing while iterating loses exactly the visited addresses and doubles none.
  The same lemmas carry `HeardStayListed`. `KnownDeaths` goes through every
  command: none ends the program but for its own reasons in `Fatal`, which needs
  that an activation that executed nothing has the empty command.
  `VoiceTypeCorrect`.
* `HeartPeripheral_proofs`: `HeartIInv` adds that nobody subscribes before the
  application is registered (`Unregistered`), that only subscribers were told
  anything (`ToldSubscribed`), and that while the battery is notified the last
  signal on its way is its level (`LastSignalled`). `HeartTypeCorrect`,
  `FlagsFollow`, `LevelIsCurrent`.

Only model-checked: liveness (`LostSensorSought`, `SubscribesEventually`,
`WriteTakesEffect`, `ComesBack`, `RefreshReturns`, `BatteryServed`), since the
provers have neither fairness nor ENABLED; and the five violations, which are
runs.

## Abstractions

* The value of the temperature and its formatting, and the durations of the RMT
  symbols, are data no property is about. Handles and UUIDs are names.
* The relay's advertising is undirected: a failed connection as peripheral never
  reaches `connected()`. A controller that refuses the resumption for another reason
  than a connected phone is left out.
* The sensor has one peer at a time: it stops advertising while connected.
* Unsubscribing drops a notification that is due.
* The relay's LED 1 blinks and has no other effect.
* Events of the relay are atomic per callback (see above); time passes nowhere,
  so supervision timeouts are simply the loss of the link at one end.
* One application task calls the strip driver, as the sensor does, one call at a
  time. No call is made on a handle whose deletion failed half way.
* The heart-rate program's object tree is fixed by `main()` and left out.

## Not modelled, and the plan

| Part | Reason |
|---|---|
| `led_strip_rmt_dev_idf4.c` | compiled for IDF 4 only; the sensor is built with 5.1.2 (`dependencies.lock`) |
| `bluezutils.py` | looks up an object over D-Bus and keeps no state |
| generated build output of the relay | generated; its `.config` settles which host options the relay runs with |
| heart-rate measurements, energy counter | their timer is never made (`heart_silent`), and `WriteValue()` of the control point lacks a parameter BlueZ sends: neither code runs |

The order of modelling was `RelayConn`, `RelayGatt`, `LedContract`, `Sensor`,
`VoiceCentral`, `LedStrip`, `HeartPeripheral`, `HomeRelay`. Open for proofs:
more steps behind the liveness properties, as `EncoderAdvances` is for the
encoder (a request to the sensor, or a message in the main loop of the
heart-rate program, is never overtaken), so that the runs have only the fairness
itself to show.
