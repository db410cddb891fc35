------------------------------ MODULE RelayConn ------------------------------
(***************************************************************************)
(* Connection management of the relay (nrf52840-dk/src/main.c).  The relay *)
(* is a BLE central towards a sensor and a BLE peripheral towards phones   *)
(* at the same time, and both roles draw their connection objects from one *)
(* pool of CONFIG_BT_MAX_CONN.                                             *)
(*                                                                         *)
(* Three threads touch this state: main() (boot steps), the Bluetooth RX   *)
(* thread (scan reports, connection complete, disconnection complete) and  *)
(* the system workqueue (disconnected(), then the release of the object).  *)
(* One action is one callback or boot step run to its end.  The Zephyr     *)
(* host and the nRF scan library are external: they are modelled from how  *)
(* main.c drives them.                                                     *)
(***************************************************************************)
EXTENDS Integers, Sequences

CONSTANTS
    Conns,    \* the connection objects of the pool
    Sensors,  \* remote devices that advertise the ESS service
    Phones,   \* remote devices that connect to the relay
    NULL,     \* the null pointer
    MayFail   \* the external calls that may report an error

Calls == {"enable", "filter", "scan", "adv", "create"}

ASSUME ConnAssumption ==
    /\ Sensors \cap Phones = {}
    /\ NULL \notin Conns \cup Sensors \cup Phones
    /\ MayFail \subseteq Calls

VARIABLES
    pc,           \* where main() is
    scanning,     \* the scan started by bt_scan_start() is running
    filterOn,     \* the UUID filter of scan_init() is in place
    central_conn, \* main.c: static struct bt_conn *central_conn
    link,         \* state of each connection object
    dst,          \* the remote device of each connection object
    ref,          \* reference count of each connection object
    workq,        \* system workqueue: the objects whose deferred work is due
    led2,         \* CENTRAL_CON_STATUS_LED
    led3          \* PERIPHERAL_CONN_STATUS_LED

connVars == <<pc, scanning, filterOn, central_conn, link, dst, ref, workq, led2, led3>>

(***************************************************************************)
(* The life of a connection object.  "adv" is reserved by connectable      *)
(* advertising, "init" by a pending LE Create Connection; "down" is a lost *)
(* link whose disconnected() has not run, "closing" one whose object the   *)
(* host has not released yet.                                              *)
(***************************************************************************)
LinkStates == {"none", "adv", "init", "up", "down", "closing"}

Free(c)      == ref[c] = 0
IsCentral(c) == dst[c] \in Sensors
Advertising  == \E c \in Conns : link[c] = "adv"

(***************************************************************************)
(* bt_le_adv_resume(): advertising that was started and is not running     *)
(* takes one of the objects free in the counts r, if there is one.  The    *)
(* controller is built for one peripheral link                             *)
(* (CONFIG_BT_CTLR_SDC_PERIPHERAL_COUNT 1): with a phone connected it      *)
(* refuses, and the host gives the object back.  l, d and r are the link,  *)
(* dst and ref the event itself leaves.                                    *)
(***************************************************************************)
Resume(l, d, r) ==
    LET free == {c \in Conns : r[c] = 0}
    IN  /\ dst' = d
        /\ IF /\ pc = "loop" /\ free # {}
              /\ \A c \in Conns : l[c] # "adv" /\ ~(d[c] \in Phones /\ l[c] = "up")
           THEN \E c \in free : /\ link' = [l EXCEPT ![c] = "adv"]
                                /\ ref'  = [r EXCEPT ![c] = 1]
           ELSE link' = l /\ ref' = r

\* scan_start() where its result is ignored: scanning, unless the call fails.
ScanStart ==
    \/ scanning' = TRUE
    \/ "scan" \in MayFail /\ scanning' = scanning

\* Power-on, and every reset: RAM is cleared, the LEDs are off, no link survives.
ConnInit ==
    /\ pc = "boot"
    /\ scanning = FALSE
    /\ filterOn = FALSE
    /\ central_conn = NULL
    /\ link = [c \in Conns |-> "none"]
    /\ dst = [c \in Conns |-> NULL]
    /\ ref = [c \in Conns |-> 0]
    /\ workq = <<>>
    /\ led2 = FALSE
    /\ led3 = FALSE

\* CONFIG_RESET_ON_FATAL_ERROR: the device is in its power-on state again.
Reset ==
    /\ pc' = "boot"
    /\ scanning' = FALSE
    /\ filterOn' = FALSE
    /\ central_conn' = NULL
    /\ link' = [c \in Conns |-> "none"]
    /\ dst' = [c \in Conns |-> NULL]
    /\ ref' = [c \in Conns |-> 0]
    /\ workq' = <<>>
    /\ led2' = FALSE
    /\ led3' = FALSE

------------------------------------------------------------------------------
\* main()

\* dk_leds_init() and bt_enable(): an error ends main().
MainEnable ==
    /\ pc = "boot"
    /\ \/ pc' = "scan"
       \/ "enable" \in MayFail /\ pc' = "returned"
    /\ UNCHANGED <<scanning, filterOn, central_conn, link, dst, ref, workq, led2, led3>>

\* scan_init(), whose errors are only printed, then scan_start().
MainScan ==
    /\ pc = "scan"
    /\ \/ filterOn' = TRUE
       \/ "filter" \in MayFail /\ filterOn' = FALSE
    /\ \/ scanning' = TRUE /\ pc' = "adv"
       \/ "scan" \in MayFail /\ scanning' = FALSE /\ pc' = "returned"
    /\ UNCHANGED <<central_conn, link, dst, ref, workq, led2, led3>>

\* Reserves a free object for advertising; without one nothing is advertised,
\* which bt_le_adv_start() does not report: the host means to resume later.
Reserve ==
    \/ \E c \in Conns : /\ Free(c)
                        /\ link' = [link EXCEPT ![c] = "adv"]
                        /\ ref'  = [ref EXCEPT ![c] = 1]
    \/ (\A c \in Conns : ~Free(c)) /\ UNCHANGED <<link, ref>>

\* Mutant of MainAdvertise: main() goes on when bt_le_adv_start() fails.
MainAdvertiseUnchecked ==
    /\ pc = "adv"
    /\ pc' = "loop"
    /\ \/ Reserve
       \/ "adv" \in MayFail /\ UNCHANGED <<link, ref>>
    /\ UNCHANGED <<scanning, filterOn, central_conn, dst, workq, led2, led3>>

\* bt_le_adv_start(): on an error of the controller main() returns.
MainAdvertise ==
    /\ pc = "adv"
    /\ \/ pc' = "loop" /\ Reserve
       \/ "adv" \in MayFail /\ pc' = "returned" /\ UNCHANGED <<link, ref>>
    /\ UNCHANGED <<scanning, filterOn, central_conn, dst, workq, led2, led3>>

------------------------------------------------------------------------------
\* Bluetooth RX thread

(***************************************************************************)
(* A report of sensor s passes the filter: the library stops the scan and  *)
(* creates a connection.  On success scan_connecting() keeps a reference   *)
(* beside the host's own.                                                  *)
(***************************************************************************)
ScanMatch(s) ==
    /\ scanning /\ filterOn
    /\ \E c \in Conns :
         /\ Free(c)
         /\ \A d \in Conns : dst[d] # s
         /\ link' = [link EXCEPT ![c] = "init"]
         /\ dst'  = [dst EXCEPT ![c] = s]
         /\ ref'  = [ref EXCEPT ![c] = 2]
         /\ central_conn' = c
    /\ scanning' = FALSE
    /\ UNCHANGED <<pc, filterOn, workq, led2, led3>>

(***************************************************************************)
(* The same report, but bt_conn_le_create() fails: no object is free, an   *)
(* object for s is still held, or the controller refuses.  The scan is     *)
(* already stopped and scan_connecting_error() only prints.                *)
(***************************************************************************)
ConnectingError(s) ==
    /\ scanning /\ filterOn
    /\ \/ \A c \in Conns : ~Free(c)
       \/ \E d \in Conns : dst[d] = s
       \/ "create" \in MayFail
    /\ scanning' = FALSE
    /\ UNCHANGED <<pc, filterOn, central_conn, link, dst, ref, workq, led2, led3>>

\* connected() without an error, for the connection the scan initiated.
ConnectedCentral(c) ==
    /\ link[c] = "init"
    /\ link' = [link EXCEPT ![c] = "up"]
    /\ led2' = TRUE
    /\ UNCHANGED <<pc, scanning, filterOn, central_conn, dst, ref, workq, led3>>

\* Mutants of ConnectFailed: the object released once too often, the pointer
\* kept, the scan not restarted.
ConnectFailedTwice(c) ==
    /\ link[c] = "init"
    /\ link' = [link EXCEPT ![c] = "none"]
    /\ dst'  = [dst EXCEPT ![c] = NULL]
    /\ ref' = [ref EXCEPT ![c] = @ - 3]
    /\ central_conn' = NULL
    /\ ScanStart
    /\ UNCHANGED <<pc, filterOn, workq, led2, led3>>

ConnectFailedKeeps(c) ==
    /\ link[c] = "init"
    /\ link' = [link EXCEPT ![c] = "none"]
    /\ dst'  = [dst EXCEPT ![c] = NULL]
    /\ ref' = [ref EXCEPT ![c] = @ - 2]
    /\ ScanStart
    /\ UNCHANGED <<pc, filterOn, central_conn, workq, led2, led3>>

ConnectFailedNoScan(c) ==
    /\ link[c] = "init"
    /\ link' = [link EXCEPT ![c] = "none"]
    /\ dst'  = [dst EXCEPT ![c] = NULL]
    /\ ref' = [ref EXCEPT ![c] = @ - 2]
    /\ central_conn' = NULL
    /\ UNCHANGED <<pc, scanning, filterOn, workq, led2, led3>>

\* connected() with conn_err: the attempt timed out or was refused.  The host
\* drops its reference after the callback, so the object is free at once.
ConnectFailed(c) ==
    /\ link[c] = "init"
    /\ link' = [link EXCEPT ![c] = "none"]
    /\ dst'  = [dst EXCEPT ![c] = NULL]
    /\ IF c = central_conn
       THEN /\ ref' = [ref EXCEPT ![c] = @ - 2]
            /\ central_conn' = NULL
            /\ ScanStart
       ELSE /\ ref' = [ref EXCEPT ![c] = @ - 1]
            /\ UNCHANGED <<central_conn, scanning>>
    /\ UNCHANGED <<pc, filterOn, workq, led2, led3>>

\* connected() for a phone that answered the advertising; the host then tries
\* to resume advertising for another one.
ConnectedPhone(c, p) ==
    /\ link[c] = "adv"
    /\ \A d \in Conns : ~(dst[d] = p /\ link[d] = "up")
    /\ led3' = TRUE
    /\ Resume([link EXCEPT ![c] = "up"], [dst EXCEPT ![c] = p], ref)
    /\ UNCHANGED <<pc, scanning, filterOn, central_conn, workq, led2>>

\* Disconnection complete: the rest is deferred to the system workqueue.
LinkLost(c) ==
    /\ link[c] = "up"
    /\ link' = [link EXCEPT ![c] = "down"]
    /\ workq' = Append(workq, c)
    /\ UNCHANGED <<pc, scanning, filterOn, central_conn, dst, ref, led2, led3>>

(***************************************************************************)
(* A phone reads the temperature or writes the LED while central_conn is   *)
(* NULL: the GATT client asserts its conn argument and the device resets.  *)
(***************************************************************************)
FatalAccess(c) ==
    /\ link[c] = "up" /\ ~IsCentral(c)
    /\ central_conn = NULL
    /\ Reset

------------------------------------------------------------------------------
\* System workqueue: the deferred work of lost connections, in order

\* Mutants of Disconnected: no bt_conn_unref(), the pointer kept, the LEDs left
\* lit, the scan not restarted.
DisconnectedBut(c, r, p, l2, l3) ==
    /\ workq # <<>> /\ c = Head(workq)
    /\ link[c] = "down"
    /\ link' = [link EXCEPT ![c] = "closing"]
    /\ ref' = [ref EXCEPT ![c] = r]
    /\ central_conn' = p
    /\ led2' = l2 /\ led3' = l3
    /\ UNCHANGED <<pc, filterOn, dst, workq>>

DisconnectedLeaks(c) ==
    IF c = central_conn
    THEN DisconnectedBut(c, ref[c], NULL, FALSE, led3) /\ ScanStart
    ELSE DisconnectedBut(c, ref[c], central_conn, led2, FALSE) /\ UNCHANGED scanning

DisconnectedKeeps(c) ==
    IF c = central_conn
    THEN DisconnectedBut(c, ref[c] - 1, central_conn, FALSE, led3) /\ ScanStart
    ELSE DisconnectedBut(c, ref[c], central_conn, led2, FALSE) /\ UNCHANGED scanning

DisconnectedLit(c) ==
    IF c = central_conn
    THEN DisconnectedBut(c, ref[c] - 1, NULL, led2, led3) /\ ScanStart
    ELSE DisconnectedBut(c, ref[c], central_conn, led2, led3) /\ UNCHANGED scanning

DisconnectedNoScan(c) ==
    /\ IF c = central_conn
       THEN DisconnectedBut(c, ref[c] - 1, NULL, FALSE, led3)
       ELSE DisconnectedBut(c, ref[c], central_conn, led2, FALSE)
    /\ UNCHANGED scanning

\* disconnected(): the sensor's connection is let go and looked for again, any
\* other one only switches LED 3 off.
Disconnected(c) ==
    /\ workq # <<>> /\ c = Head(workq)
    /\ link[c] = "down"
    /\ link' = [link EXCEPT ![c] = "closing"]
    /\ IF c = central_conn
       THEN /\ led2' = FALSE
            /\ ref' = [ref EXCEPT ![c] = @ - 1]
            /\ central_conn' = NULL
            /\ ScanStart
            /\ UNCHANGED led3
       ELSE /\ led3' = FALSE
            /\ UNCHANGED <<led2, ref, central_conn, scanning>>
    /\ UNCHANGED <<pc, filterOn, dst, workq>>

\* The host's own reference goes after disconnected() returned.  Freeing the
\* object of a peripheral connection resumes advertising.
Release(c) ==
    LET l == [link EXCEPT ![c] = "none"]
        d == [dst EXCEPT ![c] = NULL]
        r == [ref EXCEPT ![c] = @ - 1]
    IN  /\ workq # <<>> /\ c = Head(workq)
        /\ link[c] = "closing"
        /\ workq' = Tail(workq)
        /\ IF IsCentral(c) \/ r[c] # 0
           THEN link' = l /\ dst' = d /\ ref' = r
           ELSE Resume(l, d, r)
        /\ UNCHANGED <<pc, scanning, filterOn, central_conn, led2, led3>>

------------------------------------------------------------------------------
ConnNext ==
    \/ MainEnable \/ MainScan \/ MainAdvertise
    \/ \E s \in Sensors : ScanMatch(s) \/ ConnectingError(s)
    \/ \E c \in Conns :
         \/ ConnectedCentral(c) \/ ConnectFailed(c)
         \/ LinkLost(c) \/ FatalAccess(c)
         \/ Disconnected(c) \/ Release(c)
         \/ \E p \in Phones : ConnectedPhone(c, p)

ConnSpec == ConnInit /\ [][ConnNext]_connVars

(***************************************************************************)
(* What the kernel guarantees: main() runs, the host answers a connection  *)
(* attempt (with a timeout if need be), the workqueue drains.  Nothing is  *)
(* assumed of the radio or the remote devices.                             *)
(***************************************************************************)
ConnFairness ==
    /\ WF_connVars(MainEnable \/ MainScan \/ MainAdvertise)
    /\ \A c \in Conns : /\ WF_connVars(ConnectedCentral(c) \/ ConnectFailed(c))
                        /\ WF_connVars(Disconnected(c))
                        /\ WF_connVars(Release(c))

ConnFairSpec == ConnSpec /\ ConnFairness

------------------------------------------------------------------------------
\* Properties

ConnTypeOK ==
    /\ pc \in {"boot", "scan", "adv", "loop", "returned"}
    /\ scanning \in BOOLEAN
    /\ filterOn \in BOOLEAN
    /\ central_conn \in Conns \cup {NULL}
    /\ link \in [Conns -> LinkStates]
    /\ dst \in [Conns -> Sensors \cup Phones \cup {NULL}]
    /\ ref \in [Conns -> 0 .. 2]
    /\ workq \in Seq(Conns)
    /\ led2 \in BOOLEAN
    /\ led3 \in BOOLEAN

(***************************************************************************)
(* Every connection object is counted exactly: one reference while the     *)
(* host uses it, one more while central_conn points to it.  A missing      *)
(* bt_conn_unref() leaks an object of the pool for good, a second one lets *)
(* the host reuse an object main.c still points to.                        *)
(***************************************************************************)
RefAccounting ==
    \A c \in Conns :
        ref[c] = (IF link[c] = "none" THEN 0 ELSE 1)
               + (IF c = central_conn THEN 1 ELSE 0)

(***************************************************************************)
(* The pointer and the links agree: central_conn is the one connection to  *)
(* a sensor that is being made, is up, or waits for its disconnected().    *)
(* connected() and disconnected() rely on it to tell the two roles apart.  *)
(***************************************************************************)
CentralSlot ==
    \A c \in Conns :
        c = central_conn <=> IsCentral(c) /\ link[c] \in {"init", "up", "down"}

(***************************************************************************)
(* The relay never scans while it has a sensor, so scan_connecting() never *)
(* overwrites, and leaks, a live central_conn.                             *)
(***************************************************************************)
ScanExclusive == scanning => central_conn = NULL

(***************************************************************************)
(* Once the main loop runs, the relay is invisible to new phones only      *)
(* while a phone's connection object is in use: the host's resume is       *)
(* enough, main.c never has to restart advertising.  It needs an object    *)
(* beside the two the scan can hold when advertising starts (Roomy).       *)
(***************************************************************************)
Roomy == \E a, b, c \in Conns : a # b /\ a # c /\ b # c

AdvertisedUnlessPhone ==
    pc = "loop" => Advertising \/ \E c \in Conns : dst[c] \in Phones

\* LED 2 is lit exactly from connected() to disconnected() of the sensor.
Led2Truthful == led2 <=> \E c \in Conns : IsCentral(c) /\ link[c] \in {"up", "down"}

\* LED 3 is lit exactly from connected() to disconnected() of a phone.
Led3Truthful == led3 <=> \E c \in Conns : dst[c] \in Phones /\ link[c] \in {"up", "down"}

\* Both LEDs, although disconnected() tells the roles apart by central_conn only.
LedsTruthful == Led2Truthful /\ Led3Truthful

\* A lost sensor is looked for again: disconnected() restarts the scan.
LostSensorSought ==
    \A c \in Conns :
        (c = central_conn /\ link[c] = "down") ~> (scanning \/ pc = "boot")

(***************************************************************************)
(* While the scan can be started, the relay stops seeking its sensor in    *)
(* one way only: a report matched and bt_conn_le_create() failed.  Every   *)
(* other way out of a connection attempt or a connection, whatever its     *)
(* order with the other role's events, leads back to the scan.             *)
(***************************************************************************)
Seeking == scanning \/ central_conn # NULL

GivesUpOnlyOnConnectingError ==
    [][Seeking /\ ~Seeking' => \/ \E s \in Sensors : ConnectingError(s)
                               \/ pc' = "boot"
                               \/ "scan" \in MayFail]_connVars

------------------------------------------------------------------------------
\* A claim of nrf52840-dk/README.rst that the code does not keep

\* "Central role - Scans for a remote device" (README.rst:46), concurrently with
\* the peripheral role (README.rst:10): with the main loop running the relay
\* scans or has a sensor, again and again.
KeepsCentralRole == []<>(pc = "loop" => Seeking)

=============================================================================
