---------------------------- MODULE HeartPeripheral ----------------------------
(***************************************************************************)
(* The heart-rate and battery peripheral (raspberry-pi/Peripheral): a      *)
(* program that serves two GATT services to BlueZ over D-Bus.  Everything  *)
(* but main() itself runs in its main loop, one D-Bus message or timer at  *)
(* a time; an exception in a handler goes back to the caller as an error   *)
(* and the loop goes on.                                                   *)
(*                                                                         *)
(* BlueZ is external.  It calls StartNotify() each time a client           *)
(* subscribes and StopNotify() when the last one leaves, ignores their     *)
(* results, and passes a value the program signals on to the clients that  *)
(* are subscribed when the signal arrives.                                 *)
(***************************************************************************)
EXTENDS Naturals, Sequences, FiniteSets

CONSTANTS
    Clients,      \* that connect; they do not bond
    FullBattery,  \* 100 in the program
    MaxCalls,     \* bound: messages to the program not handled yet
    MaxSignals,   \* bound: signals of the program not delivered yet
    NULL          \* no value

Chrcs == {"battery", "heart"}

ASSUME HeartAssumption ==
    /\ FullBattery \in Nat /\ NULL \notin Nat
    /\ MaxCalls \in Nat \ {0} /\ MaxSignals \in Nat \ {0}

VARIABLES
    proc,         \* the program: "boot", "loop", "asking" its user, "ended"
    battery_lvl,
    notifying,    \* of each characteristic
    calls,        \* D-Bus messages to the program
    signals,      \* values of the battery signalled, not yet delivered
    advertised,   \* the advertisement: "no", "pending", "yes"
    registered,   \* the application: "no", "pending", "yes"
    connected,    \* clients
    ccc,          \* what each client subscribed to
    told          \* the last value each was notified of since it subscribed

procVars  == <<proc, battery_lvl, notifying>>
bluezVars == <<advertised, registered, connected, ccc, told>>
heartVars == <<procVars, calls, signals, bluezVars>>

Start(k) == [call |-> "StartNotify", of |-> k]
Stop(k)  == [call |-> "StopNotify", of |-> k]
Message(m) == [call |-> m]

Subscribed(k) == \E c \in Clients : k \in ccc[c]

HeartInit ==
    /\ proc = "boot" /\ battery_lvl = FullBattery
    /\ notifying = [k \in Chrcs |-> FALSE]
    /\ calls = <<>> /\ signals = <<>>
    /\ advertised = "no" /\ registered = "no" /\ connected = {}
    /\ ccc = [c \in Clients |-> {}]
    /\ told = [c \in Clients |-> [k \in Chrcs |-> NULL]]

------------------------------------------------------------------------------
\* The program

\* main() up to mainloop.run(): both registrations are under way.
Main ==
    /\ proc = "boot"
    /\ proc' = "loop"
    /\ advertised' = "pending" /\ registered' = "pending"
    /\ UNCHANGED <<battery_lvl, notifying, calls, signals, connected, ccc, told>>

\* No adapter, or a call of main() raises: the agent, the power of the adapter.
MainFails ==
    /\ proc = "boot"
    /\ proc' = "ended"
    /\ UNCHANGED <<battery_lvl, notifying, calls, signals, bluezVars>>

\* notify_battery_level()
Signal(lvl) ==
    signals' = IF notifying'["battery"] THEN Append(signals, lvl) ELSE signals

\* Mutant of Drain: no floor.
DrainBelowZero ==
    /\ proc = "loop" /\ Len(signals) < MaxSignals
    /\ battery_lvl' = battery_lvl - 2
    /\ UNCHANGED notifying
    /\ Signal(battery_lvl')
    /\ UNCHANGED <<proc, calls, bluezVars>>

\* drain_battery(), every five seconds.
Drain ==
    /\ proc = "loop" /\ Len(signals) < MaxSignals
    /\ battery_lvl' = IF battery_lvl > 2 THEN battery_lvl - 2 ELSE 0
    /\ UNCHANGED notifying
    /\ Signal(battery_lvl')
    /\ UNCHANGED <<proc, calls, bluezVars>>

\* The next message.
Handles(m) ==
    /\ proc = "loop" /\ calls # <<>> /\ Head(calls) = m
    /\ calls' = Tail(calls)

\* Mutants of StartBattery: the flag is set and nothing signalled; it is not set.
StartBatterySilent ==
    /\ Handles(Start("battery")) /\ Len(signals) < MaxSignals
    /\ notifying' = [notifying EXCEPT !["battery"] = TRUE]
    /\ UNCHANGED <<proc, battery_lvl, signals, bluezVars>>

StartBatteryForgets ==
    /\ Handles(Start("battery")) /\ Len(signals) < MaxSignals
    /\ UNCHANGED <<procVars, signals, bluezVars>>

\* BatteryLevelCharacteristic.StartNotify(): the level is signalled at once,
\* unless another client made it notify already.
StartBattery ==
    /\ Handles(Start("battery")) /\ Len(signals) < MaxSignals
    /\ IF notifying["battery"] THEN UNCHANGED <<notifying, signals>>
       ELSE /\ notifying' = [notifying EXCEPT !["battery"] = TRUE]
            /\ Signal(battery_lvl)
    /\ UNCHANGED <<proc, battery_lvl, bluezVars>>

\* HeartRateMeasurementChrc.StartNotify(): the timer that would measure is never
\* made, because gobject.timeout_add() raises NameError after the flag is set.
StartHeart ==
    /\ Handles(Start("heart"))
    /\ notifying' = [notifying EXCEPT !["heart"] = TRUE]
    /\ UNCHANGED <<proc, battery_lvl, signals, bluezVars>>

StopNotify(k) ==
    /\ Handles(Stop(k))
    /\ notifying' = [notifying EXCEPT ![k] = FALSE]
    /\ UNCHANGED <<proc, battery_lvl, signals, bluezVars>>

\* RequestAuthorization() asks on standard input, inside the main loop.
Asks ==
    /\ Handles(Message("RequestAuthorization"))
    /\ proc' = "asking"
    /\ UNCHANGED <<battery_lvl, notifying, signals, bluezVars>>

UserAnswers ==
    /\ proc = "asking"
    /\ proc' = "loop"
    /\ UNCHANGED <<battery_lvl, notifying, calls, signals, bluezVars>>

\* register_ad_error_cb()
AdvertisementFailed ==
    /\ Handles(Message("advertisement failed"))
    /\ proc' = "ended"
    /\ UNCHANGED <<battery_lvl, notifying, signals, bluezVars>>

\* register_app_error_cb() would end the loop, but it was passed in a list:
\* calling that raises TypeError.  The agent's Release() raises NameError.
Ignored ==
    /\ Handles(Message("application failed")) \/ Handles(Message("Release"))
    /\ UNCHANGED <<procVars, signals, bluezVars>>

------------------------------------------------------------------------------
\* BlueZ and its clients

Room == Len(calls) < MaxCalls

\* The advertisement or the application is registered, once the program has
\* answered what it consists of, or refused.
AdvertisementReply ==
    /\ advertised = "pending" /\ Room
    /\ \/ proc = "loop" /\ advertised' = "yes" /\ UNCHANGED calls
       \/ advertised' = "no" /\ calls' = Append(calls, Message("advertisement failed"))
    /\ UNCHANGED <<procVars, signals, registered, connected, ccc, told>>

ApplicationReply ==
    /\ registered = "pending" /\ Room
    /\ \/ proc = "loop" /\ registered' = "yes" /\ UNCHANGED calls
       \/ registered' = "no" /\ calls' = Append(calls, Message("application failed"))
    /\ UNCHANGED <<procVars, signals, advertised, connected, ccc, told>>

Connect(c) ==
    /\ advertised = "yes" /\ c \notin connected
    /\ connected' = connected \cup {c}
    /\ UNCHANGED <<procVars, calls, signals, advertised, registered, ccc, told>>

Pair(c) ==
    /\ c \in connected /\ Room
    /\ calls' = Append(calls, Message("RequestAuthorization"))
    /\ UNCHANGED <<procVars, signals, bluezVars>>

Subscribe(c, k) ==
    /\ c \in connected /\ registered = "yes" /\ k \notin ccc[c] /\ Room
    /\ ccc' = [ccc EXCEPT ![c] = @ \cup {k}]
    /\ calls' = Append(calls, Start(k))
    /\ UNCHANGED <<procVars, signals, advertised, registered, connected, told>>

\* The messages that end what nobody subscribes to any more, in some order.
Stops(last) ==
    {s \in [1 .. Cardinality(last) -> {Stop(k) : k \in last}] :
        \A k \in last : \E j \in DOMAIN s : s[j] = Stop(k)}

\* BlueZ ends the subscriptions of c to ks.
Unsubscribes(c, ks) ==
    /\ ccc' = [ccc EXCEPT ![c] = @ \ ks]
    /\ told' = [told EXCEPT ![c] = [k \in Chrcs |-> IF k \in ks THEN NULL ELSE @[k]]]
    /\ LET last == {k \in ks : \A d \in Clients \ {c} : k \notin ccc[d]}
       IN  \E stops \in Stops(last) : calls' = calls \o stops

Unsubscribe(c, k) ==
    /\ k \in ccc[c] /\ Room
    /\ Unsubscribes(c, {k})
    /\ UNCHANGED <<procVars, signals, advertised, registered, connected>>

Disconnect(c) ==
    /\ c \in connected /\ Room
    /\ connected' = connected \ {c}
    /\ Unsubscribes(c, ccc[c])
    /\ UNCHANGED <<procVars, signals, advertised, registered>>

\* A signal arrives, and is notified to the clients subscribed now.
Deliver ==
    /\ signals # <<>>
    /\ signals' = Tail(signals)
    /\ told' = [c \in Clients |-> IF "battery" \in ccc[c]
                                  THEN [told[c] EXCEPT !["battery"] = Head(signals)]
                                  ELSE told[c]]
    /\ UNCHANGED <<procVars, calls, advertised, registered, connected, ccc>>

\* The Bluetooth daemon restarts.  It has forgotten the program, which is told
\* Release() at best and never registers again.
DaemonRestarts ==
    /\ proc \in {"loop", "asking"} /\ Room
    /\ \/ calls' = Append(calls, Message("Release"))
       \/ UNCHANGED calls
    /\ advertised' = "no" /\ registered' = "no" /\ connected' = {}
    /\ ccc' = [c \in Clients |-> {}]
    /\ told' = [c \in Clients |-> [k \in Chrcs |-> NULL]]
    /\ UNCHANGED <<procVars, signals>>

\* A program that ended leaves the bus, and BlueZ forgets it.
Gone ==
    /\ proc = "ended" /\ (advertised # "no" \/ registered # "no")
    /\ advertised' = "no" /\ registered' = "no" /\ connected' = {}
    /\ ccc' = [c \in Clients |-> {}]
    /\ told' = [c \in Clients |-> [k \in Chrcs |-> NULL]]
    /\ calls' = <<>> /\ signals' = <<>>
    /\ UNCHANGED procVars

------------------------------------------------------------------------------
HeartNext ==
    \/ Main \/ MainFails \/ Drain
    \/ StartBattery \/ StartHeart \/ \E k \in Chrcs : StopNotify(k)
    \/ Asks \/ UserAnswers \/ AdvertisementFailed \/ Ignored
    \/ AdvertisementReply \/ ApplicationReply
    \/ \E c \in Clients :
         \/ Connect(c) \/ Pair(c) \/ Disconnect(c)
         \/ \E k \in Chrcs : Subscribe(c, k) \/ Unsubscribe(c, k)
    \/ Deliver \/ DaemonRestarts \/ Gone

HeartSpec == HeartInit /\ [][HeartNext]_heartVars

\* The main loop runs, its timer is due again and again, BlueZ delivers.
HeartFairSpec ==
    /\ HeartSpec
    /\ WF_heartVars(StartBattery) /\ WF_heartVars(StartHeart)
    /\ \A k \in Chrcs : WF_heartVars(StopNotify(k))
    /\ WF_heartVars(Asks) /\ WF_heartVars(AdvertisementFailed) /\ WF_heartVars(Ignored)
    /\ SF_heartVars(Drain) /\ WF_heartVars(Deliver)

------------------------------------------------------------------------------
\* Properties

HeartTypeOK ==
    /\ proc \in {"boot", "loop", "asking", "ended"}
    /\ battery_lvl \in 0 .. FullBattery
    /\ notifying \in [Chrcs -> BOOLEAN]
    /\ calls \in Seq({Start(k) : k \in Chrcs} \cup {Stop(k) : k \in Chrcs}
                     \cup {Message(m) : m \in {"RequestAuthorization", "Release",
                              "advertisement failed", "application failed"}})
    /\ signals \in Seq(0 .. FullBattery) /\ Len(signals) <= MaxSignals
    /\ advertised \in {"no", "pending", "yes"} /\ registered \in {"no", "pending", "yes"}
    /\ connected \subseteq Clients
    /\ ccc \in [Clients -> SUBSET Chrcs]
    /\ told \in [Clients -> [Chrcs -> 0 .. FullBattery \cup {NULL}]]

(***************************************************************************)
(* Clients come and go while calls wait for the main loop, yet the flag of *)
(* each characteristic, after the calls on their way, says whether anybody *)
(* is subscribed: a StopNotify() never overtakes or undoes a later         *)
(* StartNotify(), with any number of clients behind one flag.              *)
(***************************************************************************)
About(k) == {j \in DOMAIN calls : calls[j] \in {Start(k), Stop(k)}}

NotifiesSubscribers ==
    registered = "yes" => \A k \in Chrcs :
        IF About(k) = {} THEN notifying[k] <=> Subscribed(k)
        ELSE \E last \in About(k) :
                /\ \A j \in About(k) : j <= last
                /\ calls[last] = Start(k) <=> Subscribed(k)

(***************************************************************************)
(* A subscribed client that has been notified of the battery level knows   *)
(* it, or the level is on its way, or a StartNotify() that will signal it  *)
(* is: no order of drains, subscriptions and departures leaves a client    *)
(* with a level that nothing will correct.                                 *)
(***************************************************************************)
LevelCurrent ==
    \A c \in Clients : told[c]["battery"] # NULL =>
        \/ told[c]["battery"] = battery_lvl /\ signals = <<>>
        \/ signals # <<>> /\ signals[Len(signals)] = battery_lvl
        \/ About("battery") # {}

\* A subscriber of characteristic k is notified, unless it leaves, the program
\* asks its user or ends.
Served(k) ==
    \A c \in Clients : k \in ccc[c] ~>
        (k \notin ccc[c] \/ told[c][k] # NULL \/ proc # "loop")

BatteryServed == Served("battery")

(***************************************************************************)
(* "Fake Heart Rate Service that simulates a fake heart beat"              *)
(* (ble_peripheral.py:78): a subscriber gets measurements.                 *)
(***************************************************************************)
HeartBeats == Served("heart")

=============================================================================
