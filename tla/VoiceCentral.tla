----------------------------- MODULE VoiceCentral -----------------------------
(***************************************************************************)
(* The voice-driven central (raspberry-pi/Central).  input_loop() listens, *)
(* carries out one command and enters the GLib main loop, in which D-Bus   *)
(* signals and replies are handled; only an interrupt gets it back to      *)
(* listening, in a nested activation of input_loop().                      *)
(*                                                                         *)
(* BlueZ is external, a process of its own: it discovers, forgets, loses   *)
(* and resolves devices at any time, and its calls may raise.  An          *)
(* exception in a command ends the program, one in a signal handler is     *)
(* only logged.                                                            *)
(***************************************************************************)
EXTENDS Naturals, Sequences

CONSTANTS
    Devices,   \* remote devices: an address and its object path
    MaxDepth,  \* activations of input_loop() that fit Python's recursion limit
    NULL,      \* None
    MayFail    \* external calls that may raise whatever the state

ASSUME VoiceAssumption ==
    /\ NULL \notin Devices
    /\ MaxDepth \in Nat
    /\ MayFail \subseteq {"connect", "chrc", "disconnect", "discovery", "mic"}

VARIABLES
    phase,           \* listening, running the main loop, ended or crashed
    depth,           \* activations of input_loop() below the current one
    command,         \* the variable of the current activation
    device_address,  \* rpi_central.py: the list of addresses
    devices,         \* rpi_central.py: the paths whose Address is known
    watching,        \* properties_changed() is registered
    ess_msrmt_chrc,  \* rpi_central.py: the device of the proxy, or NULL
    custom_led_chrc, \* rpi_central.py: the same for the LED
    scanning,        \* BlueZ: our discovery session
    objects,         \* BlueZ: devices that have an object
    connected,       \* BlueZ: devices that are connected
    resolved,        \* BlueZ: devices whose characteristics have objects
    heard,           \* history: who signalled, less those disconnect() removed
    opened           \* history: who connect() connected and still is

loopVars  == <<phase, depth, command>>
listVars  == <<device_address, devices, watching, heard>>
chrcVars  == <<ess_msrmt_chrc, custom_led_chrc>>
bluezVars == <<scanning, objects, connected, resolved, opened>>
voiceVars == <<loopVars, listVars, chrcVars, bluezVars>>

\* command = "": nothing was said in this activation yet.
Silence == ""

Commands == {"connect", "show", "hello", "stop disc", "disconnect", "temp", "LED",
             "ON", "OFF", "quit"}

Listed == {device_address[i] : i \in DOMAIN device_address}

\* BlueZ may have devices connected already, by an earlier run that died.
VoiceInit ==
    /\ phase = "listening" /\ depth = 0 /\ command = Silence
    /\ device_address = <<>> /\ watching = FALSE /\ heard = {}
    /\ ess_msrmt_chrc = NULL /\ custom_led_chrc = NULL
    /\ scanning = FALSE /\ opened = {}
    /\ objects \in SUBSET Devices /\ devices = objects
    /\ connected \in SUBSET objects /\ resolved \in SUBSET objects

------------------------------------------------------------------------------
\* How a command ends

Returns == phase' = "running" /\ UNCHANGED depth
Raises  == phase' = "crashed" /\ UNCHANGED depth

\* Mutant of Interrupted: the recursion is not limited.
InterruptedUnlimited(c) ==
    /\ phase' = "listening" /\ depth' = depth + 1
    /\ command' = Silence

\* except KeyboardInterrupt: input_loop(), with a command variable of its own;
\* c is the one left behind.
Interrupted(c) ==
    /\ IF depth < MaxDepth
       THEN phase' = "listening" /\ depth' = depth + 1
       ELSE Raises
    /\ command' = Silence

Completes(c) == Returns /\ command' = c
Dies(c)      == Raises /\ command' = c

------------------------------------------------------------------------------
\* rpi_central.py

(***************************************************************************)
(* get_characteristic_path(): of the characteristics BlueZ has by now, of  *)
(* all devices, the last one enumerated stays.  One that did not return    *)
(* may have left either proxy as it was.                                   *)
(***************************************************************************)
GetCharacteristicPath(res, returned) ==
    IF res = {} THEN UNCHANGED chrcVars
    ELSE /\ ess_msrmt_chrc' \in res \cup (IF returned THEN {} ELSE {ess_msrmt_chrc})
         /\ custom_led_chrc' \in res \cup (IF returned THEN {} ELSE {custom_led_chrc})

(***************************************************************************)
(* connect() over the list a, stopped after k devices are connected by an  *)
(* exception or an interrupt unless k = Len(a); returned is whether the    *)
(* k-th get_characteristic_path() did.  BlueZ resolves some of what is     *)
(* connected meanwhile.                                                    *)
(***************************************************************************)
ConnectLoop(a, k, returned) ==
    /\ \A i \in 1 .. k : a[i] \in objects
    /\ connected' = connected \cup {a[i] : i \in 1 .. k}
    /\ opened' = opened \cup {a[i] : i \in 1 .. k}
    /\ \E now \in SUBSET connected' :
         /\ resolved' = resolved \cup now
         /\ IF k = 0 THEN UNCHANGED chrcVars
            ELSE GetCharacteristicPath(resolved \cup now, returned \/ (k > 1 /\ resolved # {}))
    /\ UNCHANGED <<scanning, objects>>

\* connect() raises then: for the (k+1)-th device, which has no object any more or
\* whose Connect() fails, or in the k-th get_characteristic_path(), for an object
\* that went away while it asked.
ConnectRaises(a, k, returned) ==
    IF returned THEN k < Len(a) /\ (a[k + 1] \notin objects \/ "connect" \in MayFail)
                ELSE k > 0 /\ "chrc" \in MayFail

Connect(c) ==
    /\ \E k \in 0 .. Len(device_address), returned \in BOOLEAN :
         /\ ConnectLoop(device_address, k, returned)
         /\ \/ k = Len(device_address) /\ returned /\ Completes(c)
            \/ ConnectRaises(device_address, k, returned) /\ Dies(c)
            \/ Interrupted(c)
    /\ UNCHANGED listVars

\* What is left of the list a when its first, third, ... address, j in all, are
\* removed while it is iterated over.
Skipped(a, j) == [i \in 1 .. Len(a) - j |-> IF i <= j THEN a[2 * i] ELSE a[i + j]]

\* Mutant of Disconnect: the address is removed before Disconnect() is called.
DisconnectRemovesFirst(c) ==
    \E j \in 0 .. (Len(device_address) + 1) \div 2 :
      LET gone == {device_address[2 * i - 1] : i \in 1 .. j}
          next == 2 * j + 1
      IN  /\ gone \subseteq connected
          /\ connected' = connected \ gone /\ opened' = opened \ gone
          /\ \/ /\ next > Len(device_address)
                /\ device_address' = Skipped(device_address, j)
                /\ Completes(c)
             \/ /\ next <= Len(device_address)
                /\ device_address[next] \notin connected \/ "disconnect" \in MayFail
                /\ device_address' = Skipped(device_address, j + 1)
                /\ Dies(c)
          /\ heard' = heard \ gone
          /\ UNCHANGED <<devices, watching, chrcVars, scanning, objects,
                         resolved>>

(***************************************************************************)
(* disconnect() removes from the list it iterates over.  Disconnect()      *)
(* raises for a device that is not connected; gone are the j devices that  *)
(* are done by then.                                                       *)
(***************************************************************************)
Disconnect(c) ==
    \E j \in 0 .. (Len(device_address) + 1) \div 2 :
      LET gone == {device_address[2 * i - 1] : i \in 1 .. j}
          next == 2 * j + 1
      IN  /\ gone \subseteq connected
          /\ connected' = connected \ gone /\ opened' = opened \ gone
          /\ device_address' = Skipped(device_address, j)
          /\ \/ next > Len(device_address) /\ Completes(c)
             \/ /\ next <= Len(device_address)
                /\ device_address[next] \notin connected \/ "disconnect" \in MayFail
                /\ Dies(c)
             \/ Interrupted(c)
          /\ heard' = heard \ gone
          /\ UNCHANGED <<devices, watching, chrcVars, scanning, objects,
                         resolved>>

\* discovery(action): the receiver is registered either way; BlueZ refuses a
\* second start, and a stop of what was not started.
Discovery(c, start) ==
    /\ watching' = TRUE
    /\ \/ scanning # start /\ scanning' = start /\ Completes(c)
       \/ /\ scanning = start \/ "discovery" \in MayFail
          /\ UNCHANGED scanning /\ Dies(c)
    /\ UNCHANGED <<device_address, devices, heard, chrcVars, objects,
                   connected, resolved, opened>>

\* Mutant of ReadChrc: ReadValue() is a blocking call.
ReadChrcBlocking(c, chrc) ==
    /\ \/ chrc \in connected /\ Completes(c)
       \/ chrc \notin connected /\ Dies(c)
    /\ UNCHANGED <<listVars, chrcVars, bluezVars>>

\* read_temp() and read_led(): None has no proxy to index, and raises; otherwise
\* ReadValue() is asynchronous, and its reply, or error, is only printed.
ReadChrc(c, chrc) ==
    /\ \/ chrc # NULL /\ Completes(c)
       \/ chrc = NULL /\ Dies(c)
    /\ UNCHANGED <<listVars, chrcVars, bluezVars>>

\* write_led(): the call names no interface and passes no dictionary of options, so
\* that BlueZ has no such method: it raises, as it does without a proxy.
WriteLed(c) ==
    /\ Dies(c)
    /\ UNCHANGED <<listVars, chrcVars, bluezVars>>

------------------------------------------------------------------------------
\* input_loop()

\* "show", an unknown command, or none: only prints.
OnlyPrints(c) ==
    /\ Completes(c)
    /\ UNCHANGED <<listVars, chrcVars, bluezVars>>

\* "quit": SystemExit ends the innermost activation, and the others return.
Quit(c) ==
    /\ phase' = "ended" /\ depth' = 0 /\ command' = c
    /\ UNCHANGED <<listVars, chrcVars, bluezVars>>

Execute(c) ==
    \/ c = "connect" /\ Connect(c)
    \/ c = "hello" /\ Discovery(c, TRUE)
    \/ c = "stop disc" /\ Discovery(c, FALSE)
    \/ c = "disconnect" /\ Disconnect(c)
    \/ c = "temp" /\ ReadChrc(c, ess_msrmt_chrc)
    \/ c = "LED" /\ ReadChrc(c, custom_led_chrc)
    \/ c \in {"ON", "OFF"} /\ WriteLed(c)
    \/ c \in {Silence, "show"} /\ OnlyPrints(c)
    \/ c = "quit" /\ Quit(c)

\* The utterance is recognised as a command.
Say(c) == phase = "listening" /\ Execute(c)

\* UnknownValueError, RequestError: command is what it was, and is executed.
NotUnderstood == phase = "listening" /\ Execute(command)

\* Ctrl-C, while listening or in the main loop.
Interrupt ==
    /\ phase \in {"listening", "running"}
    /\ Interrupted(command)
    /\ UNCHANGED <<listVars, chrcVars, bluezVars>>

\* The microphone cannot be opened: an exception nobody handles.
MicrophoneFails ==
    /\ phase = "listening" /\ "mic" \in MayFail
    /\ Dies(command)
    /\ UNCHANGED <<listVars, chrcVars, bluezVars>>

------------------------------------------------------------------------------
\* The main loop

\* Mutant of PropertiesChanged: the address is listed when connect() is done.
PropertiesChangedLate(d) ==
    /\ phase = "running" /\ watching /\ d \in objects
    /\ heard' = heard \cup {d}
    /\ LET a == Append(device_address, d)
       IN  \/ /\ d \in devices \ Listed
              /\ \E k \in 0 .. Len(a), returned \in BOOLEAN :
                   /\ ConnectLoop(a, k, returned)
                   /\ \/ /\ k = Len(a) /\ returned
                         /\ device_address' = a
                      \/ /\ ConnectRaises(a, k, returned)
                         /\ UNCHANGED device_address
           \/ /\ d \notin devices \/ d \in Listed
              /\ UNCHANGED <<device_address, chrcVars, bluezVars>>
    /\ UNCHANGED <<loopVars, devices, watching>>

(***************************************************************************)
(* properties_changed(): the signal of a device whose Address is known and *)
(* not listed appends it and connects every listed device; an exception of *)
(* connect() is logged.  BlueZ sends no Address with a change, so of a     *)
(* device it did not know when the program started nothing is kept.        *)
(***************************************************************************)
PropertiesChanged(d) ==
    /\ phase = "running" /\ watching /\ d \in objects
    /\ heard' = heard \cup {d}
    /\ \/ /\ d \in devices \ Listed
          /\ device_address' = Append(device_address, d)
          /\ \E k \in 0 .. Len(device_address'), returned \in BOOLEAN :
               /\ ConnectLoop(device_address', k, returned)
               /\ \/ k = Len(device_address') /\ returned
                  \/ ConnectRaises(device_address', k, returned)
       \/ /\ d \notin devices \/ d \in Listed
          /\ UNCHANGED <<device_address, chrcVars, bluezVars>>
    /\ UNCHANGED <<loopVars, devices, watching>>

------------------------------------------------------------------------------
\* BlueZ and the devices

Alive == phase \in {"listening", "running"}

Discovered(d) ==
    /\ Alive /\ scanning /\ d \notin objects
    /\ objects' = objects \cup {d}
    /\ UNCHANGED <<loopVars, listVars, chrcVars, scanning, connected, resolved, opened>>

ServicesResolved(d) ==
    /\ Alive /\ d \in connected \ resolved
    /\ resolved' = resolved \cup {d}
    /\ UNCHANGED <<loopVars, listVars, chrcVars, scanning, objects, connected, opened>>

DeviceLost(d) ==
    /\ Alive /\ d \in connected
    /\ connected' = connected \ {d} /\ opened' = opened \ {d}
    /\ UNCHANGED <<loopVars, listVars, chrcVars, scanning, objects, resolved>>

\* A device that is not connected is forgotten after a while, with its objects.
Forgotten(d) ==
    /\ Alive /\ d \in objects \ connected
    /\ objects' = objects \ {d}
    /\ resolved' = resolved \ {d}
    /\ UNCHANGED <<loopVars, listVars, chrcVars, scanning, connected, opened>>

VoiceNext ==
    \/ \E c \in Commands \cup {Silence} : Say(c)
    \/ NotUnderstood \/ Interrupt \/ MicrophoneFails
    \/ \E d \in Devices : \/ PropertiesChanged(d) \/ Discovered(d)
                          \/ ServicesResolved(d) \/ DeviceLost(d) \/ Forgotten(d)

VoiceSpec == VoiceInit /\ [][VoiceNext]_voiceVars

------------------------------------------------------------------------------
\* Properties

VoiceTypeOK ==
    /\ phase \in {"listening", "running", "ended", "crashed"}
    /\ depth \in 0 .. MaxDepth
    /\ command \in Commands \cup {Silence}
    /\ device_address \in Seq(Devices)
    /\ devices \subseteq Devices /\ heard \subseteq Devices
    /\ watching \in BOOLEAN /\ scanning \in BOOLEAN
    /\ {ess_msrmt_chrc, custom_led_chrc} \subseteq Devices \cup {NULL}
    /\ connected \subseteq objects /\ resolved \subseteq objects
    /\ opened \subseteq connected /\ objects \subseteq Devices

(***************************************************************************)
(* The list is the program's only handle on the devices it connected: each *)
(* of them is on it, once, whatever raised or was interrupted in the       *)
(* middle of connect() or disconnect(), so that "disconnect" said again    *)
(* reaches it.  (What an earlier run left connected need not be.)          *)
(***************************************************************************)
ConnectedAreListed ==
    /\ opened \subseteq Listed
    /\ \A i, j \in DOMAIN device_address :
          device_address[i] = device_address[j] => i = j

(***************************************************************************)
(* A device known at the start that made itself heard stays listed until   *)
(* disconnect() has disconnected it, though connect() raised for it or for *)
(* one before it: "connect" said again tries it.  (A device BlueZ found    *)
(* later signals without an Address, and is never listed.)                 *)
(***************************************************************************)
HeardAreListed == heard \cap devices \subseteq Listed

(***************************************************************************)
(* Why the command c may end the program by an exception; Silence stands   *)
(* for an activation that executed none.                                   *)
(***************************************************************************)
Fatal(c) ==
    \/ c = Silence /\ (depth = MaxDepth \/ "mic" \in MayFail)
    \/ c = "connect" /\ (~(Listed \subseteq objects) \/ {"connect", "chrc"} \cap MayFail # {})
    \/ c = "disconnect" /\ (~(Listed \subseteq connected) \/ "disconnect" \in MayFail)
    \/ c \in {"hello", "stop disc"} /\ (scanning = (c = "hello") \/ "discovery" \in MayFail)
    \/ c = "temp" /\ ess_msrmt_chrc = NULL
    \/ c = "LED" /\ custom_led_chrc = NULL
    \/ c \in {"ON", "OFF"}

(***************************************************************************)
(* Each command ends the program only for reasons of its own, whatever was *)
(* said, raised, lost or forgotten before: reading never does once a       *)
(* characteristic was found, though its device is gone; and no signal      *)
(* does.                                                                   *)
(***************************************************************************)
DiesOnlyOf == [][phase # "crashed" /\ phase' = "crashed" => Fatal(command')]_voiceVars

------------------------------------------------------------------------------
\* Claims of the code's texts that the code does not keep

\* "Disconnect from the device" (rpi_central.py:126), for the addresses listed:
\* when the command "disconnect" is done none of them is connected.
DisconnectsAll ==
    [][phase = "listening" /\ phase' = "running" /\ command' = "disconnect"
         => Listed \cap connected' = {}]_voiceVars

=============================================================================
