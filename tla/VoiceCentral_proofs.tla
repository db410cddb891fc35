-------------------------- MODULE VoiceCentral_proofs --------------------------
(***************************************************************************)
(* Proofs about VoiceCentral, for any devices and any recursion limit.     *)
(***************************************************************************)
EXTENDS VoiceCentral, Integers, TLAPS

(***************************************************************************)
(* The inductive invariant of the device list.  The list must be known to  *)
(* be a sequence for the positions that disconnect() skips to mean         *)
(* anything.                                                               *)
(***************************************************************************)
ListIInv ==
    /\ device_address \in Seq(Devices)
    /\ ConnectedAreListed

\* Skipping keeps a sequence a sequence, of what was in it.
LEMMA SkippedSeq ==
  ASSUME NEW a \in Seq(Devices), NEW j \in 0 .. (Len(a) + 1) \div 2
  PROVE  /\ Skipped(a, j) \in Seq(Devices)
         /\ Len(Skipped(a, j)) = Len(a) - j
<1>1. Len(a) \in Nat /\ j \in Nat /\ 2 * j <= Len(a) + 1
  OBVIOUS
<1>2. Len(a) - j \in Nat
  BY <1>1
<1>3. \A i \in 1 .. Len(a) - j : Skipped(a, j)[i] \in Devices
  <2> SUFFICES ASSUME NEW i \in 1 .. Len(a) - j
               PROVE  Skipped(a, j)[i] \in Devices
    OBVIOUS
  <2>1. CASE i <= j
    <3>1. 2 * i \in 1 .. Len(a)
      BY <1>1, <2>1
    <3>2. QED
      BY <2>1, <3>1 DEF Skipped
  <2>2. CASE i > j
    <3>1. i + j \in 1 .. Len(a)
      BY <1>1, <2>2
    <3>2. QED
      BY <1>1, <2>2, <3>1 DEF Skipped
  <2>3. QED
    BY <1>1, <2>1, <2>2
<1>4. Skipped(a, j) \in [1 .. Len(a) - j -> Devices]
  BY <1>3 DEF Skipped
<1>5. QED
  BY <1>2, <1>4

\* A position is the first or the second of a pair.
LEMMA Halves ==
  ASSUME NEW p \in Nat, p >= 1
  PROVE  \E h \in Nat : p = 2 * h \/ p = 2 * h - 1
<1>1. p = 2 * (p \div 2) \/ p = 2 * (p \div 2) + 1
  OBVIOUS
<1>2. p \div 2 \in Nat /\ (p \div 2) + 1 \in Nat
  <2>1. p \div 2 \in Int
    OBVIOUS
  <2>2. QED
    BY <1>1, <2>1
<1>3. CASE p = 2 * (p \div 2)
  BY <1>2, <1>3
<1>4. CASE p = 2 * (p \div 2) + 1
  <2>1. p = 2 * ((p \div 2) + 1) - 1
    BY <1>2, <1>4
  <2>2. QED
    BY <1>2, <2>1
<1>5. QED
  BY <1>1, <1>3, <1>4

\* Nothing but the j visited addresses is lost, and none is doubled.
LEMMA SkippedKeeps ==
  ASSUME NEW a \in Seq(Devices), NEW j \in 0 .. (Len(a) + 1) \div 2,
         \A p, q \in DOMAIN a : a[p] = a[q] => p = q
  PROVE  /\ \A p \in DOMAIN a :
               \/ \E i \in 1 .. j : a[p] = a[2 * i - 1]
               \/ \E i \in DOMAIN Skipped(a, j) : Skipped(a, j)[i] = a[p]
         /\ \A p, q \in DOMAIN Skipped(a, j) :
               Skipped(a, j)[p] = Skipped(a, j)[q] => p = q
<1>1. Len(a) \in Nat /\ j \in Nat /\ 2 * j <= Len(a) + 1 /\ DOMAIN a = 1 .. Len(a)
  OBVIOUS
<1>2. DOMAIN Skipped(a, j) = 1 .. Len(a) - j
  BY DEF Skipped
<1>3. ASSUME NEW p \in DOMAIN a
      PROVE  \/ \E i \in 1 .. j : a[p] = a[2 * i - 1]
             \/ \E i \in DOMAIN Skipped(a, j) : Skipped(a, j)[i] = a[p]
  <2>1. CASE p > 2 * j
    <3>1. p - j \in 1 .. Len(a) - j /\ ~(p - j <= j) /\ (p - j) + j = p
      BY <1>1, <2>1
    <3>2. Skipped(a, j)[p - j] = a[p]
      BY <3>1 DEF Skipped
    <3>3. QED
      BY <1>2, <3>1, <3>2
  <2>2. CASE p <= 2 * j
    <3>1. PICK i \in 1 .. j : p = 2 * i - 1 \/ p = 2 * i
      <4>1. p \in Nat /\ p >= 1
        BY <1>1
      <4>2. PICK h \in Nat : p = 2 * h \/ p = 2 * h - 1
        BY <4>1, Halves
      <4>3. h \in 1 .. j
        BY <1>1, <2>2, <4>1, <4>2
      <4>4. QED
        BY <4>2, <4>3
    <3>2. CASE p = 2 * i - 1
      BY <3>2
    <3>3. CASE p = 2 * i
      <4>1. i \in 1 .. Len(a) - j /\ i <= j
        BY <1>1, <3>3
      <4>2. Skipped(a, j)[i] = a[p]
        BY <4>1, <3>3 DEF Skipped
      <4>3. QED
        BY <1>2, <4>1, <4>2
    <3>4. QED
      BY <3>1, <3>2, <3>3
  <2>3. QED
    BY <1>1, <2>1, <2>2
<1>4. ASSUME NEW p \in DOMAIN Skipped(a, j), NEW q \in DOMAIN Skipped(a, j),
             Skipped(a, j)[p] = Skipped(a, j)[q]
      PROVE  p = q
  <2> DEFINE At(i) == IF i <= j THEN 2 * i ELSE i + j
  <2>1. \A i \in 1 .. Len(a) - j : At(i) \in 1 .. Len(a) /\ Skipped(a, j)[i] = a[At(i)]
    BY <1>1 DEF Skipped
  <2>2. At(p) = At(q)
    <3> HIDE DEF At
    <3>1. a[At(p)] = a[At(q)] /\ At(p) \in DOMAIN a /\ At(q) \in DOMAIN a
      BY <1>1, <1>2, <1>4, <2>1
    <3>2. QED
      BY <3>1
  <2>3. p \in 1 .. Len(a) - j /\ q \in 1 .. Len(a) - j
    BY <1>2
  <2>4. QED
    BY <1>1, <2>2, <2>3
<1>5. QED
  BY <1>3, <1>4

\* connect() over the list a connects nothing that is not on it.
LEMMA ConnectLoopListed ==
  ASSUME NEW a \in Seq(Devices), NEW k \in 0 .. Len(a), NEW r, ConnectLoop(a, k, r)
  PROVE  \A d \in opened' : d \in opened \/ \E i \in DOMAIN a : a[i] = d
<1>1. opened' = opened \cup {a[i] : i \in 1 .. k}
  BY DEF ConnectLoop
<1>2. \A i \in 1 .. k : i \in DOMAIN a
  OBVIOUS
<1>3. QED
  BY <1>1, <1>2

\* A step that keeps the list and connects nobody else keeps the invariant.
LEMMA ListInvFrame ==
  ASSUME ListIInv, device_address' = device_address,
         opened' \subseteq Listed
  PROVE  ListIInv'
BY DEF ListIInv, ConnectedAreListed, Listed

\* The command "connect", wherever it stops.
LEMMA ConnectInv ==
  ASSUME ListIInv, NEW c, Connect(c)
  PROVE  ListIInv'
<1>1. PICK k \in 0 .. Len(device_address), r \in BOOLEAN : ConnectLoop(device_address, k, r)
  BY DEF Connect
<1>2. device_address' = device_address
  BY DEF Connect, listVars
<1>3. opened' \subseteq Listed
  <2>1. \A d \in opened' : d \in opened
                                \/ \E i \in DOMAIN device_address : device_address[i] = d
    BY <1>1, ConnectLoopListed DEF ListIInv
  <2>2. QED
    BY <2>1 DEF ListIInv, ConnectedAreListed, Listed
<1>4. QED
  BY <1>2, <1>3, ListInvFrame

\* The command "disconnect", wherever it stops.
LEMMA DisconnectInv ==
  ASSUME ListIInv, NEW c, Disconnect(c)
  PROVE  ListIInv'
<1>1. PICK j \in 0 .. (Len(device_address) + 1) \div 2 :
        /\ opened' = opened \ {device_address[2 * i - 1] : i \in 1 .. j}
        /\ device_address' = Skipped(device_address, j)
  BY DEF Disconnect
<1>2. device_address \in Seq(Devices)
  BY DEF ListIInv
<1>3. device_address' \in Seq(Devices)
  BY <1>1, <1>2, SkippedSeq
<1>4. /\ \A p \in DOMAIN device_address :
            \/ \E i \in 1 .. j : device_address[p] = device_address[2 * i - 1]
            \/ \E i \in DOMAIN device_address' : device_address'[i] = device_address[p]
      /\ \A p, q \in DOMAIN device_address' :
            device_address'[p] = device_address'[q] => p = q
  BY <1>1, <1>2, SkippedKeeps DEF ListIInv, ConnectedAreListed
<1>5. opened' \subseteq Listed'
  <2> SUFFICES ASSUME NEW d \in opened'
               PROVE  d \in Listed'
    OBVIOUS
  <2>1. PICK p \in DOMAIN device_address : device_address[p] = d
    BY <1>1 DEF ListIInv, ConnectedAreListed, Listed
  <2>2. ~ \E i \in 1 .. j : device_address[p] = device_address[2 * i - 1]
    BY <1>1, <2>1
  <2>3. QED
    BY <1>4, <2>1, <2>2 DEF Listed
<1>6. QED
  BY <1>3, <1>4, <1>5 DEF ListIInv, ConnectedAreListed

\* A signal that lists a device and connects everything on the list.
LEMMA PropertiesChangedInv ==
  ASSUME ListIInv, NEW d \in Devices, PropertiesChanged(d)
  PROVE  ListIInv'
<1>1. CASE /\ d \notin Listed
           /\ device_address' = Append(device_address, d)
           /\ \E k \in 0 .. Len(device_address'), r \in BOOLEAN : ConnectLoop(device_address', k, r)
  <2>1. device_address \in Seq(Devices) /\ device_address' \in Seq(Devices)
    BY <1>1 DEF ListIInv
  <2>2. /\ DOMAIN device_address = 1 .. Len(device_address)
        /\ DOMAIN device_address' = 1 .. Len(device_address) + 1
        /\ \A i \in DOMAIN device_address : device_address'[i] = device_address[i]
        /\ device_address'[Len(device_address) + 1] = d
    BY <1>1, <2>1
  <2>3. \A e \in opened' : \/ e \in opened
                              \/ \E i \in DOMAIN device_address' : device_address'[i] = e
    BY <1>1, <2>1, ConnectLoopListed
  <2>4. opened' \subseteq Listed'
    <3>1. \A e \in opened : \E i \in DOMAIN device_address : device_address[i] = e
      BY DEF ListIInv, ConnectedAreListed, Listed
    <3>2. \A i \in DOMAIN device_address : i \in DOMAIN device_address'
      BY <2>1, <2>2
    <3>3. QED
      BY <2>2, <2>3, <3>1, <3>2 DEF Listed
  <2>5. \A p, q \in DOMAIN device_address' :
          device_address'[p] = device_address'[q] => p = q
    <3>1. \A i \in DOMAIN device_address : device_address[i] # d
      BY <1>1 DEF Listed
    <3>2. \A p \in DOMAIN device_address' :
            p \in DOMAIN device_address \/ p = Len(device_address) + 1
      BY <2>1, <2>2
    <3>3. \A p, q \in DOMAIN device_address : device_address[p] = device_address[q] => p = q
      BY DEF ListIInv, ConnectedAreListed
    <3>4. QED
      BY <2>2, <3>1, <3>2, <3>3
  <2>6. QED
    BY <2>1, <2>4, <2>5 DEF ListIInv, ConnectedAreListed
<1>2. CASE device_address' = device_address /\ opened' = opened
  BY <1>2, ListInvFrame DEF ListIInv, ConnectedAreListed
<1>3. QED
  BY <1>1, <1>2 DEF PropertiesChanged, bluezVars

\* Every command keeps the invariant.
LEMMA ExecuteInv ==
  ASSUME ListIInv, NEW c, Execute(c)
  PROVE  ListIInv'
<1>1. CASE Connect(c)
  BY <1>1, ConnectInv
<1>2. CASE Disconnect(c)
  BY <1>2, DisconnectInv
<1>3. CASE device_address' = device_address /\ opened' = opened
  BY <1>3, ListInvFrame DEF ListIInv, ConnectedAreListed
<1>4. \A start \in BOOLEAN : Discovery(c, start) =>
        device_address' = device_address /\ opened' = opened
  BY DEF Discovery
<1>5. \A chrc : ReadChrc(c, chrc) =>
        device_address' = device_address /\ opened' = opened
  BY DEF ReadChrc, listVars, bluezVars
<1>6. WriteLed(c) \/ OnlyPrints(c) \/ Quit(c) =>
        device_address' = device_address /\ opened' = opened
  BY DEF WriteLed, OnlyPrints, Quit, listVars, bluezVars
<1>7. QED
  BY <1>1, <1>2, <1>3, <1>4, <1>5, <1>6 DEF Execute

\* Every step keeps the invariant.
LEMMA ListNextInv == ListIInv /\ [VoiceNext]_voiceVars => ListIInv'
<1> SUFFICES ASSUME ListIInv, [VoiceNext]_voiceVars
             PROVE  ListIInv'
  OBVIOUS
<1>1. ASSUME NEW c \in Commands \cup {Silence}, Say(c)
      PROVE  ListIInv'
  BY <1>1, ExecuteInv DEF Say
<1>2. CASE NotUnderstood
  BY <1>2, ExecuteInv DEF NotUnderstood
<1>3. ASSUME NEW d \in Devices, PropertiesChanged(d)
      PROVE  ListIInv'
  BY <1>3, PropertiesChangedInv
<1>4. CASE device_address' = device_address /\ opened' \subseteq opened
  BY <1>4, ListInvFrame DEF ListIInv, ConnectedAreListed
<1>5. Interrupt \/ MicrophoneFails \/ UNCHANGED voiceVars =>
        device_address' = device_address /\ opened' \subseteq opened
  BY DEF Interrupt, MicrophoneFails, voiceVars, listVars, bluezVars
<1>6. \A d \in Devices : Discovered(d) \/ ServicesResolved(d) \/ DeviceLost(d) \/ Forgotten(d)
        => device_address' = device_address /\ opened' \subseteq opened
  BY DEF Discovered, ServicesResolved, DeviceLost, Forgotten, listVars
<1>7. QED
  BY <1>1, <1>2, <1>3, <1>4, <1>5, <1>6 DEF VoiceNext

(***************************************************************************)
(* Every device the program connected is on device_address, once, wherever *)
(* connect() and disconnect() were stopped: the list is a handle on all of *)
(* them.                                                                   *)
(***************************************************************************)
THEOREM NoneOutOfReach == VoiceSpec => []ConnectedAreListed
<1>1. ASSUME VoiceInit
      PROVE  ListIInv
  <2>1. device_address = <<>> /\ opened = {}
    BY <1>1 DEF VoiceInit
  <2>2. device_address \in Seq(Devices) /\ DOMAIN device_address = 1 .. 0
    BY <2>1
  <2>3. QED
    BY <2>1, <2>2 DEF ListIInv, ConnectedAreListed, Listed
<1>2. ListIInv => ConnectedAreListed
  BY DEF ListIInv
<1>3. QED
  BY <1>1, <1>2, ListNextInv, PTL DEF VoiceSpec

------------------------------------------------------------------------------
\* An activation that executed a command never listens again, so that an utterance
\* that is not understood, or a microphone that fails, finds no command in hand.
SilentAtFirst == phase = "listening" => command = Silence

\* However a command ends, it does not listen with a command in hand.
LEMMA EndsClean ==
  ASSUME NEW c, Completes(c) \/ Dies(c) \/ Interrupted(c)
  PROVE  phase' = "listening" => command' = Silence
BY DEF Completes, Dies, Interrupted, Returns, Raises

\* Every command ends in one of these ways, or the program.
LEMMA ExecuteEnds ==
  ASSUME NEW c, Execute(c)
  PROVE  phase' = "listening" => command' = Silence
<1>1. CASE Connect(c)
  BY <1>1, EndsClean DEF Connect
<1>2. CASE Disconnect(c)
  BY <1>2, EndsClean DEF Disconnect
<1>3. \A start \in BOOLEAN : Discovery(c, start) => Completes(c) \/ Dies(c)
  BY DEF Discovery
<1>4. \A chrc : ReadChrc(c, chrc) => Completes(c) \/ Dies(c)
  BY DEF ReadChrc
<1>5. WriteLed(c) \/ OnlyPrints(c) => Completes(c) \/ Dies(c)
  BY DEF WriteLed, OnlyPrints
<1>6. CASE Quit(c)
  BY <1>6 DEF Quit
<1>7. CASE Completes(c) \/ Dies(c)
  BY <1>7, EndsClean
<1>8. QED
  BY <1>1, <1>2, <1>3, <1>4, <1>5, <1>6, <1>7 DEF Execute

\* input_loop() listens with an empty command only.
LEMMA ListensSilent == VoiceSpec => []SilentAtFirst
<1>1. VoiceInit => SilentAtFirst
  BY DEF VoiceInit, SilentAtFirst
<1>2. SilentAtFirst /\ [VoiceNext]_voiceVars => SilentAtFirst'
  <2> SUFFICES ASSUME SilentAtFirst, [VoiceNext]_voiceVars
               PROVE  SilentAtFirst'
    OBVIOUS
  <2>1. ASSUME NEW c \in Commands \cup {Silence}, Say(c)
        PROVE  SilentAtFirst'
    BY <2>1, ExecuteEnds DEF Say, SilentAtFirst
  <2>2. CASE NotUnderstood
    BY <2>2, ExecuteEnds DEF NotUnderstood, SilentAtFirst
  <2>3. CASE Interrupt
    BY <2>3, EndsClean DEF Interrupt, SilentAtFirst
  <2>4. CASE MicrophoneFails
    BY <2>4, EndsClean DEF MicrophoneFails, SilentAtFirst
  <2>5. CASE phase' = phase /\ command' = command
    BY <2>5 DEF SilentAtFirst
  <2>6. \A d \in Devices :
          PropertiesChanged(d) \/ Discovered(d) \/ ServicesResolved(d)
            \/ DeviceLost(d) \/ Forgotten(d) => phase' = phase /\ command' = command
    BY DEF PropertiesChanged, Discovered, ServicesResolved, DeviceLost, Forgotten, loopVars
  <2>7. UNCHANGED voiceVars => phase' = phase /\ command' = command
    BY DEF voiceVars, loopVars
  <2>8. QED
    BY <2>1, <2>2, <2>3, <2>4, <2>5, <2>6, <2>7 DEF VoiceNext
<1>3. QED
  BY <1>1, <1>2, PTL DEF VoiceSpec

------------------------------------------------------------------------------
\* disconnect() takes a device off the list only when it has disconnected it.
LEMMA DisconnectHeard ==
  ASSUME ListIInv, HeardAreListed, NEW c, Disconnect(c)
  PROVE  HeardAreListed'
<1>1. PICK j \in 0 .. (Len(device_address) + 1) \div 2 :
        /\ heard' = heard \ {device_address[2 * i - 1] : i \in 1 .. j}
        /\ device_address' = Skipped(device_address, j)
  BY DEF Disconnect
<1>2. devices' = devices
  BY DEF Disconnect
<1>3. \A p \in DOMAIN device_address :
        \/ \E i \in 1 .. j : device_address[p] = device_address[2 * i - 1]
        \/ \E i \in DOMAIN device_address' : device_address'[i] = device_address[p]
  BY <1>1, SkippedKeeps DEF ListIInv, ConnectedAreListed
<1>4. SUFFICES ASSUME NEW d \in heard' \cap devices'
               PROVE  d \in Listed'
  BY DEF HeardAreListed
<1>5. PICK p \in DOMAIN device_address : device_address[p] = d
  BY <1>1, <1>2 DEF HeardAreListed, Listed
<1>6. ~ \E i \in 1 .. j : device_address[p] = device_address[2 * i - 1]
  BY <1>1, <1>5
<1>7. QED
  BY <1>3, <1>5, <1>6 DEF Listed

\* properties_changed() lists the device before connect() can raise.
LEMMA PropertiesChangedHeard ==
  ASSUME ListIInv, HeardAreListed, NEW d \in Devices, PropertiesChanged(d)
  PROVE  HeardAreListed'
<1>1. heard' = heard \cup {d} /\ devices' = devices
  BY DEF PropertiesChanged
<1>2. CASE device_address' = Append(device_address, d)
  <2>1. /\ DOMAIN device_address' = 1 .. Len(device_address) + 1
        /\ DOMAIN device_address = 1 .. Len(device_address)
        /\ Len(device_address) \in Nat
        /\ \A i \in DOMAIN device_address : device_address'[i] = device_address[i]
        /\ device_address'[Len(device_address) + 1] = d
    BY <1>2 DEF ListIInv
  <2>2. Listed \subseteq Listed' /\ d \in Listed'
    BY <2>1 DEF Listed
  <2>3. QED
    BY <1>1, <2>2 DEF HeardAreListed
<1>3. CASE device_address' = device_address /\ (d \notin devices \/ d \in Listed)
  BY <1>1, <1>3 DEF HeardAreListed, Listed
<1>4. QED
  BY <1>2, <1>3 DEF PropertiesChanged

(***************************************************************************)
(* A device known at the start that made itself heard stays on the list    *)
(* until disconnect() disconnected it, whatever raised or was interrupted. *)
(***************************************************************************)
THEOREM HeardStayListed == VoiceSpec => []HeardAreListed
<1>1. VoiceInit => ListIInv /\ HeardAreListed
  <2> SUFFICES ASSUME VoiceInit
               PROVE  ListIInv /\ HeardAreListed
    OBVIOUS
  <2>1. device_address = <<>> /\ opened = {} /\ heard = {}
    BY DEF VoiceInit
  <2>2. device_address \in Seq(Devices) /\ DOMAIN device_address = 1 .. 0
    BY <2>1
  <2>3. QED
    BY <2>1, <2>2 DEF ListIInv, ConnectedAreListed, Listed, HeardAreListed
<1>2. ListIInv /\ HeardAreListed /\ [VoiceNext]_voiceVars => HeardAreListed'
  <2> SUFFICES ASSUME ListIInv, HeardAreListed, [VoiceNext]_voiceVars
               PROVE  HeardAreListed'
    OBVIOUS
  <2>1. CASE UNCHANGED <<device_address, devices, heard>>
    BY <2>1 DEF HeardAreListed, Listed
  <2>2. ASSUME NEW c, Execute(c)
        PROVE  HeardAreListed'
    <3>1. CASE Disconnect(c)
      BY <3>1, DisconnectHeard
    <3>2. \A start \in BOOLEAN : Discovery(c, start) => UNCHANGED <<device_address, devices, heard>>
      BY DEF Discovery
    <3>3. Connect(c) \/ WriteLed(c) \/ OnlyPrints(c) \/ Quit(c)
            => UNCHANGED <<device_address, devices, heard>>
      BY DEF Connect, WriteLed, OnlyPrints, Quit, listVars
    <3>4. \A chrc : ReadChrc(c, chrc) => UNCHANGED <<device_address, devices, heard>>
      BY DEF ReadChrc, listVars
    <3>5. QED
      BY <2>1, <2>2, <3>1, <3>2, <3>3, <3>4 DEF Execute
  <2>3. ASSUME NEW d \in Devices, PropertiesChanged(d)
        PROVE  HeardAreListed'
    BY <2>3, PropertiesChangedHeard
  <2>4. Interrupt \/ MicrophoneFails \/ UNCHANGED voiceVars
          => UNCHANGED <<device_address, devices, heard>>
    BY DEF Interrupt, MicrophoneFails, voiceVars, listVars
  <2>5. \A d \in Devices : Discovered(d) \/ ServicesResolved(d) \/ DeviceLost(d) \/ Forgotten(d)
          => UNCHANGED <<device_address, devices, heard>>
    BY DEF Discovered, ServicesResolved, DeviceLost, Forgotten, listVars
  <2>6. QED
    BY <2>1, <2>2, <2>3, <2>4, <2>5 DEF VoiceNext, Say, NotUnderstood
<1>3. QED
  BY <1>1, <1>2, ListNextInv, PTL DEF VoiceSpec

------------------------------------------------------------------------------
\* Types, in the three parts that different steps touch.

LoopTypes ==
    /\ phase \in {"listening", "running", "ended", "crashed"}
    /\ depth \in 0 .. MaxDepth
    /\ command \in Commands \cup {Silence}

FlagTypes == watching \in BOOLEAN /\ scanning \in BOOLEAN

DeviceTypes ==
    /\ devices \subseteq Devices /\ heard \subseteq Devices
    /\ {ess_msrmt_chrc, custom_led_chrc} \subseteq Devices \cup {NULL}
    /\ connected \subseteq objects /\ resolved \subseteq objects
    /\ opened \subseteq connected /\ objects \subseteq Devices

\* connect() connects, and BlueZ resolves, devices that have an object only.
LEMMA ConnectLoopTypes ==
  ASSUME DeviceTypes, NEW a, NEW k \in Nat, NEW r, ConnectLoop(a, k, r)
  PROVE  /\ connected' \subseteq objects' /\ resolved' \subseteq objects'
         /\ opened' \subseteq connected'
         /\ objects' = objects /\ scanning' = scanning
         /\ {ess_msrmt_chrc', custom_led_chrc'} \subseteq Devices \cup {NULL}
<1>1. /\ objects' = objects /\ scanning' = scanning
      /\ connected' \subseteq objects' /\ opened' \subseteq connected'
  BY DEF ConnectLoop, DeviceTypes
<1>2. PICK now \in SUBSET connected', all \in BOOLEAN :
        (resolved' = resolved \cup now) /\ (UNCHANGED chrcVars \/ GetCharacteristicPath(resolved \cup now, all))
  <2>1. (r \/ (k > 1 /\ resolved # {})) \in BOOLEAN
    OBVIOUS
  <2>2. QED
    BY <2>1 DEF ConnectLoop
<1>3. resolved' \subseteq objects'
  BY <1>1, <1>2 DEF DeviceTypes
<1>4. {ess_msrmt_chrc', custom_led_chrc'} \subseteq Devices \cup {NULL}
  BY <1>1, <1>2, <1>3 DEF DeviceTypes, GetCharacteristicPath, chrcVars
<1>5. QED
  BY <1>1, <1>3, <1>4

\* However a command ends, the loop's variables keep their types.
LEMMA EndTypes ==
  ASSUME LoopTypes, NEW c \in Commands \cup {Silence}, Completes(c) \/ Dies(c) \/ Interrupted(c)
  PROVE  LoopTypes'
<1>1. MaxDepth \in Nat /\ depth \in 0 .. MaxDepth
  BY VoiceAssumption DEF LoopTypes
<1>2. /\ phase' \in {"listening", "running", "crashed"}
      /\ command' = c \/ command' = Silence
      /\ depth' = depth \/ (depth < MaxDepth /\ depth' = depth + 1)
  BY DEF Completes, Dies, Interrupted, Returns, Raises
<1>3. depth' \in 0 .. MaxDepth
  BY <1>1, <1>2
<1>4. command' \in Commands \cup {Silence}
  BY <1>2
<1>5. QED
  BY <1>2, <1>3, <1>4 DEF LoopTypes

\* Every command keeps the types.
LEMMA ExecuteTypes ==
  ASSUME ListIInv, LoopTypes, FlagTypes, DeviceTypes, NEW c \in Commands \cup {Silence}, Execute(c)
  PROVE  LoopTypes' /\ FlagTypes' /\ DeviceTypes'
<1>1. CASE Connect(c)
  <2>1. PICK k \in 0 .. Len(device_address), r \in BOOLEAN : ConnectLoop(device_address, k, r)
    BY <1>1 DEF Connect
  <2>2. k \in Nat
    BY DEF ListIInv
  <2>3. /\ connected' \subseteq objects' /\ resolved' \subseteq objects'
        /\ opened' \subseteq connected'
        /\ objects' = objects /\ scanning' = scanning
        /\ {ess_msrmt_chrc', custom_led_chrc'} \subseteq Devices \cup {NULL}
    BY <2>1, <2>2, ConnectLoopTypes
  <2>4. UNCHANGED listVars /\ (Completes(c) \/ Dies(c) \/ Interrupted(c))
    BY <1>1 DEF Connect
  <2>5. FlagTypes'
    BY <2>3, <2>4 DEF FlagTypes, listVars
  <2>6. DeviceTypes'
    BY <2>3, <2>4 DEF DeviceTypes, listVars
  <2>7. QED
    BY <2>4, <2>5, <2>6, EndTypes
<1>2. CASE Disconnect(c)
  <2>1. /\ connected' \subseteq connected /\ heard' \subseteq heard
        /\ opened \subseteq connected => opened' \subseteq connected'
        /\ UNCHANGED <<devices, watching, chrcVars, scanning, objects, resolved>>
        /\ Completes(c) \/ Dies(c) \/ Interrupted(c)
    BY <1>2 DEF Disconnect
  <2>2. FlagTypes'
    BY <2>1 DEF FlagTypes
  <2>3. DeviceTypes'
    BY <2>1 DEF DeviceTypes, chrcVars
  <2>4. QED
    BY <2>1, <2>2, <2>3, EndTypes
<1>3. ASSUME NEW start \in BOOLEAN, Discovery(c, start)
      PROVE  LoopTypes' /\ FlagTypes' /\ DeviceTypes'
  <2>1. /\ watching' = TRUE /\ (scanning' = scanning \/ scanning' = start)
        /\ UNCHANGED <<devices, heard, chrcVars, objects, connected, resolved, opened>>
        /\ Completes(c) \/ Dies(c)
    BY <1>3 DEF Discovery
  <2>2. FlagTypes'
    BY <2>1 DEF FlagTypes
  <2>3. DeviceTypes'
    BY <2>1 DEF DeviceTypes, chrcVars
  <2>4. QED
    BY <2>1, <2>2, <2>3, EndTypes
<1>4. ASSUME UNCHANGED listVars, UNCHANGED chrcVars, UNCHANGED bluezVars
      PROVE  FlagTypes' /\ DeviceTypes'
  BY <1>4 DEF FlagTypes, DeviceTypes, listVars, chrcVars, bluezVars
<1>5. \A chrc : ReadChrc(c, chrc) =>
        /\ UNCHANGED listVars /\ UNCHANGED chrcVars /\ UNCHANGED bluezVars
        /\ Completes(c) \/ Dies(c)
  BY DEF ReadChrc
<1>6. WriteLed(c) \/ OnlyPrints(c) =>
        /\ UNCHANGED listVars /\ UNCHANGED chrcVars /\ UNCHANGED bluezVars
        /\ Completes(c) \/ Dies(c)
  BY DEF WriteLed, OnlyPrints
<1>7. Quit(c) => /\ UNCHANGED listVars /\ UNCHANGED chrcVars /\ UNCHANGED bluezVars
                 /\ LoopTypes'
  <2>1. 0 \in 0 .. MaxDepth
    BY VoiceAssumption
  <2>2. QED
    BY <2>1 DEF Quit, LoopTypes
<1>8. QED
  BY <1>1, <1>2, <1>3, <1>4, <1>5, <1>6, <1>7, EndTypes DEF Execute

\* Type correctness: the depth of nesting stays within Python's limit, BlueZ
\* connects and resolves what has an object, the proxies are of known devices.
THEOREM VoiceTypeCorrect == VoiceSpec => []VoiceTypeOK
<1> DEFINE Types == LoopTypes /\ FlagTypes /\ DeviceTypes
<1>1. VoiceInit => ListIInv /\ Types
  <2> SUFFICES ASSUME VoiceInit
               PROVE  ListIInv /\ Types
    OBVIOUS
  <2>1. device_address = <<>> /\ opened = {}
    BY DEF VoiceInit
  <2>2. device_address \in Seq(Devices) /\ DOMAIN device_address = 1 .. 0
    BY <2>1
  <2>3. ListIInv
    BY <2>1, <2>2 DEF ListIInv, ConnectedAreListed, Listed
  <2>4. LoopTypes
    <3>1. 0 \in 0 .. MaxDepth
      BY VoiceAssumption
    <3>2. QED
      BY <3>1 DEF VoiceInit, LoopTypes
  <2>5. FlagTypes /\ DeviceTypes
    BY DEF VoiceInit, FlagTypes, DeviceTypes
  <2>6. QED
    BY <2>3, <2>4, <2>5
<1>2. ListIInv /\ Types /\ [VoiceNext]_voiceVars => Types'
  <2> SUFFICES ASSUME ListIInv, Types, [VoiceNext]_voiceVars
               PROVE  Types'
    OBVIOUS
  <2>1. ASSUME NEW c \in Commands \cup {Silence}, Execute(c)
        PROVE  Types'
    BY <2>1, ExecuteTypes
  <2>2. command \in Commands \cup {Silence}
    BY DEF LoopTypes
  <2>3. CASE Interrupt \/ MicrophoneFails
    <3>1. LoopTypes'
      BY <2>2, <2>3, EndTypes DEF Interrupt, MicrophoneFails
    <3>2. FlagTypes' /\ DeviceTypes'
      BY <2>3 DEF Interrupt, MicrophoneFails, FlagTypes, DeviceTypes, listVars, chrcVars,
                  bluezVars
    <3>3. QED
      BY <3>1, <3>2
  <2>4. ASSUME NEW d \in Devices, PropertiesChanged(d)
        PROVE  Types'
    <3>1. /\ UNCHANGED loopVars /\ UNCHANGED <<devices, watching>> /\ heard' = heard \cup {d}
      BY <2>4 DEF PropertiesChanged
    <3>2. CASE \E k \in 0 .. Len(device_address'), r \in BOOLEAN : ConnectLoop(device_address', k, r)
      <4>1. PICK k \in Nat, r \in BOOLEAN : ConnectLoop(device_address', k, r)
        BY <3>2
      <4>2. /\ connected' \subseteq objects' /\ resolved' \subseteq objects'
            /\ opened' \subseteq connected'
            /\ objects' = objects /\ scanning' = scanning
            /\ {ess_msrmt_chrc', custom_led_chrc'} \subseteq Devices \cup {NULL}
        BY <4>1, ConnectLoopTypes
      <4>3. LoopTypes' /\ FlagTypes'
        BY <3>1, <4>2 DEF LoopTypes, FlagTypes, loopVars
      <4>4. DeviceTypes'
        BY <3>1, <4>2 DEF DeviceTypes
      <4>5. QED
        BY <4>3, <4>4
    <3>3. CASE UNCHANGED <<chrcVars, bluezVars>>
      <4>1. LoopTypes' /\ FlagTypes'
        BY <3>1, <3>3 DEF LoopTypes, FlagTypes, loopVars, bluezVars
      <4>2. DeviceTypes'
        BY <3>1, <3>3 DEF DeviceTypes, chrcVars, bluezVars
      <4>3. QED
        BY <4>1, <4>2
    <3>4. QED
      BY <2>4, <3>2, <3>3 DEF PropertiesChanged
  <2>5. ASSUME NEW d \in Devices,
               Discovered(d) \/ ServicesResolved(d) \/ DeviceLost(d) \/ Forgotten(d)
        PROVE  Types'
    <3>1. /\ UNCHANGED loopVars /\ UNCHANGED listVars /\ UNCHANGED chrcVars
          /\ scanning' = scanning
      BY <2>5 DEF Discovered, ServicesResolved, DeviceLost, Forgotten
    <3>2. /\ connected' \subseteq objects' /\ resolved' \subseteq objects'
          /\ opened' \subseteq connected' /\ objects' \subseteq Devices
      BY <2>5 DEF Discovered, ServicesResolved, DeviceLost, Forgotten, DeviceTypes
    <3>3. LoopTypes' /\ FlagTypes'
      BY <3>1 DEF LoopTypes, FlagTypes, loopVars, listVars
    <3>4. DeviceTypes'
      BY <3>1, <3>2 DEF DeviceTypes, listVars, chrcVars
    <3>5. QED
      BY <3>3, <3>4
  <2>6. CASE UNCHANGED voiceVars
    <3>1. LoopTypes' /\ FlagTypes'
      BY <2>6 DEF voiceVars, LoopTypes, FlagTypes, loopVars, listVars, bluezVars
    <3>2. DeviceTypes'
      BY <2>6 DEF voiceVars, DeviceTypes, listVars, chrcVars, bluezVars
    <3>3. QED
      BY <3>1, <3>2
  <2>7. QED
    BY <2>1, <2>2, <2>3, <2>4, <2>5, <2>6 DEF VoiceNext, Say, NotUnderstood
<1>3. ListIInv /\ Types => VoiceTypeOK
  BY Zenon DEF ListIInv, LoopTypes, FlagTypes, DeviceTypes, VoiceTypeOK
<1> HIDE DEF Types
<1>4. QED
  BY <1>1, <1>2, <1>3, ListNextInv, PTL DEF VoiceSpec

------------------------------------------------------------------------------
\* What ends the program

\* An interrupt ends it at the recursion limit only, with a command variable that is
\* still empty; a command that completes does not.
LEMMA InterruptDies ==
  ASSUME VoiceTypeOK, NEW c, Completes(c) \/ Interrupted(c), phase' = "crashed"
  PROVE  Fatal(command')
<1>1. depth \in 0 .. MaxDepth /\ MaxDepth \in Nat
  BY VoiceAssumption DEF VoiceTypeOK
<1>2. Interrupted(c) /\ ~(depth < MaxDepth)
  BY DEF Completes, Interrupted, Returns
<1>3. depth = MaxDepth /\ command' = Silence
  BY <1>1, <1>2 DEF Interrupted
<1>4. QED
  BY <1>3 DEF Fatal

\* connect() raises for a listed device without an object, or a call that failed.
LEMMA ConnectDies ==
  ASSUME VoiceTypeOK, Connect("connect"), phase' = "crashed"
  PROVE  Fatal(command')
<1>1. PICK k \in 0 .. Len(device_address), r \in BOOLEAN :
        \/ Completes("connect") \/ Interrupted("connect")
        \/ ConnectRaises(device_address, k, r) /\ Dies("connect")
  BY DEF Connect
<1>2. CASE Completes("connect") \/ Interrupted("connect")
  BY <1>2, InterruptDies
<1>3. CASE ConnectRaises(device_address, k, r) /\ Dies("connect")
  <2>1. command' = "connect"
    BY <1>3 DEF Dies
  <2>2. CASE device_address[k + 1] \notin objects /\ k < Len(device_address)
    <3>1. k + 1 \in DOMAIN device_address
      BY <2>2 DEF VoiceTypeOK
    <3>2. ~(Listed \subseteq objects)
      BY <2>2, <3>1 DEF Listed
    <3>3. QED
      BY <2>1, <3>2 DEF Fatal
  <2>3. CASE {"connect", "chrc"} \cap MayFail # {}
    BY <2>1, <2>3 DEF Fatal
  <2>4. QED
    BY <1>3, <2>2, <2>3 DEF ConnectRaises
<1>4. QED
  BY <1>1, <1>2, <1>3

\* disconnect() raises for a listed device that is not connected.
LEMMA DisconnectDies ==
  ASSUME VoiceTypeOK, Disconnect("disconnect"), phase' = "crashed"
  PROVE  Fatal(command')
<1>1. PICK j \in 0 .. (Len(device_address) + 1) \div 2 :
        \/ Completes("disconnect") \/ Interrupted("disconnect")
        \/ /\ 2 * j + 1 <= Len(device_address)
           /\ device_address[2 * j + 1] \notin connected \/ "disconnect" \in MayFail
           /\ Dies("disconnect")
  BY DEF Disconnect
<1>2. CASE Completes("disconnect") \/ Interrupted("disconnect")
  BY <1>2, InterruptDies
<1>3. CASE /\ 2 * j + 1 <= Len(device_address)
           /\ device_address[2 * j + 1] \notin connected
           /\ Dies("disconnect")
  <2>1. 2 * j + 1 \in DOMAIN device_address
    <3>1. Len(device_address) \in Nat /\ DOMAIN device_address = 1 .. Len(device_address)
      BY DEF VoiceTypeOK
    <3>2. j \in Nat
      BY <1>1, <3>1
    <3>3. QED
      BY <1>3, <3>1, <3>2
  <2>2. ~(Listed \subseteq connected) /\ command' = "disconnect"
    BY <1>3, <2>1 DEF Listed, Dies
  <2>3. QED
    BY <2>2 DEF Fatal
<1>4. CASE "disconnect" \in MayFail /\ Dies("disconnect")
  BY <1>4 DEF Fatal, Dies
<1>5. QED
  BY <1>1, <1>2, <1>3, <1>4

\* Each command has reasons of its own.
LEMMA ExecuteDies ==
  ASSUME VoiceTypeOK, NEW c, Execute(c), phase' = "crashed"
  PROVE  Fatal(command')
<1>1. CASE c = "connect" /\ Connect(c)
  BY <1>1, ConnectDies
<1>2. CASE c = "disconnect" /\ Disconnect(c)
  BY <1>2, DisconnectDies
<1>3. CASE Completes(c)
  BY <1>3, InterruptDies
<1>4. ASSUME NEW start \in BOOLEAN, Discovery(c, start), c = IF start THEN "hello" ELSE "stop disc"
      PROVE  Fatal(command')
  <2>1. CASE Dies(c) /\ (scanning = start \/ "discovery" \in MayFail)
    <3>1. command' = c /\ c \in {"hello", "stop disc"} /\ (c = "hello") = start
      BY <1>4, <2>1 DEF Dies
    <3>2. QED
      BY <2>1, <3>1 DEF Fatal
  <2>2. QED
    BY <1>3, <1>4, <2>1 DEF Discovery
<1>5. CASE c = "temp" /\ ReadChrc(c, ess_msrmt_chrc)
  BY <1>3, <1>5 DEF ReadChrc, Dies, Fatal
<1>6. CASE c = "LED" /\ ReadChrc(c, custom_led_chrc)
  BY <1>3, <1>6 DEF ReadChrc, Dies, Fatal
<1>7. CASE c \in {"ON", "OFF"} /\ WriteLed(c)
  BY <1>7 DEF WriteLed, Dies, Fatal
<1>8. CASE OnlyPrints(c) \/ Quit(c)
  BY <1>3, <1>8 DEF OnlyPrints, Quit
<1>9. CASE c = "hello" /\ Discovery(c, TRUE)
  BY <1>4, <1>9
<1>10. CASE c = "stop disc" /\ Discovery(c, FALSE)
  BY <1>4, <1>10
<1>11. QED
  BY <1>1, <1>2, <1>5, <1>6, <1>7, <1>8, <1>9, <1>10 DEF Execute

(***************************************************************************)
(* Every exception that ends the program has its reason in the command     *)
(* that was executed, for any devices, any nesting and whatever may fail:  *)
(* where no call fails, "connect" ends it only for a listed device that    *)
(* BlueZ has forgotten, "disconnect" only for one that is not connected.   *)
(***************************************************************************)
THEOREM KnownDeaths == VoiceSpec => DiesOnlyOf
<1>1. VoiceTypeOK /\ SilentAtFirst /\ [VoiceNext]_voiceVars
        => [phase # "crashed" /\ phase' = "crashed" => Fatal(command')]_voiceVars
  <2> SUFFICES ASSUME VoiceTypeOK, SilentAtFirst, VoiceNext,
                      phase # "crashed", phase' = "crashed"
               PROVE  Fatal(command')
    OBVIOUS
  <2>1. ASSUME NEW c, Execute(c)
        PROVE  Fatal(command')
    BY <2>1, ExecuteDies
  <2>2. CASE Interrupt
    BY <2>2, InterruptDies DEF Interrupt
  <2>3. CASE MicrophoneFails
    BY <2>3 DEF MicrophoneFails, SilentAtFirst, Dies, Fatal
  <2>4. ASSUME NEW d \in Devices,
               \/ PropertiesChanged(d) \/ Discovered(d)
               \/ ServicesResolved(d) \/ DeviceLost(d) \/ Forgotten(d)
        PROVE  FALSE
    BY <2>4 DEF PropertiesChanged, Discovered, ServicesResolved, DeviceLost, Forgotten, loopVars
  <2>5. QED
    BY <2>1, <2>2, <2>3, <2>4 DEF VoiceNext, Say, NotUnderstood
<1>2. QED
  BY <1>1, VoiceTypeCorrect, ListensSilent, PTL DEF VoiceSpec, DiesOnlyOf

=============================================================================
