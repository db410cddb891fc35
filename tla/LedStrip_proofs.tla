---------------------------- MODULE LedStrip_proofs ----------------------------
(***************************************************************************)
(* Proofs about LedStrip, for strips of any length, any colours and any    *)
(* size of the RMT symbol memory.  First what the driver holds and how its *)
(* encoder sends the buffer; then bytes, pulses and hues, from which it    *)
(* follows that the LEDs show what was asked.                              *)
(***************************************************************************)
EXTENDS LedStrip, TLAPS, WellFoundedInduction

Total == strip_len * bytes_per_pixel

\* The colour bytes on the wire so far.
Sent(n) == [j \in 1 .. n |-> Value(pixel_buf[j - 1])]

\* A call that got past rmt_enable() is one of the RMT back end, whose channel
\* it holds enabled.
Channel ==
    /\ enabled => backend = "rmt"
    /\ call \in {"transmit", "encode", "sent"} => enabled
    /\ call # "idle" => backend # "none"

\* Between two calls, only a failure leaves the channel enabled.
Faults ==
    /\ result = "error" => failed \/ strip_len = 0
    /\ enabled /\ call \in {"idle", "refresh"} => failed \/ strip_len = 0

\* What a deletion that failed half way leaves.
NothingLost == "delete" \notin MayFail => leaked = {} /\ bus # "leaked"

(***************************************************************************)
(* Where the encoder is: between transmissions at its initial state, in    *)
(* one as far in the data as the wire is, after the data at the reset      *)
(* code with the whole buffer on the wire.                                 *)
(***************************************************************************)
Encoder ==
    /\ call # "encode" => state = 0 /\ last_byte = 0
    /\ call = "encode" => IF state = 0 THEN last_byte <= Total /\ wire = Sent(last_byte)
                                       ELSE last_byte = 0 /\ wire = Sent(Total)
    /\ call = "sent" => wire = Sent(Total)

\* The room for an interrupt is a whole number of colour bytes.
WholeBytes == free % 8 = 0

(***************************************************************************)
(* The inductive invariant.  HeldByHandle is inductive alone; WireInOrder  *)
(* says nothing of where the next interrupt goes on, which Encoder adds;   *)
(* that the reset code comes after all the data needs WholeBytes, because  *)
(* the encoder takes a memory it left partly free for the end of the data. *)
(* That a refresh fails only after a failure needs Faults, whose second    *)
(* part says when the channel is found enabled, and Channel for SPI.       *)
(***************************************************************************)
StripIInv ==
    /\ StripTypeOK /\ HeldByHandle /\ NothingLost
    /\ Channel /\ Faults /\ Encoder /\ WholeBytes

\* A strip of any format has a whole number of colour bytes.
LEMMA TotalNat == ASSUME StripTypeOK PROVE Total \in Nat
  BY DEF StripTypeOK, Total

\* What the error labels leave, at whatever step the creation fails.
LEMMA NothingLeft ==
    ASSUME NEW b \in {"rmt", "spi"}, NEW k \in DOMAIN Order(b)
    PROVE  Cleanup({Order(b)[j] : j \in 1 .. k - 1}) = {}
<1> DEFINE got == {Order(b)[j] : j \in 1 .. k - 1}
<1>1. CASE b = "rmt"
  <2>1. Order(b) = <<"strip", "channel", "encoder", "bytes", "copy">>
    BY <1>1 DEF Order
  <2>2. k \in 1 .. 5
    BY <2>1
  <2>3. got \subseteq RmtResources
    BY <2>1, <2>2 DEF RmtResources
  <2>4. "strip" \notin got => got = {}
    BY <2>1, <2>2
  <2>5. "encoder" \notin got => got \subseteq {"strip", "channel"}
    BY <2>1, <2>2
  <2>6. QED
    BY <2>3, <2>4, <2>5 DEF Cleanup, RmtResources
<1>2. CASE b = "spi"
  <2>1. Order(b) = <<"strip", "bus", "device", "clock">>
    BY <1>2 DEF Order
  <2>2. k \in 1 .. 4
    BY <2>1
  <2>3. got \subseteq {"strip", "bus", "device"}
    BY <2>1, <2>2
  <2>4. "strip" \notin got => got = {}
    BY <2>1, <2>2
  <2>5. QED
    BY <2>3, <2>4 DEF Cleanup
<1>3. QED
  BY <1>1, <1>2

\* The state before the first call satisfies the invariant.
LEMMA StripInitInv == StripInit => StripIInv
<1> SUFFICES ASSUME StripInit
             PROVE  StripIInv
  OBVIOUS
<1>1. StripTypeOK
  <2>1. enabled \in BOOLEAN
    BY DEF StripInit
  <2>2. DOMAIN pixel_buf = {}
    <3>1. pixel_buf = <<>>
      BY DEF StripInit
    <3>2. QED
      BY <3>1
  <2>3. backend = "none" /\ held = {} /\ strip_len = 0 /\ bytes_per_pixel = 3 /\ call = "idle"
        /\ state = 0 /\ last_byte = 0 /\ free = 0 /\ result = "none"
        /\ bus = "free" /\ leaked = {} /\ failed = FALSE
    BY DEF StripInit
  <2>4. QED
    BY <2>1, <2>2, <2>3 DEF StripTypeOK
<1>2. HeldByHandle /\ NothingLost
  BY DEF StripInit, HeldByHandle, NothingLost
<1>3. Channel /\ Faults
  BY SMT DEF StripInit, Channel, Faults
<1>4. Encoder
  BY DEF StripInit, Encoder
<1>5. WholeBytes
  BY DEF StripInit, WholeBytes
<1>6. QED
  BY <1>1, <1>2, <1>3, <1>4, <1>5 DEF StripIInv

\* A call that sets a pixel.
Colouring(i) ==
    \/ \E c \in Colors : SetPixel(i, c)
    \/ \E c \in Colors, w \in Whites : SetPixelRgbw(i, c, w)
    \/ \E hsv \in Hsvs : SetPixelHsv(i, hsv)

\* Setting a pixel touches nothing but the buffer and its history.
LEMMA ColouringOnlyStores ==
    ASSUME NEW i \in Indices, Colouring(i)
    PROVE  /\ Ready
           /\ UNCHANGED <<objVars, rmtVars, call, shown, failed>>
           /\ ((\E c : Store(i, c)) /\ result' = "none") \/ UNCHANGED <<pixel_buf, result>>
<1>1. ASSUME NEW c, NEW asked, Put(i, c, asked)
      PROVE  /\ Ready
             /\ UNCHANGED <<objVars, rmtVars, call, shown, failed>>
             /\ ((\E d : Store(i, d)) /\ result' = "none") \/ UNCHANGED <<pixel_buf, result>>
  BY <1>1 DEF Put
<1>2. QED
  BY <1>1 DEF Colouring, SetPixel, SetPixelRgbw, SetPixelHsv

\* Freeing a bus leaves it free, or where it was.
LEMMA BusKept ==
    ASSUME NEW owner
    PROVE  BusFreed(owner) \subseteq {"free", owner}
  BY DEF BusFreed

\* What a failed creation does: nothing but the bus is disturbed, and that one is
\* not taken.
LEMMA FailedCreation ==
    ASSUME StripIInv, NEW b \in {"rmt", "spi"}, NEW k \in DOMAIN Order(b), NewFails(b, k)
    PROVE  /\ backend = "none" /\ leaked' = leaked /\ bus' \in {"free", bus, "leaked"}
           /\ "delete" \notin MayFail => bus' \in {"free", bus}
           /\ UNCHANGED <<backend, held, strip_len, bytes_per_pixel, pixel_buf, rmtVars, call,
                          shown, wanted, result, failed>>
<1>1. leaked' = leaked
  BY NothingLeft DEF NewFails
<1>2. bus' \in {bus} \cup BusFreed(bus) \cup BusFreed("leaked")
  BY DEF NewFails
<1>3. "delete" \notin MayFail => BusFreed("leaked") = {"free"}
  BY DEF BusFreed
<1>4. QED
  BY <1>1, <1>2, <1>3, BusKept DEF NewFails

\* Creation, deletion and their failures keep what is held with the handle.
LEMMA HeldStep == StripIInv /\ [StripNext]_stripVars => HeldByHandle' /\ NothingLost'
<1> SUFFICES ASSUME StripIInv, [StripNext]_stripVars
             PROVE  HeldByHandle' /\ NothingLost'
  OBVIOUS
<1>1. HeldByHandle /\ NothingLost /\ StripTypeOK
  BY DEF StripIInv
<1>2. ASSUME NEW b \in {"rmt", "spi"}, NEW n \in Lens, NEW w \in {3, 4}, New(b, n, w)
      PROVE  HeldByHandle' /\ NothingLost'
  <2>1. /\ bus # "strip" /\ backend' = b /\ leaked' = leaked
        /\ held' = IF b = "rmt" THEN RmtResources ELSE SpiResources
    BY <1>1, <1>2 DEF New, HeldByHandle
  <2>2. IF b = "rmt" THEN bus' = bus ELSE bus' = "strip"
    BY <1>2 DEF New
  <2>3. QED
    BY <1>1, <2>1, <2>2 DEF HeldByHandle, NothingLost
<1>3. ASSUME NEW b \in {"rmt", "spi"}, NEW k \in DOMAIN Order(b), NewFails(b, k)
      PROVE  HeldByHandle' /\ NothingLost'
  BY <1>1, <1>3, FailedCreation DEF HeldByHandle, NothingLost
<1>4. CASE Del
  <2>1. held' = {} /\ backend' = "none" /\ leaked' \subseteq leaked \cup {"strip"}
    BY <1>4 DEF Del
  <2>2. bus' # "strip"
    BY <1>1, <1>4 DEF Del, HeldByHandle
  <2>3. "delete" \notin MayFail => leaked' = leaked /\ bus' \in {"free", bus}
    BY <1>4 DEF Del
  <2>4. QED
    BY <1>1, <2>1, <2>2, <2>3 DEF HeldByHandle, NothingLost
<1>5. ASSUME UNCHANGED objVars
      PROVE  HeldByHandle' /\ NothingLost'
  BY <1>1, <1>5 DEF HeldByHandle, NothingLost, objVars
<1>6. ASSUME NEW i \in Indices, Colouring(i)
      PROVE  HeldByHandle' /\ NothingLost'
  BY <1>5, <1>6, ColouringOnlyStores
<1>7. CASE OtherDriver
  BY <1>1, <1>7 DEF OtherDriver, HeldByHandle, NothingLost
<1>8. CASE Refresh \/ Clear \/ RmtEnable \/ RmtTransmit \/ RmtEncode \/ RmtDisable \/ SpiTransmit
  BY <1>5, <1>8 DEF Refresh, Clear, RmtEnable, RmtTransmit, RmtEncode, RmtDisable, SpiTransmit
<1>9. CASE UNCHANGED stripVars
  BY <1>5, <1>9 DEF stripVars
<1>10. QED
  BY <1>2, <1>3, <1>4, <1>6, <1>7, <1>8, <1>9 DEF StripNext, Colouring

\* Only a call past rmt_enable(), or one that failed there, leaves the channel
\* enabled.
LEMMA ChannelStep == StripIInv /\ [StripNext]_stripVars => Channel' /\ Faults'
<1> SUFFICES ASSUME StripIInv, [StripNext]_stripVars
             PROVE  Channel' /\ Faults'
  OBVIOUS
<1>1. Channel /\ Faults /\ call \in {"idle", "refresh", "transmit", "encode", "sent"}
  BY DEF StripIInv, StripTypeOK
<1>2. ASSUME NEW b \in {"rmt", "spi"}, NEW n \in Lens, NEW w \in {3, 4}, New(b, n, w)
      PROVE  Channel' /\ Faults'
  <2>1. backend' = b /\ enabled' = FALSE /\ call' = "idle" /\ result' = "none"
    BY <1>1, <1>2 DEF New, Channel
  <2>2. QED
    BY <2>1, SMT DEF Channel, Faults
<1>3. ASSUME UNCHANGED <<backend, enabled, call, strip_len, failed>>, result' \in {result, "none"}
      PROVE  Channel' /\ Faults'
  BY <1>1, <1>3 DEF Channel, Faults
<1>4. ASSUME NEW b \in {"rmt", "spi"}, NEW k \in DOMAIN Order(b), NewFails(b, k)
      PROVE  Channel' /\ Faults'
  BY <1>3, <1>4, FailedCreation DEF rmtVars
<1>5. CASE Del
  <2>1. enabled' = FALSE /\ call' = "idle" /\ result' = "none"
    BY <1>5 DEF Del, StripIInv, StripTypeOK, rmtVars
  <2>2. QED
    BY <2>1, SMT DEF Channel, Faults
<1>6. ASSUME NEW i \in Indices, Colouring(i)
      PROVE  Channel' /\ Faults'
  BY <1>3, <1>6, ColouringOnlyStores DEF objVars, rmtVars
<1>7. CASE OtherDriver
  BY <1>3, <1>7 DEF OtherDriver, rmtVars
<1>8. CASE Refresh \/ Clear
  <2>1. /\ backend # "none" /\ call = "idle" /\ call' = "refresh" /\ result' \in {result, "none"}
        /\ UNCHANGED <<backend, enabled, strip_len, failed>>
    BY <1>8 DEF Refresh, Clear, Ready, objVars, rmtVars
  <2>2. QED
    BY <1>1, <2>1 DEF Channel, Faults
<1>9. CASE RmtEnable
  <2>1. backend = "rmt" /\ UNCHANGED <<backend, strip_len>>
    BY <1>9 DEF RmtEnable, objVars
  <2>2. CASE call' = "transmit"
    BY <1>1, <1>9, <2>1, <2>2 DEF RmtEnable, Return, Channel, Faults
  <2>3. CASE enabled /\ call = "refresh" /\ Return("error", FALSE) /\ UNCHANGED enabled
    BY <1>1, <2>1, <2>3 DEF Return, Channel, Faults
  <2>4. CASE Return("error", TRUE) /\ UNCHANGED enabled
    BY <1>1, <2>1, <2>4 DEF Return, Channel, Faults
  <2>5. QED
    BY <1>9, <2>2, <2>3, <2>4 DEF RmtEnable
<1>10. CASE RmtTransmit
  <2>1. call = "transmit" /\ UNCHANGED <<backend, strip_len, enabled>>
    BY <1>10 DEF RmtTransmit, objVars
  <2>2. CASE call' = "encode" /\ UNCHANGED <<result, failed>>
    BY <1>1, <2>1, <2>2 DEF Channel, Faults
  <2>3. CASE strip_len = 0 /\ Return("error", FALSE)
    BY <1>1, <2>1, <2>3 DEF Return, Channel, Faults
  <2>4. CASE Return("error", TRUE)
    BY <1>1, <2>1, <2>4 DEF Return, Channel, Faults
  <2>5. QED
    BY <1>10, <2>2, <2>3, <2>4 DEF RmtTransmit
<1>11. CASE RmtEncode
  <2>1. /\ call = "encode" /\ call' \in {"encode", "sent"}
        /\ UNCHANGED <<backend, strip_len, enabled, result, failed>>
    BY <1>11 DEF RmtEncode, objVars
  <2>2. QED
    BY <1>1, <2>1 DEF Channel, Faults
<1>12. CASE RmtDisable
  <2>1. call = "sent" /\ UNCHANGED <<backend, strip_len>>
    BY <1>12 DEF RmtDisable, objVars
  <2>2. CASE enabled' = FALSE /\ Return("ok", FALSE)
    <3>1. enabled' = FALSE /\ call' = "idle" /\ result' = "ok"
      BY <2>2 DEF Return
    <3>2. QED
      BY <3>1, SMT DEF Channel, Faults
  <2>3. CASE Return("error", TRUE) /\ UNCHANGED enabled
    BY <1>1, <2>1, <2>3 DEF Return, Channel, Faults
  <2>4. QED
    BY <1>12, <2>2, <2>3 DEF RmtDisable
<1>13. CASE SpiTransmit
  <2>1. backend = "spi" /\ call' = "idle" /\ UNCHANGED <<backend, strip_len, enabled>>
    BY <1>13 DEF SpiTransmit, Return, objVars, rmtVars
  <2>2. result' = "ok" \/ failed'
    BY <1>13 DEF SpiTransmit, Return
  <2>3. QED
    BY <1>1, <2>1, <2>2 DEF Channel, Faults
<1>14. CASE UNCHANGED stripVars
  BY <1>3, <1>14 DEF stripVars, objVars, rmtVars
<1>15. QED
  BY <1>2, <1>4, <1>5, <1>6, <1>7, <1>8, <1>9, <1>10, <1>11, <1>12, <1>13, <1>14
     DEF StripNext, Colouring

\* An interrupt that encodes k bytes extends the wire by the next k of the buffer.
LEMMA ChunkExtends ==
    ASSUME StripTypeOK, NEW k \in Nat, wire = Sent(last_byte)
    PROVE  wire \o Chunk(k) = Sent(last_byte + k)
<1>1. last_byte \in Nat /\ last_byte + k \in Nat
  BY DEF StripTypeOK
<1>2. Len(wire) = last_byte /\ Len(Chunk(k)) = k
  BY <1>1 DEF Sent, Chunk
<1>3. wire \o Chunk(k) = [j \in 1 .. last_byte + k |->
                             IF j <= last_byte THEN wire[j] ELSE Chunk(k)[j - last_byte]]
  BY <1>2, <1>1 DEF Sent, Chunk
<1>4. ASSUME NEW j \in 1 .. last_byte + k
      PROVE  (IF j <= last_byte THEN wire[j] ELSE Chunk(k)[j - last_byte]) = Value(pixel_buf[j - 1])
  <2>1. CASE j <= last_byte
    BY <1>1, <2>1 DEF Sent
  <2>2. CASE ~(j <= last_byte)
    <3>1. j - last_byte \in 1 .. k /\ last_byte + (j - last_byte) - 1 = j - 1
      BY <1>1, <2>2
    <3>2. QED
      BY <2>2, <3>1 DEF Chunk
  <2>3. QED
    BY <2>1, <2>2
<1>5. QED
  BY <1>3, <1>4 DEF Sent

\* What one interrupt encodes is there, and never beyond the data.
LEMMA Encodes ==
    ASSUME StripTypeOK, Encoder, call = "encode"
    PROVE  LET left == strip_len * bytes_per_pixel - last_byte
               k    == IF state = 0 THEN Lesser(free \div 8, left) ELSE 0
           IN  /\ k \in Nat /\ last_byte + k \in Nat
               /\ state = 0 => k <= left
               /\ wire \o Chunk(k) = Sent(IF state = 0 THEN last_byte + k ELSE Total)
<1> DEFINE left == strip_len * bytes_per_pixel - last_byte
           k    == IF state = 0 THEN Lesser(free \div 8, left) ELSE 0
<1>1. Total \in Nat /\ last_byte \in Nat /\ free \div 8 \in Nat /\ state \in {0, 1}
  BY TotalNat DEF StripTypeOK
<1>2. state = 0 => left \in Nat
  BY <1>1 DEF Encoder, Total
<1>3. k \in Nat /\ (state = 0 => k <= left)
  BY <1>1, <1>2 DEF Lesser
<1>4. CASE state = 0
  <2>1. wire = Sent(last_byte)
    BY <1>4 DEF Encoder
  <2>2. wire \o Chunk(k) = Sent(last_byte + k)
    <3> HIDE DEF k
    <3> QED BY <1>3, <2>1, ChunkExtends
  <2>3. QED
    BY <1>1, <1>3, <1>4, <2>2
<1>5. CASE state # 0
  <2>1. k = 0 /\ last_byte = 0 /\ wire = Sent(Total)
    BY <1>5 DEF Encoder
  <2>2. wire \o Chunk(0) = wire
    BY <1>1, <2>1 DEF Sent, Chunk
  <2>3. QED
    BY <1>1, <1>3, <1>5, <2>1, <2>2
<1>6. QED
  BY <1>4, <1>5

\* The encoder is where its last interrupt left it, or at its start.
LEMMA EncoderStep == StripIInv /\ [StripNext]_stripVars => Encoder'
<1> SUFFICES ASSUME StripIInv, [StripNext]_stripVars
             PROVE  Encoder'
  OBVIOUS
<1>1. StripTypeOK /\ Channel /\ Encoder /\ WholeBytes
  BY DEF StripIInv
<1>2. ASSUME call' \notin {"encode", "sent"}, state' = 0, last_byte' = 0
      PROVE  Encoder'
  BY <1>2 DEF Encoder
<1>3. ASSUME NEW b \in {"rmt", "spi"}, NEW n \in Lens, NEW w \in {3, 4}, New(b, n, w)
      PROVE  Encoder'
  BY <1>1, <1>2, <1>3 DEF New, Channel
<1>4. ASSUME NEW b \in {"rmt", "spi"}, NEW k \in DOMAIN Order(b), NewFails(b, k)
      PROVE  Encoder'
  BY <1>1, <1>2, <1>4 DEF NewFails, Channel, Encoder, rmtVars
<1>5. CASE Del
  BY <1>1, <1>2, <1>5 DEF Del, Encoder, rmtVars
<1>6. ASSUME NEW i \in Indices, Colouring(i)
      PROVE  Encoder'
  BY <1>1, <1>2, <1>6, ColouringOnlyStores DEF Ready, Encoder, rmtVars
<1>7. CASE Refresh \/ Clear
  BY <1>1, <1>2, <1>7 DEF Refresh, Clear, Ready, Encoder, rmtVars
<1>8. CASE RmtEnable
  BY <1>1, <1>2, <1>8 DEF RmtEnable, Return, Encoder
<1>9. CASE RmtTransmit
  <2>1. state' = 0 /\ last_byte' = 0 /\ Total' = Total
    BY <1>1, <1>9 DEF RmtTransmit, Encoder, Total, objVars
  <2>2. CASE call' = "encode"
    <3>1. wire' = <<>> /\ Total \in Nat
      BY <1>1, <1>9, <2>2, TotalNat DEF RmtTransmit, Return
    <3>2. wire' = Sent(0)'
      BY <3>1 DEF Sent
    <3>3. QED
      BY <2>1, <2>2, <3>1, <3>2 DEF Encoder
  <2>3. CASE call' # "encode"
    BY <1>2, <1>9, <2>1, <2>3 DEF RmtTransmit, Return
  <2>4. QED
    BY <2>2, <2>3
<1>10. CASE RmtEncode
  <2> DEFINE left == strip_len * bytes_per_pixel - last_byte
             k    == IF state = 0 THEN Lesser(free \div 8, left) ELSE 0
             done == state = 1 \/ k = left
             full == state = 0 /\ free = 8 * k
  <2>1. /\ k \in Nat /\ last_byte + k \in Nat
        /\ state = 0 => k <= left
        /\ wire \o Chunk(k) = Sent(IF state = 0 THEN last_byte + k ELSE Total)
    BY <1>1, <1>10, Encodes DEF RmtEncode
  <2>2. /\ Total' = Total /\ Total \in Nat /\ last_byte \in Nat /\ state \in {0, 1}
        /\ \A n : Sent(n)' = Sent(n)
    BY <1>1, <1>10, TotalNat DEF RmtEncode, objVars, Total, Sent, StripTypeOK
  <2>3. wire' = wire \o Chunk(k)
    BY <1>10 DEF RmtEncode
  <2>4. left = Total - last_byte
    BY DEF Total
  <2>5. CASE full
    <3>1. /\ state' = (IF done THEN 1 ELSE 0) /\ last_byte' = (IF done THEN 0 ELSE last_byte + k)
          /\ call' = "encode"
      BY <1>10, <2>5 DEF RmtEncode
    <3>2. state = 0 /\ (done <=> k = left) /\ wire' = Sent(last_byte + k)
      BY <2>1, <2>3, <2>5
    <3> HIDE DEF k, left
    <3>3. CASE k = left
      <4>1. last_byte + k = Total
        BY <2>2, <2>4, <3>3
      <4>2. QED
        BY <2>2, <3>1, <3>2, <3>3, <4>1 DEF Encoder
    <3>4. CASE k # left
      <4>1. last_byte + k <= Total
        BY <2>1, <2>2, <2>4, <3>2
      <4>2. QED
        BY <2>2, <3>1, <3>2, <3>4, <4>1 DEF Encoder
    <3>5. QED
      BY <3>3, <3>4
  <2>6. CASE ~full
    <3>1. state' = 0 /\ last_byte' = 0 /\ call' = "sent"
      BY <1>10, <2>6 DEF RmtEncode
    <3>2. wire' = Sent(Total)
      <4>1. CASE state = 1
        BY <2>1, <2>3, <4>1
      <4>2. CASE state = 0
        <5>1. k = left
          <6>1. free \in Nat /\ left \in Nat
            BY <1>1, <1>10, <2>2, <2>4, <4>2 DEF Encoder, StripTypeOK, RmtEncode
          <6>2. free # 8 * k /\ free = 8 * (free \div 8)
            BY <1>1, <2>6, <4>2, <6>1 DEF WholeBytes
          <6>3. k # free \div 8
            BY <6>2
          <6>4. QED
            BY <6>3, <4>2 DEF Lesser
        <5> HIDE DEF k, left
        <5>2. last_byte + k = Total
          BY <2>2, <2>4, <5>1
        <5>3. QED
          BY <2>1, <2>3, <4>2, <5>2
      <4>3. QED
        BY <2>2, <4>1, <4>2
    <3>3. QED
      BY <2>2, <3>1, <3>2 DEF Encoder
  <2>7. QED
    BY <2>5, <2>6
<1>11. CASE RmtDisable
  BY <1>1, <1>2, <1>11 DEF RmtDisable, Return, Encoder
<1>12. CASE SpiTransmit
  BY <1>1, <1>2, <1>12 DEF SpiTransmit, Return, Encoder, rmtVars
<1>13. CASE OtherDriver \/ UNCHANGED stripVars
  BY <1>1, <1>13 DEF OtherDriver, stripVars, objVars, rmtVars, Encoder, Total, Sent
<1>14. QED
  BY <1>3, <1>4, <1>5, <1>6, <1>7, <1>8, <1>9, <1>10, <1>11, <1>12, <1>13 DEF StripNext, Colouring

\* The symbol memory and its half hold whole bytes.
LEMMA MemoryInBytes ==
    /\ MemSymbols \in Nat /\ MemSymbols % 8 = 0
    /\ MemSymbols \div 2 \in Nat /\ (MemSymbols \div 2) % 8 = 0
  BY StripAssumption

\* An interrupt has room for whole bytes.
LEMMA WholeBytesStep == StripIInv /\ [StripNext]_stripVars => WholeBytes'
<1> SUFFICES ASSUME StripIInv, [StripNext]_stripVars
             PROVE  WholeBytes'
  OBVIOUS
<1>1. WholeBytes
  BY DEF StripIInv
<1>2. ASSUME free' \in {free, 0, MemSymbols, MemSymbols \div 2}
      PROVE  WholeBytes'
  BY <1>1, <1>2, MemoryInBytes DEF WholeBytes
<1>3. ASSUME NEW i \in Indices, Colouring(i)
      PROVE  free' = free
  BY <1>3, ColouringOnlyStores DEF rmtVars
<1>4. CASE RmtTransmit \/ RmtEncode
  BY <1>2, <1>4 DEF RmtTransmit, RmtEncode
<1>5. CASE \E b \in {"rmt", "spi"} : \/ \E n \in Lens, w \in {3, 4} : New(b, n, w)
                                     \/ \E k \in DOMAIN Order(b) : NewFails(b, k)
  BY <1>2, <1>5 DEF New, NewFails, rmtVars
<1>6. CASE Del \/ OtherDriver \/ Refresh \/ Clear \/ RmtEnable \/ RmtDisable \/ SpiTransmit
           \/ UNCHANGED stripVars
  BY <1>2, <1>6 DEF Del, OtherDriver, Refresh, Clear, RmtEnable, RmtDisable, SpiTransmit, rmtVars,
                    stripVars
<1>7. QED
  BY <1>2, <1>3, <1>4, <1>5, <1>6 DEF StripNext, Colouring

\* The types: the lengths come from Lens, the rest follows from Encoder.
LEMMA TypeStep == StripIInv /\ [StripNext]_stripVars => StripTypeOK'
<1> SUFFICES ASSUME StripIInv, [StripNext]_stripVars
             PROVE  StripTypeOK'
  OBVIOUS
<1>1. StripTypeOK /\ HeldByHandle' /\ Channel /\ Encoder
  BY HeldStep DEF StripIInv
<1>2. ASSUME UNCHANGED <<objVars, rmtVars, call, failed>>,
             DOMAIN pixel_buf' = DOMAIN pixel_buf, result' \in {"none", "ok", "error"}
      PROVE  StripTypeOK'
  BY <1>1, <1>2 DEF StripTypeOK, objVars, rmtVars, Cells
<1>3. ASSUME NEW b \in {"rmt", "spi"}, NEW n \in Lens, NEW w \in {3, 4}, New(b, n, w)
      PROVE  StripTypeOK'
  <2>1. /\ held' \subseteq RmtResources \cup SpiResources
        /\ bus' \in {bus, "strip"} /\ leaked' = leaked /\ failed' = FALSE
    BY <1>1, <1>3 DEF New, StripTypeOK
  <2>2. strip_len' \in Nat /\ bytes_per_pixel' \in {3, 4} /\ enabled' \in BOOLEAN
    BY <1>3, StripAssumption DEF New
  <2>3. DOMAIN pixel_buf' = Cells' /\ backend' = b
    BY <1>3 DEF New, Size, Cells
  <2>4. call' = call /\ state' = 0 /\ last_byte' = 0 /\ free' = 0 /\ result' = "none"
    BY <1>3 DEF New
  <2>5. QED
    BY <1>1, <2>1, <2>2, <2>3, <2>4 DEF StripTypeOK
<1>4. ASSUME NEW b \in {"rmt", "spi"}, NEW k \in DOMAIN Order(b), NewFails(b, k)
      PROVE  StripTypeOK'
  <2>1. /\ bus' \in {"free", bus, "leaked"}
        /\ UNCHANGED <<backend, held, leaked, strip_len, bytes_per_pixel, pixel_buf, rmtVars, call,
                       result, failed>>
    BY <1>4, FailedCreation
  <2>2. QED
    BY <1>1, <2>1 DEF StripTypeOK, rmtVars, Cells
<1>5. CASE Del
  <2>1. DOMAIN pixel_buf' = {}
    <3>1. pixel_buf' = <<>>
      BY <1>5 DEF Del
    <3>2. QED
      BY <3>1
  <2>2. /\ held' = {} /\ strip_len' = 0 /\ backend' = "none" /\ result' = "none"
        /\ bus' \in {"free", bus, "leaked"} /\ leaked' \subseteq leaked \cup {"strip"}
        /\ failed' = FALSE
    BY <1>5 DEF Del
  <2>3. UNCHANGED <<bytes_per_pixel, rmtVars, call>>
    BY <1>5 DEF Del
  <2>4. QED
    BY <1>1, <2>1, <2>2, <2>3 DEF StripTypeOK, rmtVars, RmtResources
<1>6. ASSUME NEW i \in Indices, Colouring(i)
      PROVE  StripTypeOK'
  <2>1. backend # "none" /\ UNCHANGED <<objVars, rmtVars, call, failed>>
    BY <1>6, ColouringOnlyStores DEF Ready
  <2>2. DOMAIN pixel_buf' = DOMAIN pixel_buf /\ result' \in {"none", "ok", "error"}
    BY <1>1, <1>6, <2>1, ColouringOnlyStores DEF Store, StripTypeOK
  <2>3. QED
    BY <1>2, <2>1, <2>2
<1>7. CASE Refresh \/ Clear
  <2>1. DOMAIN pixel_buf' = DOMAIN pixel_buf /\ result' \in {"none", "ok", "error"}
    BY <1>1, <1>7 DEF Refresh, Clear, Ready, StripTypeOK
  <2>2. QED
    BY <1>1, <1>7, <2>1 DEF Refresh, Clear, StripTypeOK, objVars, rmtVars, Cells
<1>8. CASE RmtEnable \/ RmtDisable \/ SpiTransmit
  <2>1. enabled' \in BOOLEAN
    BY <1>1, <1>8 DEF RmtEnable, RmtDisable, SpiTransmit, StripTypeOK, rmtVars
  <2>2. /\ call' \in {"idle", "transmit"} /\ result' \in {"none", "ok", "error"}
        /\ failed' \in BOOLEAN
    BY <1>1, <1>8 DEF RmtEnable, RmtDisable, SpiTransmit, Return, StripTypeOK
  <2>3. UNCHANGED <<objVars, pixel_buf, state, last_byte, free>>
    BY <1>8 DEF RmtEnable, RmtDisable, SpiTransmit, rmtVars
  <2>4. QED
    BY <1>1, <2>1, <2>2, <2>3 DEF StripTypeOK, objVars, Cells
<1>9. CASE RmtTransmit
  <2>1. /\ call' \in {"encode", "idle"} /\ result' \in {"none", "ok", "error"} /\ free' \in Nat
        /\ failed' \in BOOLEAN
    BY <1>1, <1>9, MemoryInBytes DEF RmtTransmit, Return, StripTypeOK
  <2>2. UNCHANGED <<objVars, pixel_buf, enabled, state, last_byte>>
    BY <1>9 DEF RmtTransmit
  <2>3. QED
    BY <1>1, <2>1, <2>2 DEF StripTypeOK, objVars, Cells
<1>10. CASE RmtEncode
  <2> DEFINE left == strip_len * bytes_per_pixel - last_byte
             k    == IF state = 0 THEN Lesser(free \div 8, left) ELSE 0
  <2>1. last_byte + k \in Nat
    BY <1>1, <1>10, Encodes DEF RmtEncode
  <2> HIDE DEF k
  <2>2. last_byte' \in {0, last_byte + k} /\ state' \in {0, 1}
        /\ free' \in {free, MemSymbols \div 2}
    BY <1>10 DEF RmtEncode, k
  <2>3. call' \in {"encode", "sent"}
    BY <1>10 DEF RmtEncode
  <2>4. UNCHANGED <<objVars, pixel_buf, enabled, result, failed>>
    BY <1>10 DEF RmtEncode
  <2>5. QED
    BY <1>1, <2>1, <2>2, <2>3, <2>4, MemoryInBytes DEF StripTypeOK, objVars, Cells
<1>11. CASE OtherDriver
  BY <1>1, <1>11 DEF OtherDriver, StripTypeOK, rmtVars, Cells
<1>12. CASE UNCHANGED stripVars
  BY <1>1, <1>2, <1>12 DEF stripVars, StripTypeOK
<1>13. QED
  BY <1>3, <1>4, <1>5, <1>6, <1>7, <1>8, <1>9, <1>10, <1>11, <1>12 DEF StripNext, Colouring

\* The invariant holds in every reachable state.
LEMMA StripInvariant == StripSpec => []StripIInv
<1>1. StripIInv /\ [StripNext]_stripVars => StripIInv'
  BY HeldStep, ChannelStep, EncoderStep, WholeBytesStep, TypeStep DEF StripIInv
<1>2. QED
  BY <1>1, StripInitInv, PTL DEF StripSpec

(***************************************************************************)
(* Type correctness, for strips of any length.                             *)
(***************************************************************************)
THEOREM StripTypeCorrect == StripSpec => []StripTypeOK
<1>1. StripIInv => StripTypeOK
  BY DEF StripIInv
<1>2. QED
  BY <1>1, StripInvariant, PTL

(***************************************************************************)
(* Whatever step of a creation fails, and however strips are created and   *)
(* deleted, a strip holds what it needs, and all that is ever left without *)
(* one is the strip of a deletion that failed half way: where no call that *)
(* gives something back fails, nothing is, and the bus is not lost.        *)
(***************************************************************************)
THEOREM NothingLeaked ==
    StripSpec => [](HeldByHandle /\ ("delete" \notin MayFail => leaked = {} /\ bus # "leaked"))
<1>1. StripIInv => HeldByHandle /\ ("delete" \notin MayFail => leaked = {} /\ bus # "leaked")
  BY DEF StripIInv, NothingLost
<1>2. QED
  BY <1>1, StripInvariant, PTL

(***************************************************************************)
(* The interrupts send each byte once and in order, for any length of the  *)
(* strip and any size of the symbol memory, including data that fill it    *)
(* exactly.                                                                *)
(***************************************************************************)
THEOREM WireKeepsOrder == StripSpec => []WireInOrder
<1>1. StripIInv => WireInOrder
  <2> SUFFICES ASSUME StripIInv, backend = "rmt", call \in {"encode", "sent"}
               PROVE  /\ Len(wire) <= strip_len * bytes_per_pixel
                      /\ \A j \in 1 .. Len(wire) : wire[j] = Value(pixel_buf[j - 1])
                      /\ call = "sent" \/ state = 1 => Len(wire) = strip_len * bytes_per_pixel
    BY DEF WireInOrder
  <2>1. PICK n \in Nat : /\ n <= Total /\ wire = Sent(n)
                         /\ call = "sent" \/ state = 1 => n = Total
    <3>1. Total \in Nat /\ last_byte \in Nat
      BY TotalNat DEF StripIInv, StripTypeOK
    <3>2. CASE call = "encode" /\ state = 0
      BY <3>1, <3>2 DEF StripIInv, Encoder
    <3>3. CASE call = "encode" /\ state # 0
      BY <3>1, <3>3 DEF StripIInv, Encoder
    <3>4. CASE call = "sent"
      BY <3>1, <3>4 DEF StripIInv, Encoder
    <3>5. QED
      BY <3>2, <3>3, <3>4
  <2>2. Len(wire) = n /\ \A j \in 1 .. n : wire[j] = Value(pixel_buf[j - 1])
    BY <2>1 DEF Sent
  <2>3. QED
    BY <2>1, <2>2 DEF Total
<1>2. QED
  BY <1>1, StripInvariant, PTL

(***************************************************************************)
(* A refresh is refused, or leaves the channel enabled, only after a call  *)
(* of the peripheral's driver failed, or on a strip without LEDs: for any  *)
(* sequence of the calls, and strips of any length.                        *)
(***************************************************************************)
THEOREM OnlyFailuresStick == StripSpec => []FailsOnlyAfterFailure
<1>1. StripIInv => FailsOnlyAfterFailure
  BY DEF StripIInv, Faults, FailsOnlyAfterFailure
<1>2. QED
  BY <1>1, StripInvariant, PTL

------------------------------------------------------------------------------
\* Bytes and pulses

\* The bits of the low byte of a number are that byte.
LEMMA ByteBack == ASSUME NEW v \in Nat PROVE Value(BitsOf(v)) = v % 256
<1> DEFINE At(k) == IF k \in BitsOf(v) THEN Weight[k + 1] ELSE 0
<1>1. /\ At(0) = (v % 2)
      /\ At(1) = 2 * ((v \div 2) % 2)
      /\ At(2) = 4 * ((v \div 4) % 2)
      /\ At(3) = 8 * ((v \div 8) % 2)
      /\ At(4) = 16 * ((v \div 16) % 2)
      /\ At(5) = 32 * ((v \div 32) % 2)
      /\ At(6) = 64 * ((v \div 64) % 2)
      /\ At(7) = 128 * ((v \div 128) % 2)
  <2>1. ASSUME NEW x \in Nat PROVE x % 2 \in {0, 1}
    OBVIOUS
  <2>2. v \div 2 \in Nat /\ v \div 4 \in Nat /\ v \div 8 \in Nat /\ v \div 16 \in Nat
        /\ v \div 32 \in Nat /\ v \div 64 \in Nat /\ v \div 128 \in Nat /\ v \div 1 = v
    OBVIOUS
  <2>3. \A k \in 0 .. 7 : k \in BitsOf(v) <=> (v \div Weight[k + 1]) % 2 = 1
    BY DEF BitsOf
  <2>4. At(0) = (v % 2)
    BY <2>1, <2>2, <2>3 DEF Weight
  <2>5. At(1) = 2 * ((v \div 2) % 2)
    BY <2>1, <2>2, <2>3 DEF Weight
  <2>6. At(2) = 4 * ((v \div 4) % 2)
    BY <2>1, <2>2, <2>3 DEF Weight
  <2>7. At(3) = 8 * ((v \div 8) % 2)
    BY <2>1, <2>2, <2>3 DEF Weight
  <2>8. At(4) = 16 * ((v \div 16) % 2)
    BY <2>1, <2>2, <2>3 DEF Weight
  <2>9. At(5) = 32 * ((v \div 32) % 2)
    BY <2>1, <2>2, <2>3 DEF Weight
  <2>10. At(6) = 64 * ((v \div 64) % 2)
    BY <2>1, <2>2, <2>3 DEF Weight
  <2>11. At(7) = 128 * ((v \div 128) % 2)
    BY <2>1, <2>2, <2>3 DEF Weight
  <2>12. QED
    BY <2>4, <2>5, <2>6, <2>7, <2>8, <2>9, <2>10, <2>11
<1>2. Value(BitsOf(v)) = At(0) + At(1) + At(2) + At(3) + At(4) + At(5) + At(6) + At(7)
  BY DEF Value
<1>3. (v % 2) + 2 * ((v \div 2) % 2) + 4 * ((v \div 4) % 2) + 8 * ((v \div 8) % 2)
      + 16 * ((v \div 16) % 2) + 32 * ((v \div 32) % 2) + 64 * ((v \div 64) % 2)
      + 128 * ((v \div 128) % 2) = v % 256
  <2>1. ASSUME NEW x \in Nat PROVE x % 2 = x - 2 * (x \div 2)
    OBVIOUS
  <2>2. v \div 2 \in Nat /\ v \div 4 \in Nat /\ v \div 8 \in Nat /\ v \div 16 \in Nat
        /\ v \div 32 \in Nat /\ v \div 64 \in Nat /\ v \div 128 \in Nat /\ v \div 256 \in Nat
    OBVIOUS
  <2>3. (v \div 2) \div 2 = v \div 4 /\ (v \div 4) \div 2 = v \div 8
        /\ (v \div 8) \div 2 = v \div 16 /\ (v \div 16) \div 2 = v \div 32
    OBVIOUS
  <2>4. (v \div 32) \div 2 = v \div 64 /\ (v \div 64) \div 2 = v \div 128
        /\ (v \div 128) \div 2 = v \div 256
    OBVIOUS
  <2>5. v % 256 = v - 256 * (v \div 256)
    OBVIOUS
  <2>6. /\ v % 2 = v - 2 * (v \div 2)
        /\ (v \div 2) % 2 = v \div 2 - 2 * (v \div 4)
        /\ (v \div 4) % 2 = v \div 4 - 2 * (v \div 8)
        /\ (v \div 8) % 2 = v \div 8 - 2 * (v \div 16)
        /\ (v \div 16) % 2 = v \div 16 - 2 * (v \div 32)
        /\ (v \div 32) % 2 = v \div 32 - 2 * (v \div 64)
        /\ (v \div 64) % 2 = v \div 64 - 2 * (v \div 128)
        /\ (v \div 128) % 2 = v \div 128 - 2 * (v \div 256)
    BY <2>1, <2>2, <2>3, <2>4
  <2>7. QED
    BY <2>2, <2>5, <2>6
<1> HIDE DEF At
<1>4. QED
  BY <1>1, <1>2, <1>3

\* The three bytes that code a number for the SPI bus are read as its low byte.
LEMMA PulsesBack == ASSUME NEW v \in Nat PROVE Pulses(SpiBits(v, {})) = <<v % 256>>
<1> DEFINE bits == SpiBits(v, {})
<1>1. bits = {18, 21, 8, 11, 14, 1, 4, 7} \cup {Data[k + 1] : k \in BitsOf(v)}
  BY DEF SpiBits, Lead, Bit
<1>2. Data = <<17, 20, 23, 10, 13, 0, 3, 6>>
  BY DEF Data, Bit
<1>3. BitsOf(v) \subseteq 0 .. 7
  BY DEF BitsOf
<1> HIDE DEF bits
<1>4. \A k \in 0 .. 7 : Data[k + 1] \in bits <=> k \in BitsOf(v)
  BY <1>1, <1>2, <1>3
<1>5. \A p \in {5, 2, 15, 12, 9, 22, 19, 16} : p \notin bits
  BY <1>1, <1>2, <1>3
<1>6. \A k \in 0 .. 7 : /\ Level(bits, 3 * k)
                        /\ ~Level(bits, 3 * k + 2)
                        /\ Level(bits, 3 * k + 1) <=> 7 - k \in BitsOf(v)
  <2> TAKE k \in 0 .. 7
  <2>1. Bit((3 * k) \div 8, 7 - ((3 * k) % 8)) \in {18, 21, 8, 11, 14, 1, 4, 7}
    BY DEF Bit
  <2>2. Bit((3 * k + 2) \div 8, 7 - ((3 * k + 2) % 8)) \in {5, 2, 15, 12, 9, 22, 19, 16}
    BY DEF Bit
  <2>3. Bit((3 * k + 1) \div 8, 7 - ((3 * k + 1) % 8)) = Data[8 - k]
    BY <1>2 DEF Bit
  <2>4. 7 - k \in 0 .. 7 /\ (7 - k) + 1 = 8 - k
    OBVIOUS
  <2>5. QED
    BY <1>1, <1>4, <1>5, <2>1, <2>2, <2>3, <2>4 DEF Level
<1>7. {7 - k : k \in {j \in 0 .. 7 : Level(bits, 3 * j + 1)}} = BitsOf(v)
  <2>1. ASSUME NEW b \in BitsOf(v)
        PROVE  \E k \in {j \in 0 .. 7 : Level(bits, 3 * j + 1)} : b = 7 - k
    <3>1. 7 - b \in 0 .. 7 /\ 7 - (7 - b) = b
      BY <1>3
    <3>2. QED
      BY <1>6, <3>1
  <2>2. QED
    BY <1>6, <2>1
<1>8. bits # {}
  BY <1>1
<1>9. QED
  BY <1>6, <1>7, <1>8, ByteBack DEF Pulses, bits
------------------------------------------------------------------------------
\* Colours by hue

\* The smallest component of a colour is no larger than the largest.
LEMMA Dims ==
    ASSUME NEW s \in 0 .. 255, NEW v \in 0 .. 255
    PROVE  (v * (255 - s)) \div 255 \in 0 .. v
<1> DEFINE x == v * (255 - s)
<1>1. x \in Nat /\ x <= v * 255
  OBVIOUS
<1> HIDE DEF x
<1>2. x \div 255 \in 0 .. v
  BY <1>1
<1>3. QED
  BY <1>2 DEF x

\* What a component gains and loses within a sector, one being the rest of the other
\* up to the rounding.
LEMMA Scaled ==
    ASSUME NEW d \in 0 .. 255, NEW r \in 0 .. 60
    PROVE  /\ d * r \in Nat /\ d * r <= 60 * d
           /\ d * (60 - r) = 60 * d - d * r
           /\ (d * r) \div 60 \in 0 .. d
           /\ (d * (60 - r)) \div 60 - (d - (d * r) \div 60) \in -1 .. 0
<1> DEFINE y == d * r
<1>1. y \in Nat /\ y <= 60 * d
  OBVIOUS
<1>2. d * (60 - r) = 60 * d - y
  OBVIOUS
<1> HIDE DEF y
<1>3. y \div 60 \in 0 .. d
  BY <1>1
<1>4. (60 * d - y) \div 60 - (d - y \div 60) \in -1 .. 0
  BY <1>1
<1>5. QED
  BY <1>1, <1>2, <1>3, <1>4 DEF y

(***************************************************************************)
(* The sectors of led_strip_set_pixel_hsv() and the meaning of a hue agree *)
(* at every degree, saturation and value, within the rounding of one.      *)
(***************************************************************************)
LEMMA HueNear ==
    ASSUME NEW h \in 0 .. 359, NEW s \in 0 .. 255, NEW v \in 0 .. 255, NEW k \in 1 .. 3
    PROVE  /\ Rgb(h, s, v)[k] \in 0 .. 255
           /\ Near(Rgb(h, s, v)[k], Hue(h, s, v)[k])
<1> DEFINE min == (v * (255 - s)) \div 255
           d   == v - min
           r   == h % 60
           adj == (d * r) \div 60
           At(center) == LET a == HueDistance(h, center) IN
              IF a <= 60 THEN v ELSE IF a >= 120 THEN min ELSE min + (d * (120 - a)) \div 60
<1>1. min \in 0 .. v
  BY Dims
<1>2. Hue(h, s, v) = <<At(0), At(120), At(240), 0>>
  BY DEF Hue
<1>3. Rgb(h, s, v) = CASE h \div 60 = 0 -> <<v, min + adj, min>>
          [] h \div 60 = 1 -> <<v - adj, v, min>>
          [] h \div 60 = 2 -> <<min, v, min + adj>>
          [] h \div 60 = 3 -> <<min, v - adj, v>>
          [] h \div 60 = 4 -> <<min + adj, min, v>>
          [] OTHER         -> <<v, min, v - adj>>
  BY DEF Rgb
<1> HIDE DEF min
<1>4. d \in 0 .. 255 /\ d = v - min
  BY <1>1
<1> HIDE DEF d
<1>5. r \in 0 .. 59 /\ h = 60 * (h \div 60) + r /\ h \div 60 \in 0 .. 5
  OBVIOUS
<1> HIDE DEF r
<1>6. adj \in 0 .. d /\ (d * (60 - r)) \div 60 - (d - adj) \in -1 .. 0
  <2>1. d \in 0 .. 255 /\ r \in 0 .. 60
    BY <1>4, <1>5
  <2>2. QED
    BY <2>1, Scaled, Zenon
<1>7. r = 0 => adj = 0
  BY <1>4
<1> HIDE DEF adj
<1>8. ASSUME NEW c, HueDistance(h, c) \in 0 .. 60
      PROVE  At(c) = v
  BY <1>8
<1>9. ASSUME NEW c, HueDistance(h, c) \in 120 .. 180
      PROVE  At(c) = min
  BY <1>9
<1>10. ASSUME NEW c, HueDistance(h, c) = 120 - r
       PROVE  At(c) = min + adj
  BY <1>1, <1>5, <1>7, <1>10 DEF adj
<1>11. ASSUME NEW c, HueDistance(h, c) = 60 + r
       PROVE  Near(v - adj, At(c))
  <2>1. CASE r = 0
    <3>1. At(c) = v /\ adj = 0
      BY <1>7, <1>11, <2>1
    <3>2. QED
      BY <3>1 DEF Near
  <2>2. CASE r # 0
    <3>1. At(c) = min + (d * (60 - r)) \div 60
      BY <1>5, <1>11, <2>2
    <3> DEFINE low == (d * (60 - r)) \div 60
    <3> HIDE DEF low
    <3>2. low - (d - adj) \in -1 .. 0 /\ At(c) = min + low
      BY <1>6, <3>1 DEF low
    <3>3. low \in Int
      BY <1>4, <1>5 DEF low
    <3>4. v - adj - (min + low) \in -1 .. 1
      BY <1>1, <1>4, <1>6, <3>2, <3>3
    <3>5. QED
      BY <3>2, <3>4 DEF Near
  <2>3. QED
    BY <2>1, <2>2
<1> HIDE DEF At
<1>12. \A x \in 0 .. 255 : Near(x, x)
  BY DEF Near
<1>13. /\ min \in 0 .. 255 /\ v \in 0 .. 255
       /\ min + adj \in 0 .. 255 /\ v - adj \in 0 .. 255
  BY <1>1, <1>4, <1>6
<1>14. CASE h \div 60 = 0
  <2>1. /\ HueDistance(h, 0) = r /\ HueDistance(h, 120) = 120 - r
        /\ HueDistance(h, 240) = 120 + r
    BY <1>5, <1>14 DEF HueDistance
  <2>2. At(0) = v /\ At(120) = min + adj /\ At(240) = min
    BY <1>5, <1>8, <1>9, <1>10, <1>11, <2>1
  <2>3. Rgb(h, s, v) = <<v, min + adj, min>>
    BY <1>3, <1>14
  <2>4. QED
    BY <1>2, <1>12, <1>13, <2>2, <2>3
<1>15. CASE h \div 60 = 1
  <2>1. /\ HueDistance(h, 0) = 60 + r /\ HueDistance(h, 120) = 60 - r
        /\ HueDistance(h, 240) = 180 - r
    BY <1>5, <1>15 DEF HueDistance
  <2>2. Near(v - adj, At(0)) /\ At(120) = v /\ At(240) = min
    BY <1>5, <1>8, <1>9, <1>10, <1>11, <2>1
  <2>3. Rgb(h, s, v) = <<v - adj, v, min>>
    BY <1>3, <1>15
  <2>4. QED
    BY <1>2, <1>12, <1>13, <2>2, <2>3
<1>16. CASE h \div 60 = 2
  <2>1. /\ HueDistance(h, 0) = 120 + r /\ HueDistance(h, 120) = r
        /\ HueDistance(h, 240) = 120 - r
    BY <1>5, <1>16 DEF HueDistance
  <2>2. At(0) = min /\ At(120) = v /\ At(240) = min + adj
    BY <1>5, <1>8, <1>9, <1>10, <1>11, <2>1
  <2>3. Rgb(h, s, v) = <<min, v, min + adj>>
    BY <1>3, <1>16
  <2>4. QED
    BY <1>2, <1>12, <1>13, <2>2, <2>3
<1>17. CASE h \div 60 = 3
  <2>1. /\ HueDistance(h, 0) = 180 - r /\ HueDistance(h, 120) = 60 + r
        /\ HueDistance(h, 240) = 60 - r
    BY <1>5, <1>17 DEF HueDistance
  <2>2. At(0) = min /\ Near(v - adj, At(120)) /\ At(240) = v
    BY <1>5, <1>8, <1>9, <1>10, <1>11, <2>1
  <2>3. Rgb(h, s, v) = <<min, v - adj, v>>
    BY <1>3, <1>17
  <2>4. QED
    BY <1>2, <1>12, <1>13, <2>2, <2>3
<1>18. CASE h \div 60 = 4
  <2>1. /\ HueDistance(h, 0) = 120 - r /\ HueDistance(h, 120) = 120 + r
        /\ HueDistance(h, 240) = r
    BY <1>5, <1>18 DEF HueDistance
  <2>2. At(0) = min + adj /\ At(120) = min /\ At(240) = v
    BY <1>5, <1>8, <1>9, <1>10, <1>11, <2>1
  <2>3. Rgb(h, s, v) = <<min + adj, min, v>>
    BY <1>3, <1>18
  <2>4. QED
    BY <1>2, <1>12, <1>13, <2>2, <2>3
<1>19. CASE h \div 60 = 5
  <2>1. /\ HueDistance(h, 0) = 60 - r /\ HueDistance(h, 120) = 180 - r
        /\ HueDistance(h, 240) = 60 + r
    BY <1>5, <1>19 DEF HueDistance
  <2>2. At(0) = v /\ At(120) = min /\ Near(v - adj, At(240))
    BY <1>5, <1>8, <1>9, <1>10, <1>11, <2>1
  <2>3. Rgb(h, s, v) = <<v, min, v - adj>>
    BY <1>3, <1>19
  <2>4. QED
    BY <1>2, <1>12, <1>13, <2>2, <2>3
<1>20. QED
  BY <1>5, <1>14, <1>15, <1>16, <1>17, <1>18, <1>19

\* The meaning of a hue is a colour of bytes, without white.
LEMMA HueNat ==
    ASSUME NEW h \in 0 .. 359, NEW s \in 0 .. 255, NEW v \in 0 .. 255
    PROVE  Hue(h, s, v) \in [1 .. 4 -> Nat] /\ Hue(h, s, v)[4] = 0
<1> DEFINE min == (v * (255 - s)) \div 255
           At(center) == LET a == HueDistance(h, center) IN
              IF a <= 60 THEN v ELSE IF a >= 120 THEN min ELSE min + ((v - min) * (120 - a)) \div 60
<1>1. min \in 0 .. v
  BY Dims
<1>2. Hue(h, s, v) = <<At(0), At(120), At(240), 0>>
  BY DEF Hue
<1> HIDE DEF min
<1>3. \A center \in {0, 120, 240} : HueDistance(h, center) \in 0 .. 180
  BY DEF HueDistance
<1>4. ASSUME NEW a \in 61 .. 119
      PROVE  ((v - min) * (120 - a)) \div 60 \in Nat
  <2>1. (v - min) * (120 - a) \in Nat
    <3>1. v - min \in Nat /\ 120 - a \in Nat
      BY <1>1
    <3>2. \A x, y \in Nat : x * y \in Nat
      OBVIOUS
    <3>3. QED
      BY <3>1, <3>2
  <2>2. \A x \in Nat : x \div 60 \in Nat
    OBVIOUS
  <2>3. QED
    BY <2>1, <2>2
<1>5. \A center \in {0, 120, 240} : At(center) \in Nat
  <2> TAKE center \in {0, 120, 240}
  <2>1. CASE HueDistance(h, center) \in 61 .. 119
    BY <1>1, <1>4, <2>1
  <2>2. CASE HueDistance(h, center) \notin 61 .. 119
    BY <1>1, <1>3, <2>2
  <2>3. QED
    BY <2>1, <2>2
<1> HIDE DEF At
<1>6. QED
  BY <1>2, <1>5

------------------------------------------------------------------------------
\* The train of bytes

\* A set of numbers that is not empty has a least one.
LEMMA LeastNumber ==
    ASSUME NEW T, T \subseteq Nat, T # {}
    PROVE  \E x \in T : \A y \in T : ~(y < x)
<1>1. \E x \in T : \A y \in T : ~(<<y, x>> \in OpToRel(<, Nat))
  BY NatLessThanWellFounded, WFMin, Zenon
<1>2. ASSUME NEW x \in Nat, NEW y \in Nat, y < x
      PROVE  <<y, x>> \in OpToRel(<, Nat)
  BY <1>2 DEF OpToRel
<1>3. QED
  BY <1>1, <1>2

\* The line carries one byte for each cell when every cell codes one.
LEMMA LineInOrder ==
    ASSUME Total \in Nat, NEW val,
           \A j \in 0 .. Total - 1 : Pulses(pixel_buf[j]) = <<val[j]>>
    PROVE  SpiLine = [j \in 1 .. Total |-> val[j - 1]]
<1> DEFINE Next(f)  == [j \in 0 .. Total |->
                           IF j = 0 THEN <<>> ELSE f[j - 1] \o Pulses(pixel_buf[j - 1])]
           Train(n) == [j \in 1 .. n |-> val[j - 1]]
           all      == [n \in 0 .. Total |-> Train(n)]
           line     == CHOOSE f : f = Next(f)
<1>1. SpiLine = line[Total]
  BY DEF SpiLine, Total
<1>2. ASSUME NEW n \in 1 .. Total
      PROVE  Train(n) = Train(n - 1) \o Pulses(pixel_buf[n - 1])
  <2>1. Pulses(pixel_buf[n - 1]) = <<val[n - 1]>>
    OBVIOUS
  <2>2. Train(n - 1) \o <<val[n - 1]>> = Train(n)
    OBVIOUS
  <2>3. QED
    BY <2>1, <2>2
<1>3. Train(0) = <<>>
  OBVIOUS
<1> HIDE DEF Train
<1>4. all = Next(all)
  <2>1. ASSUME NEW n \in 0 .. Total
        PROVE  Train(n) = IF n = 0 THEN <<>> ELSE all[n - 1] \o Pulses(pixel_buf[n - 1])
    <3>1. CASE n = 0
      BY <1>3, <3>1
    <3>2. CASE n # 0
      <4>1. n \in 1 .. Total /\ n - 1 \in 0 .. Total
        BY <3>2
      <4>2. all[n - 1] = Train(n - 1)
        BY <4>1
      <4>3. QED
        BY <1>2, <3>2, <4>1, <4>2
    <3>3. QED
      BY <3>1, <3>2
  <2>2. QED
    BY <2>1, Zenon
<1> HIDE DEF all
<1>5. line = Next(line)
  BY <1>4
<1> HIDE DEF line
<1>6. \A n \in 0 .. Total : line[n] = Train(n)
  <2> DEFINE T == {n \in 0 .. Total : line[n] # Train(n)}
  <2> SUFFICES ASSUME T # {}
               PROVE  FALSE
    OBVIOUS
  <2>1. PICK n \in T : \A m \in T : ~(m < n)
    <3>1. T \subseteq Nat
      OBVIOUS
    <3>2. QED
      BY <3>1, LeastNumber
  <2>2. n # 0
    BY <1>3, <1>5
  <2>3. n \in 1 .. Total /\ n - 1 \in 0 .. Total /\ n - 1 \notin T
    BY <2>1, <2>2
  <2>4. line[n] = line[n - 1] \o Pulses(pixel_buf[n - 1])
    <3>1. n \in 0 .. Total /\ n # 0
      BY <2>3
    <3>2. line[n] = Next(line)[n]
      BY <1>5
    <3> HIDE DEF T
    <3>3. QED
      BY <3>1, <3>2
  <2>5. line[n] = Train(n)
    BY <1>2, <2>3, <2>4
  <2>6. QED
    BY <2>5
<1>7. QED
  BY <1>1, <1>6 DEF Train

\* The cells of a pixel, of a strip of n LEDs and w bytes a pixel.
LEMMA CellsOf ==
    ASSUME NEW n \in Nat, NEW w \in {3, 4}, NEW i \in 0 .. n - 1, NEW k \in 1 .. w
    PROVE  /\ i * w + k - 1 \in 0 .. n * w - 1
           /\ (i * w + k - 1) \div w = i
           /\ ((i * w + k - 1) % w) + 1 = k
           /\ i * w \in Nat /\ (i + 1) * w = i * w + w /\ (i + 1) * w <= n * w
<1>1. CASE w = 3
  BY <1>1
<1>2. CASE w = 4
  BY <1>2
<1>3. QED
  BY <1>1, <1>2

\* Every cell is one of a pixel.
LEMMA PixelOf ==
    ASSUME NEW n \in Nat, NEW w \in {3, 4}, NEW j \in 0 .. n * w - 1
    PROVE  \E i \in 0 .. n - 1, k \in 1 .. w : j = i * w + k - 1
<1>1. /\ j \div w \in 0 .. n - 1 /\ (j % w) + 1 \in 1 .. w
      /\ j = (j \div w) * w + ((j % w) + 1) - 1
  <2>1. CASE w = 3
    BY <2>1
  <2>2. CASE w = 4
    BY <2>2
  <2>3. QED
    BY <2>1, <2>2
<1>2. QED
  BY <1>1

\* Each LED takes its own bytes of a complete train.
LEMMA LatchesOwn ==
    ASSUME StripTypeOK, NEW val, NEW i \in Pixels
    PROVE  Latched([j \in 1 .. Total |-> val[j - 1]])[i]
             = [k \in 1 .. bytes_per_pixel |-> val[i * bytes_per_pixel + k - 1]]
<1> DEFINE w == [j \in 1 .. Total |-> val[j - 1]]
           a == i * bytes_per_pixel
<1>1. Total \in Nat /\ i \in Nat /\ bytes_per_pixel \in {3, 4}
  BY TotalNat DEF StripTypeOK, Pixels
<1>2. a \in Nat /\ (i + 1) * bytes_per_pixel = a + bytes_per_pixel
      /\ a + bytes_per_pixel <= Total
  <2>1. strip_len \in Nat /\ i \in 0 .. strip_len - 1 /\ 1 \in 1 .. bytes_per_pixel
    BY <1>1 DEF StripTypeOK, Pixels
  <2>2. QED
    BY <1>1, <2>1, CellsOf DEF Total
<1>3. Len(w) = Total
  BY <1>1
<1>4. Latched(w)[i] = SubSeq(w, a + 1, a + bytes_per_pixel)
  BY <1>1, <1>2, <1>3 DEF Latched
<1> HIDE DEF a
<1>5. SubSeq(w, a + 1, a + bytes_per_pixel) = [k \in 1 .. bytes_per_pixel |-> w[a + k]]
  BY <1>1, <1>2
<1>6. \A k \in 1 .. bytes_per_pixel : w[a + k] = val[a + k - 1]
  BY <1>1, <1>2
<1> HIDE DEF w
<1>7. QED
  BY <1>4, <1>5, <1>6 DEF a, w

------------------------------------------------------------------------------
\* What the LEDs show

\* A cell of a pixel of which asked was asked is the byte k of it, or was never
\* set.
Codes(cell, asked, k) ==
    IF asked = NULL THEN cell = {}
    ELSE \E d \in Nat : Near(d % 256, Grbw(asked)[k]) /\ cell = Coded(d, {})

\* The buffer is what was asked for each pixel.
Stored ==
    backend # "none" =>
        /\ DOMAIN wanted = Pixels
        /\ \A i \in Pixels, k \in 1 .. bytes_per_pixel :
              Codes(pixel_buf[i * bytes_per_pixel + k - 1], wanted[i], k)

\* ShowsWanted, from the reset code on that makes the LEDs latch.
Lit ==
    /\ result = "ok" \/ call = "sent"
    /\ backend = "rmt" \/ \A i \in Pixels : wanted[i] # NULL
    => \A i \in Pixels : Shows(i)

(***************************************************************************)
(* Inductive relative to StripIInv.  ShowsWanted alone is not: the last    *)
(* interrupt writes what the LEDs show before the result is known, which   *)
(* Lit adds, and what it writes is the buffer, which Stored relates to     *)
(* what was asked.                                                         *)
(***************************************************************************)
ColourIInv == Stored /\ Lit /\ (backend = "none" => result = "none")

\* The byte that a cell of the RMT buffer, or the pulses of one of the SPI buffer,
\* give is near the one asked for.
LEMMA CodesByte ==
    ASSUME NEW cell, NEW asked, NEW k \in 1 .. 4, Codes(cell, asked, k)
    PROVE  /\ backend = "rmt" =>
                /\ Value(cell) \in Nat
                /\ Near(Value(cell), Grbw(IF asked = NULL THEN Off ELSE asked)[k])
           /\ backend # "rmt" /\ asked # NULL =>
                \E b \in Nat : Near(b, Grbw(asked)[k]) /\ Pulses(cell) = <<b>>
<1>1. CASE asked = NULL
  <2>1. Value(cell) = 0 /\ Grbw(Off)[k] = 0
    BY <1>1 DEF Codes, Value, Grbw, Off
  <2>2. QED
    BY <1>1, <2>1 DEF Near
<1>2. CASE asked # NULL
  <2>1. PICK d \in Nat : Near(d % 256, Grbw(asked)[k]) /\ cell = Coded(d, {})
    BY <1>2 DEF Codes
  <2>2. d % 256 \in Nat
    OBVIOUS
  <2>3. QED
    BY <1>2, <2>1, <2>2, ByteBack, PulsesBack DEF Coded
<1>3. QED
  BY <1>1, <1>2

\* A complete train of bytes near those asked for lights each LED as asked.
LEMMA TrainShows ==
    ASSUME StripTypeOK, NEW val, NEW i \in Pixels, NEW c,
           \A k \in 1 .. bytes_per_pixel :
               /\ val[i * bytes_per_pixel + k - 1] \in Nat
               /\ Near(val[i * bytes_per_pixel + k - 1], Grbw(c)[k])
    PROVE  LET led == Latched([j \in 1 .. Total |-> val[j - 1]])[i]
           IN  led # NULL /\ \A k \in 1 .. bytes_per_pixel : Near(led[k], Grbw(c)[k])
<1> DEFINE led == [k \in 1 .. bytes_per_pixel |-> val[i * bytes_per_pixel + k - 1]]
<1>1. led \in [1 .. bytes_per_pixel -> Nat]
  OBVIOUS
<1>2. led # NULL
  BY <1>1, StripAssumption DEF StripTypeOK
<1>3. Latched([j \in 1 .. Total |-> val[j - 1]])[i] = led
  BY LatchesOwn
<1>4. \A k \in 1 .. bytes_per_pixel : Near(led[k], Grbw(c)[k])
  OBVIOUS
<1> HIDE DEF led
<1>5. QED
  BY <1>2, <1>3, <1>4

\* So does the train that the encoder sends.
LEMMA RmtShows ==
    ASSUME StripTypeOK, Stored, backend = "rmt", NEW i \in Pixels
    PROVE  LET led == Latched(Sent(Total))[i]
               c   == IF wanted[i] = NULL THEN Off ELSE wanted[i]
           IN  led # NULL /\ \A k \in 1 .. bytes_per_pixel : Near(led[k], Grbw(c)[k])
<1> DEFINE val == [j \in Cells |-> Value(pixel_buf[j])]
           c   == IF wanted[i] = NULL THEN Off ELSE wanted[i]
<1>0. strip_len \in Nat /\ bytes_per_pixel \in {3, 4} /\ i \in 0 .. strip_len - 1
      /\ 1 .. bytes_per_pixel \subseteq 1 .. 4
  BY DEF StripTypeOK, Pixels
<1>1. Sent(Total) = [j \in 1 .. Total |-> val[j - 1]]
  BY TotalNat DEF Sent, Cells, Total
<1>2. ASSUME NEW k \in 1 .. bytes_per_pixel
      PROVE  /\ val[i * bytes_per_pixel + k - 1] \in Nat
             /\ Near(val[i * bytes_per_pixel + k - 1], Grbw(c)[k])
  <2>1. i * bytes_per_pixel + k - 1 \in Cells
    BY <1>0, CellsOf DEF Cells
  <2>2. Codes(pixel_buf[i * bytes_per_pixel + k - 1], wanted[i], k)
    BY DEF Stored
  <2>3. QED
    BY <1>0, <2>1, <2>2, CodesByte
<1> HIDE DEF val, c
<1>3. QED
  BY <1>1, <1>2, TrainShows DEF c

\* And, once every pixel was set or cleared, the one on the line of the SPI bus.
LEMMA SpiShows ==
    ASSUME StripTypeOK, Stored, backend = "spi", \A i \in Pixels : wanted[i] # NULL,
           NEW i \in Pixels
    PROVE  LET led == Latched(SpiLine)[i]
           IN  led # NULL /\ \A k \in 1 .. bytes_per_pixel : Near(led[k], Grbw(wanted[i])[k])
<1> DEFINE val == [j \in Cells |-> Pulses(pixel_buf[j])[1]]
<1>0. strip_len \in Nat /\ bytes_per_pixel \in {3, 4} /\ Pixels = 0 .. strip_len - 1
      /\ 1 .. bytes_per_pixel \subseteq 1 .. 4
  BY DEF StripTypeOK, Pixels
<1>1. ASSUME NEW l \in Pixels, NEW k \in 1 .. bytes_per_pixel
      PROVE  LET j == l * bytes_per_pixel + k - 1 IN
             /\ val[j] \in Nat /\ Near(val[j], Grbw(wanted[l])[k])
             /\ Pulses(pixel_buf[j]) = <<val[j]>>
  <2> DEFINE j == l * bytes_per_pixel + k - 1
  <2>1. j \in Cells
    BY <1>0, CellsOf DEF Cells
  <2>2. Codes(pixel_buf[j], wanted[l], k) /\ wanted[l] # NULL
    BY DEF Stored
  <2> HIDE DEF j
  <2>3. PICK b \in Nat : Near(b, Grbw(wanted[l])[k]) /\ Pulses(pixel_buf[j]) = <<b>>
    BY <1>0, <2>2, CodesByte
  <2>4. val[j] = b
    BY <2>1, <2>3
  <2>5. QED
    BY <2>3, <2>4 DEF j
<1>2. \A j \in 0 .. Total - 1 : Pulses(pixel_buf[j]) = <<val[j]>>
  <2> TAKE j \in 0 .. Total - 1
  <2>1. PICK l \in Pixels, k \in 1 .. bytes_per_pixel : j = l * bytes_per_pixel + k - 1
    BY <1>0, PixelOf DEF Total
  <2>2. QED
    BY <1>1, <2>1
<1> HIDE DEF val
<1>3. SpiLine = [j \in 1 .. Total |-> val[j - 1]]
  BY <1>2, LineInOrder, TotalNat
<1>4. QED
  BY <1>1, <1>3, TrainShows

\* What is stored does not depend on anything else.
LEMMA StoredKept ==
    ASSUME Stored, UNCHANGED <<backend, strip_len, bytes_per_pixel, pixel_buf, wanted>>
    PROVE  Stored'
<1>1. \A d : Coded(d, {})' = Coded(d, {})
  BY DEF Coded
<1>2. UNCHANGED <<backend, strip_len, bytes_per_pixel, pixel_buf, wanted>>
  OBVIOUS
<1>3. ASSUME NEW i \in Pixels, NEW k \in 1 .. bytes_per_pixel, backend # "none"
      PROVE  Codes(pixel_buf[i * bytes_per_pixel + k - 1], wanted[i], k)'
  <2>1. Codes(pixel_buf[i * bytes_per_pixel + k - 1], wanted[i], k)
    BY <1>3 DEF Stored
  <2>2. QED
    BY <1>1, <1>2, <2>1, Zenon DEF Codes
<1>4. QED
  BY <1>2, <1>3 DEF Stored, Pixels

\* Setting a pixel stores a colour near the one asked, and leaves the others.
LEMMA PutStores ==
    ASSUME StripTypeOK, Stored, NEW i, NEW c, NEW asked, Put(i, c, asked), asked # NULL,
           \A k \in 1 .. 4 : Grbw(c)[k] \in Nat /\ Near(Grbw(c)[k] % 256, Grbw(asked)[k])
    PROVE  Stored'
<1>1. CASE i \notin Pixels
  BY <1>1, StoredKept DEF Put, objVars
<1>2. CASE i \in Pixels
  <2>1. /\ Store(i, c) /\ wanted' = [wanted EXCEPT ![i] = asked]
        /\ UNCHANGED objVars /\ backend # "none"
    BY <1>2 DEF Put, Ready
  <2>2. strip_len \in Nat /\ bytes_per_pixel \in {3, 4} /\ 1 .. bytes_per_pixel \subseteq 1 .. 4
    BY DEF StripTypeOK
  <2>3. DOMAIN wanted = Pixels /\ DOMAIN wanted' = Pixels
    BY <2>1 DEF Stored
  <2>4. ASSUME NEW l \in Pixels, NEW k \in 1 .. bytes_per_pixel
        PROVE  Codes(pixel_buf'[l * bytes_per_pixel + k - 1], wanted'[l], k)
    <3> DEFINE j == l * bytes_per_pixel + k - 1
    <3>1. j \in Cells /\ j \div bytes_per_pixel = l /\ (j % bytes_per_pixel) + 1 = k
      BY <2>2, CellsOf DEF Cells, Pixels
    <3> HIDE DEF j
    <3>2. pixel_buf'[j] = IF l = i THEN Coded(Grbw(c)[k], pixel_buf[j]) ELSE pixel_buf[j]
      BY <2>1, <3>1 DEF Store
    <3>3. CASE l = i
      <4>1. wanted'[l] = asked
        BY <2>1, <2>3, <3>3
      <4>2. pixel_buf'[j] = Coded(Grbw(c)[k], {})
        BY <3>2, <3>3 DEF Coded
      <4>3. QED
        BY <2>2, <4>1, <4>2 DEF Codes, j
    <3>4. CASE l # i
      <4>1. wanted'[l] = wanted[l] /\ pixel_buf'[j] = pixel_buf[j]
        BY <2>1, <2>3, <3>2, <3>4
      <4>2. QED
        BY <2>1, <4>1 DEF Stored, j
    <3>5. QED
      BY <3>3, <3>4
  <2>5. \A d : Coded(d, {})' = Coded(d, {})
    BY <2>1 DEF Coded, objVars
  <2>6. UNCHANGED <<backend, strip_len, bytes_per_pixel>>
    BY <2>1 DEF objVars
  <2>7. ASSUME NEW l \in Pixels, NEW k \in 1 .. bytes_per_pixel
        PROVE  Codes(pixel_buf[l * bytes_per_pixel + k - 1], wanted[l], k)'
    <3>1. Codes(pixel_buf'[l * bytes_per_pixel + k - 1], wanted'[l], k)
      BY <2>4
    <3>2. QED
      BY <2>5, <2>6, <3>1, Zenon DEF Codes
  <2>8. QED
    BY <2>3, <2>6, <2>7 DEF Stored, Pixels
<1>3. QED
  BY <1>1, <1>2

\* So do the three calls that set a pixel.
LEMMA ColouringStores ==
    ASSUME HuesBelow360, StripTypeOK, Stored, NEW i \in Indices, Colouring(i)
    PROVE  Stored'
<1>1. ASSUME NEW x \in Nat, NEW y \in Nat, NEW z \in Nat, NEW w \in Nat,
             Put(i, <<x, y, z, w>>, Bytes(<<x, y, z, w>>))
      PROVE  Stored'
  <2> DEFINE d == <<x, y, z, w>>
  <2>1. Bytes(d) \in [1 .. 4 -> Nat]
    BY DEF Bytes
  <2>2. Bytes(d) # NULL
    BY <2>1, StripAssumption
  <2>3. Grbw(d) = <<y, x, z, w>> /\ Grbw(Bytes(d)) = <<y % 256, x % 256, z % 256, w % 256>>
    BY DEF Grbw, Bytes
  <2>4. \A k \in 1 .. 4 : Grbw(d)[k] \in Nat /\ Near(Grbw(d)[k] % 256, Grbw(Bytes(d))[k])
    BY <2>3 DEF Near
  <2>5. QED
    BY <1>1, <2>2, <2>4, PutStores
<1>2. ASSUME NEW c \in Colors, SetPixel(i, c)
      PROVE  Stored'
  <2>1. c[1] \in Nat /\ c[2] \in Nat /\ c[3] \in Nat
    BY StripAssumption
  <2>2. QED
    BY <1>1, <1>2, <2>1 DEF SetPixel
<1>3. ASSUME NEW c \in Colors, NEW w \in Whites, SetPixelRgbw(i, c, w)
      PROVE  Stored'
  <2>1. c[1] \in Nat /\ c[2] \in Nat /\ c[3] \in Nat /\ w \in Nat
    BY StripAssumption
  <2>2. QED
    BY <1>1, <1>3, <2>1 DEF SetPixelRgbw
<1>4. ASSUME NEW hsv \in Hsvs, SetPixelHsv(i, hsv)
      PROVE  Stored'
  <2> DEFINE c     == Rgb(hsv[1], hsv[2], hsv[3])
             d     == <<c[1], c[2], c[3], 0>>
             asked == Hue(hsv[1], hsv[2], hsv[3])
  <2>1. hsv[1] \in 0 .. 359 /\ hsv[2] \in 0 .. 255 /\ hsv[3] \in 0 .. 255
    BY StripAssumption DEF HuesBelow360
  <2>2. \A k \in 1 .. 3 : c[k] \in 0 .. 255 /\ Near(c[k], asked[k])
    BY <2>1, HueNear
  <2>3. asked \in [1 .. 4 -> Nat] /\ asked[4] = 0
    BY <2>1, HueNat
  <2> HIDE DEF c, asked
  <2>4. asked # NULL
    BY <2>3, StripAssumption
  <2>5. \A k \in 1 .. 4 : Grbw(d)[k] \in Nat /\ Near(Grbw(d)[k] % 256, Grbw(asked)[k])
    <3>1. /\ Grbw(d) = <<c[2], c[1], c[3], 0>>
          /\ Grbw(asked) = <<asked[2], asked[1], asked[3], asked[4]>>
      BY DEF Grbw
    <3>2. \A x \in 0 .. 255 : x % 256 = x
      OBVIOUS
    <3>3. 0 % 256 = 0 /\ Near(0, 0)
      BY DEF Near
    <3>4. QED
      BY <2>2, <2>3, <3>1, <3>2, <3>3
  <2>6. Put(i, d, asked)
    BY <1>4 DEF SetPixelHsv, c, asked
  <2> HIDE DEF d
  <2>7. QED
    BY <2>4, <2>5, <2>6, PutStores
<1>5. QED
  BY <1>2, <1>3, <1>4 DEF Colouring

\* The buffer follows the requests.
LEMMA StoredStep == HuesBelow360 /\ StripIInv /\ Stored /\ [StripNext]_stripVars => Stored'
<1> SUFFICES ASSUME HuesBelow360, StripIInv, Stored, [StripNext]_stripVars
             PROVE  Stored'
  OBVIOUS
<1>1. StripTypeOK
  BY DEF StripIInv
<1>2. ASSUME NEW b \in {"rmt", "spi"}, NEW n \in Lens, NEW w \in {3, 4}, New(b, n, w)
      PROVE  Stored'
  <2>1. /\ pixel_buf' = [j \in 0 .. n * w - 1 |-> {}]
        /\ wanted' = [i \in 0 .. n - 1 |-> NULL]
        /\ strip_len' = n /\ bytes_per_pixel' = w /\ n \in Nat
    BY <1>2, StripAssumption DEF New, Size
  <2>2. ASSUME NEW i \in 0 .. n - 1, NEW k \in 1 .. w
        PROVE  pixel_buf'[i * w + k - 1] = {} /\ wanted'[i] = NULL
    <3>1. i * w + k - 1 \in 0 .. n * w - 1
      BY <2>1, CellsOf
    <3>2. QED
      BY <2>1, <3>1
  <2>3. QED
    BY <2>1, <2>2 DEF Stored, Codes, Pixels
<1>3. ASSUME NEW b \in {"rmt", "spi"}, NEW k \in DOMAIN Order(b), NewFails(b, k)
      PROVE  Stored'
  BY <1>3 DEF NewFails, Stored
<1>4. CASE Del
  BY <1>4 DEF Del, Stored
<1>5. ASSUME NEW i \in Indices, Colouring(i)
      PROVE  Stored'
  BY <1>1, <1>5, ColouringStores
<1>6. CASE Clear
  <2>1. /\ pixel_buf' = [j \in Cells |-> Coded(0, pixel_buf[j])]
        /\ wanted' = [i \in Pixels |-> Off] /\ UNCHANGED objVars
    BY <1>6 DEF Clear
  <2>2. strip_len \in Nat /\ bytes_per_pixel \in {3, 4} /\ 1 .. bytes_per_pixel \subseteq 1 .. 4
    BY <1>1 DEF StripTypeOK
  <2>3. Off \in [1 .. 4 -> Nat] /\ Off # NULL
    BY StripAssumption DEF Off
  <2>4. \A k \in 1 .. 4 : Near(0 % 256, Grbw(Off)[k])
    BY DEF Near, Grbw, Off
  <2>5. ASSUME NEW i \in Pixels, NEW k \in 1 .. bytes_per_pixel
        PROVE  Codes(pixel_buf'[i * bytes_per_pixel + k - 1], wanted'[i], k)
    <3>1. i * bytes_per_pixel + k - 1 \in Cells
      BY <2>2, CellsOf DEF Cells, Pixels
    <3>2. pixel_buf'[i * bytes_per_pixel + k - 1] = Coded(0, {})
      BY <2>1, <3>1 DEF Coded
    <3>3. QED
      BY <2>1, <2>2, <2>3, <2>4, <3>2 DEF Codes
  <2>6. QED
    BY <2>1, <2>5 DEF Stored, Codes, Coded, Pixels, objVars
<1>7. CASE OtherDriver \/ Refresh \/ RmtEnable \/ RmtTransmit \/ RmtEncode \/ RmtDisable
           \/ SpiTransmit \/ UNCHANGED stripVars
  BY <1>7, StoredKept DEF OtherDriver, Refresh, RmtEnable, RmtTransmit, RmtEncode, RmtDisable,
                          SpiTransmit, stripVars, objVars
<1>8. QED
  BY <1>2, <1>3, <1>4, <1>5, <1>6, <1>7 DEF StripNext, Colouring

\* The LEDs follow the buffer, from the last interrupt of a refresh, or its one SPI
\* transaction, to the next change of a pixel.
LEMMA LitStep == StripIInv /\ ColourIInv /\ [StripNext]_stripVars => Lit'
<1> SUFFICES ASSUME StripIInv, ColourIInv, [StripNext]_stripVars
             PROVE  Lit'
  OBVIOUS
<1>1. StripTypeOK /\ Channel /\ Stored /\ Lit
  BY DEF StripIInv, ColourIInv
<1>2. ASSUME UNCHANGED <<backend, strip_len, bytes_per_pixel, shown, wanted>>,
             result' = "ok" \/ call' = "sent" => result = "ok" \/ call = "sent"
      PROVE  Lit'
  BY <1>1, <1>2 DEF Lit, Shows, Pixels
<1>3. ASSUME result' # "ok", call' # "sent"
      PROVE  Lit'
  BY <1>3 DEF Lit
<1>4. ASSUME NEW b \in {"rmt", "spi"}, NEW n \in Lens, NEW w \in {3, 4}, New(b, n, w)
      PROVE  Lit'
  BY <1>1, <1>3, <1>4 DEF New, Channel
<1>5. ASSUME NEW b \in {"rmt", "spi"}, NEW k \in DOMAIN Order(b), NewFails(b, k)
      PROVE  Lit'
  BY <1>2, <1>5 DEF NewFails
<1>6. CASE Del
  BY <1>3, <1>6 DEF Del
<1>7. ASSUME NEW i \in Indices, Colouring(i)
      PROVE  Lit'
  <2>1. ASSUME NEW c, NEW asked, Put(i, c, asked)
        PROVE  Lit'
    BY <1>2, <1>3, <2>1 DEF Put, Ready, objVars
  <2>2. QED
    BY <1>7, <2>1 DEF Colouring, SetPixel, SetPixelRgbw, SetPixelHsv
<1>8. CASE Clear
  BY <1>3, <1>8 DEF Clear
<1>9. CASE OtherDriver \/ Refresh \/ RmtEnable \/ RmtTransmit \/ RmtDisable
           \/ UNCHANGED stripVars
  BY <1>2, <1>9 DEF OtherDriver, Refresh, RmtEnable, RmtTransmit, RmtDisable, Return, objVars, stripVars
<1>10. CASE RmtEncode
  <2>1. CASE call' = "sent"
    <3>1. /\ shown' = Latched(wire')
          /\ UNCHANGED <<backend, strip_len, bytes_per_pixel, pixel_buf, wanted>>
      BY <1>10, <2>1 DEF RmtEncode, objVars
    <3>2. wire' = Sent(Total)
      BY <2>1, <3>1, EncoderStep DEF Encoder, Sent, Total
    <3>3. backend = "rmt"
      BY <1>1, <1>10 DEF RmtEncode, Channel
    <3>4. \A i \in Pixels : shown'[i] = Latched(Sent(Total))[i]
      BY <3>1, <3>2
    <3>5. \A i \in Pixels : Shows(i)'
      BY <1>1, <3>1, <3>3, <3>4, RmtShows DEF Shows, Off
    <3>6. QED
      BY <3>1, <3>5 DEF Lit, Pixels
  <2>2. CASE call' # "sent"
    <3>1. UNCHANGED <<backend, strip_len, bytes_per_pixel, shown, wanted, result>>
      BY <1>10, <2>2 DEF RmtEncode, objVars
    <3>2. QED
      BY <1>2, <2>2, <3>1
  <2>3. QED
    BY <2>1, <2>2
<1>11. CASE SpiTransmit
  <2>1. UNCHANGED <<backend, strip_len, bytes_per_pixel, pixel_buf, wanted>> /\ backend = "spi"
    BY <1>11 DEF SpiTransmit, objVars
  <2>2. CASE result' = "ok"
    <3>1. shown' = Latched(SpiLine)
      BY <1>11, <2>2 DEF SpiTransmit, Return
    <3>2. ASSUME \A i \in Pixels : wanted[i] # NULL
          PROVE  \A i \in Pixels : Shows(i)'
      BY <1>1, <2>1, <3>1, <3>2, SpiShows DEF Shows
    <3>3. QED
      BY <2>1, <3>2 DEF Lit, Pixels
  <2>3. CASE result' # "ok"
    BY <1>3, <1>11, <2>3 DEF SpiTransmit, Return
  <2>4. QED
    BY <2>2, <2>3
<1>12. QED
  BY <1>4, <1>5, <1>6, <1>7, <1>8, <1>9, <1>10, <1>11 DEF StripNext, Colouring

\* Without a strip there is no refresh to speak of.
LEMMA NoResultStep ==
    StripIInv /\ ColourIInv /\ [StripNext]_stripVars => (backend = "none" => result = "none")'
<1> SUFFICES ASSUME StripIInv, ColourIInv, StripNext, backend' = "none"
             PROVE  result' = "none"
  BY DEF ColourIInv, stripVars, objVars
<1>1. Channel /\ (backend = "none" => result = "none")
  BY DEF StripIInv, ColourIInv
<1>2. \A i \in Indices : ~Colouring(i)
  BY ColouringOnlyStores DEF Ready, objVars
<1>3. QED
  BY <1>1, <1>2 DEF StripNext, Colouring, New, NewFails, Del, OtherDriver, Refresh, Clear, Ready, RmtEnable,
     RmtTransmit, RmtEncode, RmtDisable, SpiTransmit, Channel, objVars

\* Both hold in every reachable state.
LEMMA ColourInvariant == HuesBelow360 => (StripSpec => []ColourIInv)
<1> SUFFICES ASSUME HuesBelow360
             PROVE  StripSpec => []ColourIInv
  OBVIOUS
<1>1. StripInit => ColourIInv
  BY DEF StripInit, ColourIInv, Stored, Lit
<1>2. StripIInv /\ ColourIInv /\ [StripNext]_stripVars => ColourIInv'
  <2>1. (Stored /\ Lit /\ (backend = "none" => result = "none"))' <=> ColourIInv'
    BY DEF ColourIInv
  <2>2. ColourIInv => Stored
    BY DEF ColourIInv
  <2>3. QED
    BY <2>1, <2>2, StoredStep, LitStep, NoResultStep
<1>3. QED
  BY <1>1, <1>2, StripInvariant, PTL DEF StripSpec

(***************************************************************************)
(* After a refresh that succeeded every LED shows the last colour asked,   *)
(* for every strip, every colour, white and hue below 360 degrees, either  *)
(* back end and whatever failed or was refused before.  The run strip_hue  *)
(* shows that the hypothesis is needed.                                    *)
(***************************************************************************)
THEOREM LedsShowWanted == HuesBelow360 => (StripSpec => []ShowsWanted)
<1> SUFFICES ASSUME HuesBelow360
             PROVE  StripSpec => []ShowsWanted
  OBVIOUS
<1>1. ColourIInv => ShowsWanted
  BY DEF ColourIInv, Lit, ShowsWanted
<1>2. StripSpec => []ColourIInv
  BY ColourInvariant
<1>3. QED
  BY <1>1, <1>2, PTL

------------------------------------------------------------------------------
\* Every interrupt brings a refresh nearer to its end

\* An interrupt finds room for a byte.
Room == call = "encode" => free >= 8

\* It does in every reachable state.
LEMMA RoomInvariant == StripSpec => []Room
<1>1. StripInit => Room
  BY DEF StripInit, Room
<1>2. StripIInv /\ Room /\ [StripNext]_stripVars => Room'
  <2> SUFFICES ASSUME StripIInv, Room, [StripNext]_stripVars, call' = "encode"
               PROVE  free' >= 8
    BY DEF Room
  <2>1. MemSymbols >= 8 /\ MemSymbols \div 2 >= 8
    BY StripAssumption
  <2>2. CASE RmtTransmit
    BY <2>1, <2>2 DEF RmtTransmit, Return
  <2>3. CASE RmtEncode
    BY <2>1, <2>3 DEF RmtEncode
  <2>4. ASSUME NEW i \in Indices, Colouring(i)
        PROVE  free' >= 8
    BY <2>4, ColouringOnlyStores DEF Room, rmtVars
  <2>5. ASSUME NEW b \in {"rmt", "spi"}, NEW n \in Lens, NEW w \in {3, 4}, New(b, n, w)
        PROVE  free' >= 8
    BY <2>5 DEF New, StripIInv, Channel
  <2>6. ASSUME NEW b \in {"rmt", "spi"}, NEW k \in DOMAIN Order(b), NewFails(b, k)
        PROVE  free' >= 8
    BY <2>6 DEF NewFails, Room, rmtVars
  <2>7. CASE Del \/ OtherDriver \/ Refresh \/ Clear \/ RmtEnable \/ RmtDisable \/ SpiTransmit
             \/ UNCHANGED stripVars
    BY <2>7 DEF Del, OtherDriver, Refresh, Clear, RmtEnable, RmtDisable, SpiTransmit, Return, Room, rmtVars,
                stripVars
  <2>8. QED
    BY <2>2, <2>3, <2>4, <2>5, <2>6, <2>7 DEF StripNext, Colouring
<1>3. QED
  BY <1>1, <1>2, StripInvariant, PTL DEF StripSpec

\* What the encoder has still to do: the data it has not encoded and the reset code.
Rest == IF state = 0 THEN Total - last_byte + 1 ELSE 0

\* An interrupt leaves less to do, or completes the transmission.
Advances == RmtEncode => Rest \in Nat /\ (call' = "sent" \/ Rest' \in 0 .. Rest - 1)

(***************************************************************************)
(* The part of RefreshReturns that needs no fairness: an interrupt leaves  *)
(* the encoder less to do or completes the transmission, for any length of *)
(* the strip and any size of the symbol memory, so that a transmission     *)
(* takes at most two more interrupts than it has bytes.                    *)
(***************************************************************************)
THEOREM EncoderAdvances == StripSpec => [][Advances]_stripVars
<1>1. StripIInv /\ Room /\ [StripNext]_stripVars => [Advances]_stripVars
  <2> SUFFICES ASSUME StripIInv, Room, RmtEncode
               PROVE  Rest \in Nat /\ (call' = "sent" \/ Rest' \in 0 .. Rest - 1)
    BY DEF Advances
  <2> DEFINE left == strip_len * bytes_per_pixel - last_byte
             k    == IF state = 0 THEN Lesser(free \div 8, left) ELSE 0
             done == state = 1 \/ k = left
             full == state = 0 /\ free = 8 * k
  <2>1. /\ StripTypeOK /\ Encoder /\ call = "encode"
        /\ Total \in Nat /\ Total' = Total /\ last_byte \in Nat /\ state \in {0, 1} /\ free \in Nat
    BY TotalNat DEF StripIInv, StripTypeOK, RmtEncode, Total, objVars
  <2>2. state = 0 => last_byte <= Total
    BY <2>1 DEF Encoder
  <2>3. Rest \in Nat
    BY <2>1, <2>2 DEF Rest
  <2>4. CASE full
    <3>1. /\ state' = (IF done THEN 1 ELSE 0)
          /\ last_byte' = (IF done THEN 0 ELSE last_byte + k)
      BY <2>4 DEF RmtEncode
    <3>2. k \in Nat /\ k <= left /\ left = Total - last_byte /\ (done <=> k = left)
      BY <2>1, <2>4, Encodes DEF Total
    <3>3. k >= 1
      BY <2>1, <2>4, <3>2 DEF Room
    <3> HIDE DEF k, left
    <3>4. CASE k = left
      BY <2>1, <2>2, <2>4, <3>1, <3>2, <3>4 DEF Rest
    <3>5. CASE k # left
      <4>1. state' = 0 /\ last_byte' = last_byte + k
        BY <3>1, <3>2, <3>5
      <4>2. QED
        BY <2>1, <2>2, <2>4, <3>2, <3>3, <3>5, <4>1 DEF Rest
    <3>6. QED
      BY <2>3, <3>4, <3>5
  <2>5. CASE ~full
    BY <2>3, <2>5 DEF RmtEncode
  <2>6. QED
    BY <2>4, <2>5
<1>2. QED
  BY <1>1, StripInvariant, RoomInvariant, PTL DEF StripSpec

=============================================================================
