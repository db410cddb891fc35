------------------------------- MODULE LedStrip -------------------------------
(***************************************************************************)
(* The LED strip driver the sensor uses (espressif__led_strip): one strip  *)
(* object with the RMT or the SPI back end behind led_strip_api.c, from    *)
(* its creation to led_strip_del().  The caller is any task that makes one *)
(* call at a time; led.c makes four of these calls, on a strip of one LED. *)
(* The SPI bus may be another driver's.                                    *)
(*                                                                         *)
(* The peripherals are external.  With RMT, the encoder of this component  *)
(* is called from an interrupt each time half of the symbol memory is      *)
(* free, and has to resume where it stopped.  A colour byte takes eight    *)
(* symbols, the reset code that makes the LEDs latch takes one.            *)
(***************************************************************************)
EXTENDS Integers, Sequences

CONSTANTS
    Lens,        \* max_leds of the strips created
    Colors,      \* <<red, green, blue>> passed to set_pixel: uint32_t
    Whites,      \* the white of set_pixel_rgbw
    Hsvs,        \* <<hue, saturation, value>> passed to set_pixel_hsv, in the
                 \* ranges led_strip.h gives
    MemSymbols,  \* mem_block_symbols of the RMT channel
    NULL,        \* no colour
    MayFail      \* calls of the peripheral drivers that may fail

RmtResources == {"strip", "channel", "encoder", "bytes", "copy"}
SpiResources == {"strip", "device"}   \* and the bus

ASSUME StripAssumption ==
    /\ Lens \subseteq Nat
    /\ Colors \subseteq Nat \X Nat \X Nat
    /\ Whites \subseteq Nat
    /\ Hsvs \subseteq (0 .. 360) \X (0 .. 255) \X (0 .. 255)
    /\ MemSymbols \in Nat \ {0} /\ MemSymbols % 16 = 0
    /\ NULL \notin [1 .. 3 -> Nat] \cup [1 .. 4 -> Nat]
    /\ MayFail \subseteq {"create", "enable", "transmit", "disable", "delete"}

\* led_strip.h documents hues up to 360; the code has none for that one.
HuesBelow360 == \A hsv \in Hsvs : hsv[1] # 360

VARIABLES
    backend,    \* of the strip behind the handle, "none" without one
    held,       \* what is allocated for it
    bus,        \* who has the SPI bus: "free", "strip", "other" (a driver elsewhere
                \* in the program) or "leaked" (nobody, and it is not free)
    leaked,     \* what stays allocated without a handle
    strip_len,  \* its LEDs
    bytes_per_pixel,
    pixel_buf,  \* for each colour byte, the bits that are 1 in its one (RMT) or
                \* three (SPI) bytes of memory
    enabled,    \* RMT: the channel is enabled
    call,       \* how far the call to refresh() or clear() is
    state,      \* RMT encoder: 0 sends the data, 1 the reset code
    last_byte,  \* bytes encoder: the first byte it has not encoded
    free,       \* symbols free when the encoder is called
    wire,       \* the colour bytes sent in this transmission
    shown,      \* what the LEDs show
    wanted,     \* history: the colour asked for each pixel
    result,     \* history: of the last refresh, "none" when a pixel changed since
    failed      \* history: a call of the RMT or SPI driver failed in a refresh

objVars   == <<backend, held, bus, leaked, strip_len, bytes_per_pixel>>
rmtVars   == <<enabled, state, last_byte, free, wire>>
stripVars == <<objVars, pixel_buf, rmtVars, call, shown, wanted, result, failed>>

Pixels == 0 .. strip_len - 1
Cells  == 0 .. strip_len * bytes_per_pixel - 1
Off    == <<0, 0, 0, 0>>

StripInit ==
    /\ backend = "none" /\ held = {} /\ bus = "free" /\ leaked = {}
    /\ strip_len = 0 /\ bytes_per_pixel = 3
    /\ pixel_buf = <<>> /\ enabled = FALSE /\ call = "idle"
    /\ state = 0 /\ last_byte = 0 /\ free = 0 /\ wire = <<>>
    /\ shown = <<>> /\ wanted = <<>> /\ result = "none" /\ failed = FALSE

------------------------------------------------------------------------------
\* Creation and deletion

\* Mutant of Size: three bytes a pixel, whatever the format.
SizeOfGrb(n, w) == n * 3

Size(n, w) == n * w

\* The buffer comes from calloc(): with SPI no byte of it is a coded colour.
New(b, n, w) ==
    /\ backend = "none"
    /\ backend' = b
    /\ held' = (IF b = "rmt" THEN RmtResources ELSE SpiResources)
    /\ \/ b = "rmt" /\ UNCHANGED bus
       \/ b = "spi" /\ bus = "free" /\ bus' = "strip"
    /\ strip_len' = n /\ bytes_per_pixel' = w
    /\ pixel_buf' = [j \in 0 .. Size(n, w) - 1 |-> {}]
    /\ enabled' = FALSE /\ state' = 0 /\ last_byte' = 0 /\ free' = 0 /\ wire' = <<>>
    /\ shown' = [i \in 0 .. n - 1 |-> NULL]
    /\ wanted' = [i \in 0 .. n - 1 |-> NULL]
    /\ result' = "none" /\ failed' = FALSE
    /\ UNCHANGED <<leaked, call>>

\* In the order of new_rmt_device() with new_led_strip_encoder(), and of
\* new_spi_device(), whose last test is of the clock.
Order(b) == IF b = "rmt" THEN <<"strip", "channel", "encoder", "bytes", "copy">>
                         ELSE <<"strip", "bus", "device", "clock">>

\* Mutant of Cleanup: the channel outlives an encoder that could not be made.
CleanupNoChannel(got) == IF "strip" \in got
                         THEN got \ {"encoder", "bytes", "copy", "device", "bus", "strip"}
                         ELSE got

(***************************************************************************)
(* The labels err, but for the bus.  new_led_strip_encoder() gives back    *)
(* its own three objects; the strip's label then gives back the channel,   *)
(* or the device, and the strip.                                           *)
(***************************************************************************)
Cleanup(got) ==
    LET left == IF "encoder" \in got THEN got \ {"bytes", "copy", "encoder"} ELSE got
    IN  IF "strip" \in left THEN left \ {"channel", "device", "bus", "strip"} ELSE left

(***************************************************************************)
(* spi_bus_free(): who has the bus after it, if owner had it before.  It   *)
(* refuses a bus another driver has devices on, and may fail otherwise.    *)
(***************************************************************************)
BusFreed(owner) ==
    {"free"} \cup (IF owner = "other" \/ "delete" \in MayFail THEN {owner} ELSE {})

(***************************************************************************)
(* Step k of the creation fails; spi_bus_initialize() does for any bus     *)
(* that is not free.  spi_host is set before it, so the label frees the    *)
(* bus whenever there is a strip: also the one that another driver has.    *)
(***************************************************************************)
NewFails(b, k) ==
    /\ backend = "none"
    /\ "create" \in MayFail \/ (Order(b)[k] = "bus" /\ bus # "free")
    /\ b = "spi" /\ k > 2 => bus = "free"
    /\ leaked' = leaked \cup Cleanup({Order(b)[j] : j \in 1 .. k - 1})
    /\ bus' \in IF b = "rmt" \/ k = 1 THEN {bus}
               ELSE IF k = 2 THEN BusFreed(bus) ELSE BusFreed("leaked")
    /\ UNCHANGED <<backend, held, strip_len, bytes_per_pixel, pixel_buf, rmtVars, call,
                   shown, wanted, result, failed>>

(***************************************************************************)
(* led_strip_del().  rmt_del_channel() refuses a channel that is enabled,  *)
(* and then nothing is given back.  When spi_bus_free() fails the device   *)
(* is gone already: no call on the handle is defined any more, and the     *)
(* strip and the bus are never given back.                                 *)
(***************************************************************************)
Del ==
    /\ backend # "none" /\ call = "idle" /\ ~enabled
    /\ \/ leaked' = leaked /\ bus' = (IF backend = "spi" THEN "free" ELSE bus)
       \/ /\ backend = "spi" /\ "delete" \in MayFail
          /\ leaked' = leaked \cup {"strip"} /\ bus' = "leaked"
    /\ held' = {} /\ backend' = "none"
    /\ strip_len' = 0 /\ pixel_buf' = <<>> /\ shown' = <<>> /\ wanted' = <<>>
    /\ result' = "none" /\ failed' = FALSE
    /\ UNCHANGED <<bytes_per_pixel, rmtVars, call>>

\* Another driver initializes the bus, or frees it.
OtherDriver ==
    /\ \/ bus = "free" /\ bus' = "other"
       \/ bus = "other" /\ bus' = "free"
    /\ UNCHANGED <<backend, held, leaked, strip_len, bytes_per_pixel, pixel_buf, rmtVars,
                   call, shown, wanted, result, failed>>

------------------------------------------------------------------------------
\* Colours

(***************************************************************************)
(* __led_strip_spi_bit(): a bit k of the colour is three SPI bits, 1 k 0.  *)
(* The places of the leading 1 and of k, for bits 0 to 7 of the colour.    *)
(***************************************************************************)
Bit(byte, bit) == 8 * byte + bit

Lead == <<Bit(2, 2), Bit(2, 5), Bit(1, 0), Bit(1, 3), Bit(1, 6), Bit(0, 1), Bit(0, 4), Bit(0, 7)>>
Data == <<Bit(2, 1), Bit(2, 4), Bit(2, 7), Bit(1, 2), Bit(1, 5), Bit(0, 0), Bit(0, 3), Bit(0, 6)>>

\* The bits of the low byte of an argument, and back.
Weight == <<1, 2, 4, 8, 16, 32, 64, 128>>

BitsOf(v)   == {k \in 0 .. 7 : (v \div Weight[k + 1]) % 2 = 1}
Value(bits) == LET At(k) == IF k \in bits THEN Weight[k + 1] ELSE 0
               IN  At(0) + At(1) + At(2) + At(3) + At(4) + At(5) + At(6) + At(7)

SpiBits(v, bits) == bits \cup {Lead[k] : k \in 1 .. 8} \cup {Data[k + 1] : k \in BitsOf(v)}

\* Mutant of Coded: the SPI bytes are not zeroed first.
CodedOver(v, old) == IF backend = "rmt" THEN BitsOf(v) ELSE SpiBits(v, old)

\* One colour in pixel_buf, whose bytes led_strip_spi_set_pixel() zeroes first.
Coded(v, old) == IF backend = "rmt" THEN BitsOf(v) ELSE SpiBits(v, {})

\* set_pixel() and set_pixel_rgbw(): the bytes are in the order GRB or GRBW.
Grbw(c) == <<c[2], c[1], c[3], c[4]>>

Store(i, c) ==
    pixel_buf' = [j \in Cells |->
        IF j \div bytes_per_pixel = i
        THEN Coded(Grbw(c)[(j % bytes_per_pixel) + 1], pixel_buf[j]) ELSE pixel_buf[j]]

Ready == backend # "none" /\ call = "idle"

\* An index beyond the strip is an error and changes nothing.
Put(i, c, asked) ==
    /\ Ready
    /\ IF i \in Pixels
       THEN Store(i, c) /\ wanted' = [wanted EXCEPT ![i] = asked] /\ result' = "none"
       ELSE UNCHANGED <<pixel_buf, wanted, result>>
    /\ UNCHANGED <<objVars, rmtVars, call, shown, failed>>

Bytes(c) == [k \in 1 .. 4 |-> c[k] % 256]

\* led_strip_set_pixel(): the white of a GRBW strip is switched off.
SetPixel(i, c) == LET d == <<c[1], c[2], c[3], 0>> IN Put(i, d, Bytes(d))

\* led_strip_set_pixel_rgbw(): an error on a GRB strip.
SetPixelRgbw(i, c, w) ==
    LET d == <<c[1], c[2], c[3], w>> IN bytes_per_pixel = 4 /\ Put(i, d, Bytes(d))

\* led_strip_set_pixel_hsv(): the colour by sectors of 60 degrees.
Rgb(h, s, v) ==
    LET min == (v * (255 - s)) \div 255
        adj == ((v - min) * (h % 60)) \div 60
    IN  CASE h \div 60 = 0 -> <<v, min + adj, min>>
          [] h \div 60 = 1 -> <<v - adj, v, min>>
          [] h \div 60 = 2 -> <<min, v, min + adj>>
          [] h \div 60 = 3 -> <<min, v - adj, v>>
          [] h \div 60 = 4 -> <<min + adj, min, v>>
          [] OTHER         -> <<v, min, v - adj>>

(***************************************************************************)
(* What the colour means: red, green and blue stand at 0, 120 and 240      *)
(* degrees, and each is full up to 60 degrees from its own, absent from    *)
(* 120 degrees on, and proportional between.                               *)
(***************************************************************************)
HueDistance(h, center) ==
    LET d == IF h >= center THEN h - center ELSE center - h IN IF d > 180 THEN 360 - d ELSE d

Hue(h, s, v) ==
    LET min == (v * (255 - s)) \div 255
        At(center) == LET d == HueDistance(h, center) IN
            IF d <= 60 THEN v ELSE IF d >= 120 THEN min ELSE min + ((v - min) * (120 - d)) \div 60
    IN  <<At(0), At(120), At(240), 0>>

SetPixelHsv(i, hsv) ==
    LET c == Rgb(hsv[1], hsv[2], hsv[3])
    IN  Put(i, <<c[1], c[2], c[3], 0>>, Hue(hsv[1], hsv[2], hsv[3]))

------------------------------------------------------------------------------
\* Refresh

\* led_strip_refresh(), and led_strip_clear(), which codes black first.
Refresh ==
    /\ Ready
    /\ call' = "refresh"
    /\ UNCHANGED <<objVars, pixel_buf, rmtVars, shown, wanted, result, failed>>

Clear ==
    /\ Ready
    /\ call' = "refresh"
    /\ pixel_buf' = [j \in Cells |-> Coded(0, pixel_buf[j])]
    /\ wanted' = [i \in Pixels |-> Off]
    /\ result' = "none"
    /\ UNCHANGED <<objVars, rmtVars, shown, failed>>

\* The call returns r; a driver's call failed in it if f.
Return(r, f) == call' = "idle" /\ result' = r /\ failed' = (failed \/ f)

\* rmt_enable() refuses a channel that is enabled already.
RmtEnable ==
    /\ backend = "rmt" /\ call = "refresh"
    /\ \/ /\ ~enabled
          /\ enabled' = TRUE /\ call' = "transmit"
          /\ UNCHANGED <<result, failed>>
       \/ enabled /\ Return("error", FALSE) /\ UNCHANGED enabled
       \/ "enable" \in MayFail /\ Return("error", TRUE) /\ UNCHANGED enabled
    /\ UNCHANGED <<objVars, pixel_buf, state, last_byte, free, wire, shown, wanted>>

\* rmt_transmit() refuses an empty buffer.  The early return leaves the channel
\* enabled.
RmtTransmit ==
    /\ call = "transmit"
    /\ \/ /\ strip_len # 0
          /\ call' = "encode" /\ free' = MemSymbols /\ wire' = <<>>
          /\ UNCHANGED <<result, failed>>
       \/ strip_len = 0 /\ Return("error", FALSE) /\ UNCHANGED <<free, wire>>
       \/ "transmit" \in MayFail /\ Return("error", TRUE) /\ UNCHANGED <<free, wire>>
    /\ UNCHANGED <<objVars, pixel_buf, enabled, state, last_byte, shown, wanted>>

\* What the LEDs show after the bytes w and a reset: each keeps the first bytes
\* it gets, and its old colour when it gets too few.
Latched(w) ==
    [i \in Pixels |-> IF Len(w) >= (i + 1) * bytes_per_pixel
                      THEN SubSeq(w, i * bytes_per_pixel + 1, (i + 1) * bytes_per_pixel)
                      ELSE shown[i]]

Chunk(k) == [j \in 1 .. k |-> Value(pixel_buf[last_byte + j - 1])]

Lesser(a, b) == IF a < b THEN a ELSE b

\* Mutants of RmtEncode: the memory is found full before the state is advanced;
\* the reset code does not complete the transmission.
RmtEncodeYieldsFirst ==
    /\ call = "encode"
    /\ LET left == strip_len * bytes_per_pixel - last_byte
           k    == IF state = 0 THEN Lesser(free \div 8, left) ELSE 0
           done == state = 1 \/ k = left
           full == state = 0 /\ free = 8 * k
       IN  /\ wire' = wire \o Chunk(k)
           /\ IF full
              THEN /\ last_byte' = (IF done THEN 0 ELSE last_byte + k)
                   /\ free' = MemSymbols \div 2
                   /\ UNCHANGED <<state, call, shown>>
              ELSE /\ state' = 0 /\ last_byte' = 0 /\ call' = "sent"
                   /\ shown' = Latched(wire')
                   /\ UNCHANGED free
    /\ UNCHANGED <<objVars, pixel_buf, enabled, wanted, result, failed>>

RmtEncodeEndless ==
    /\ call = "encode"
    /\ LET left == strip_len * bytes_per_pixel - last_byte
           k    == IF state = 0 THEN Lesser(free \div 8, left) ELSE 0
           done == state = 1 \/ k = left
       IN  /\ wire' = wire \o Chunk(k)
           /\ free' = MemSymbols \div 2
           /\ state' = (IF done THEN 1 ELSE 0)
           /\ last_byte' = (IF done THEN 0 ELSE last_byte + k)
    /\ UNCHANGED <<objVars, pixel_buf, enabled, call, shown, wanted, result, failed>>

(***************************************************************************)
(* rmt_encode_led_strip(), called with room for free symbols.  The bytes   *)
(* encoder reports that its data is complete and that the memory is full,  *)
(* possibly both at once: the state is advanced first, then the call       *)
(* yields, and the next one starts with the reset code.                    *)
(***************************************************************************)
RmtEncode ==
    /\ call = "encode"
    /\ LET left == strip_len * bytes_per_pixel - last_byte
           k    == IF state = 0 THEN Lesser(free \div 8, left) ELSE 0
           done == state = 1 \/ k = left
           full == state = 0 /\ free = 8 * k
       IN  /\ wire' = wire \o Chunk(k)
           /\ IF full
              THEN /\ state' = (IF done THEN 1 ELSE 0)
                   /\ last_byte' = (IF done THEN 0 ELSE last_byte + k)
                   /\ free' = MemSymbols \div 2
                   /\ UNCHANGED <<call, shown>>
              ELSE /\ state' = 0 /\ last_byte' = 0 /\ call' = "sent"
                   /\ shown' = Latched(wire')
                   /\ UNCHANGED free
    /\ UNCHANGED <<objVars, pixel_buf, enabled, wanted, result, failed>>

\* Mutant of RmtDisable: the channel is left enabled.
RmtDisableForgotten ==
    /\ call = "sent"
    /\ Return("ok", FALSE)
    /\ UNCHANGED <<objVars, pixel_buf, enabled, state, last_byte, free, wire, shown, wanted>>

\* The transmission is done; rmt_disable().
RmtDisable ==
    /\ call = "sent"
    /\ \/ enabled' = FALSE /\ Return("ok", FALSE)
       \/ "disable" \in MayFail /\ Return("error", TRUE) /\ UNCHANGED enabled
    /\ UNCHANGED <<objVars, pixel_buf, state, last_byte, free, wire, shown, wanted>>

(***************************************************************************)
(* The three bytes of a colour leave the SPI bus from bit 7 of the first   *)
(* on.  A line that stays low is no pulse: the LEDs see no byte at all.    *)
(* 256 stands for pulses that are no colour.                               *)
(***************************************************************************)
Level(bits, p) == Bit(p \div 8, 7 - (p % 8)) \in bits

Pulses(bits) ==
    IF bits = {} THEN <<>>
    ELSE IF \A k \in 0 .. 7 : Level(bits, 3 * k) /\ ~Level(bits, 3 * k + 2)
         THEN <<Value({7 - k : k \in {j \in 0 .. 7 : Level(bits, 3 * j + 1)}})>>
         ELSE <<256>>

SpiLine ==
    LET upTo[j \in 0 .. strip_len * bytes_per_pixel] ==
            IF j = 0 THEN <<>> ELSE upTo[j - 1] \o Pulses(pixel_buf[j - 1])
    IN  upTo[strip_len * bytes_per_pixel]

\* spi_device_transmit()
SpiTransmit ==
    /\ backend = "spi" /\ call = "refresh"
    /\ \/ shown' = Latched(SpiLine) /\ Return("ok", FALSE)
       \/ "transmit" \in MayFail /\ Return("error", TRUE) /\ UNCHANGED shown
    /\ UNCHANGED <<objVars, pixel_buf, rmtVars, wanted>>

------------------------------------------------------------------------------
Indices == UNION {0 .. n : n \in Lens}

StripNext ==
    \/ \E b \in {"rmt", "spi"} :
         \/ \E n \in Lens, w \in {3, 4} : New(b, n, w)
         \/ \E k \in DOMAIN Order(b) : NewFails(b, k)
    \/ Del \/ OtherDriver
    \/ \E i \in Indices :
         \/ \E c \in Colors : SetPixel(i, c)
         \/ \E c \in Colors, w \in Whites : SetPixelRgbw(i, c, w)
         \/ \E hsv \in Hsvs : SetPixelHsv(i, hsv)
    \/ Refresh \/ Clear
    \/ RmtEnable \/ RmtTransmit \/ RmtEncode \/ RmtDisable
    \/ SpiTransmit

StripSpec == StripInit /\ [][StripNext]_stripVars

\* A call runs on, and the interrupts of the RMT channel are served.
StripFairSpec ==
    /\ StripSpec
    /\ WF_stripVars(RmtEnable) /\ WF_stripVars(RmtTransmit) /\ WF_stripVars(RmtEncode)
    /\ WF_stripVars(RmtDisable) /\ WF_stripVars(SpiTransmit)

------------------------------------------------------------------------------
\* Properties

StripTypeOK ==
    /\ backend \in {"none", "rmt", "spi"}
    /\ held \subseteq RmtResources \cup SpiResources
    /\ bus \in {"free", "strip", "other", "leaked"}
    /\ leaked \subseteq RmtResources \cup SpiResources \cup {"bus", "clock"}
    /\ strip_len \in Nat /\ bytes_per_pixel \in {3, 4}
    /\ enabled \in BOOLEAN
    /\ call \in {"idle", "refresh", "transmit", "encode", "sent"}
    /\ state \in {0, 1}
    /\ last_byte \in Nat
    /\ free \in Nat
    /\ DOMAIN pixel_buf = (IF backend = "none" THEN {} ELSE Cells)
    /\ result \in {"none", "ok", "error"}
    /\ failed \in BOOLEAN

(***************************************************************************)
(* Whatever step of a creation fails, everything acquired before it is     *)
(* given back, but for a bus that spi_bus_free() refuses: a strip holds    *)
(* all it needs while there is a handle, no handle holds the bus of        *)
(* another driver, and what is left without one is the strip of a deletion *)
(* that failed half way.                                                   *)
(***************************************************************************)
HeldByHandle ==
    /\ held = CASE backend = "none" -> {}
                 [] backend = "rmt"  -> RmtResources
                 [] backend = "spi"  -> SpiResources
    /\ bus = "strip" <=> backend = "spi"
    /\ leaked \subseteq {"strip"}

(***************************************************************************)
(* However the symbol memory cuts the data, the interrupts send each byte  *)
(* once and in order: what is on the wire is always a prefix of the        *)
(* buffer, and all of it when the reset code makes the LEDs latch.         *)
(***************************************************************************)
WireInOrder ==
    backend = "rmt" /\ call \in {"encode", "sent"} =>
        /\ Len(wire) <= strip_len * bytes_per_pixel
        /\ \A j \in 1 .. Len(wire) : wire[j] = Value(pixel_buf[j - 1])
        /\ call = "sent" \/ state = 1 => Len(wire) = strip_len * bytes_per_pixel

(***************************************************************************)
(* After a refresh that succeeded, every LED shows the last colour asked   *)
(* for it, through either back end: byte order, SPI coding, colours by     *)
(* hue, and earlier colours of the same pixel included.  A pixel never set *)
(* is dark with RMT; with SPI it has no pulses and shifts all the others,  *)
(* so there the property asks that each pixel has been set or cleared.     *)
(***************************************************************************)
Near(a, b) == a - b \in -1 .. 1

Shows(i) ==
    LET c == IF wanted[i] = NULL THEN Off ELSE wanted[i]
    IN  shown[i] # NULL /\ \A k \in 1 .. bytes_per_pixel : Near(shown[i][k], Grbw(c)[k])

ShowsWanted ==
    /\ result = "ok"
    /\ backend = "rmt" \/ \A i \in Pixels : wanted[i] # NULL
    => \A i \in Pixels : Shows(i)

(***************************************************************************)
(* A refresh leaves the channel as it found it, in whatever order colours, *)
(* refreshes and clears are called: it is refused, and the channel left    *)
(* enabled for good, only after a call of the peripheral's driver failed,  *)
(* or when the strip has no LED.                                           *)
(***************************************************************************)
FailsOnlyAfterFailure ==
    result = "error" \/ (call = "idle" /\ enabled) => failed \/ strip_len = 0

\* Every refresh returns: the encoder completes, at any length of the strip.
RefreshReturns == call # "idle" ~> call = "idle"

------------------------------------------------------------------------------
\* A claim of led_strip.h that the code does not keep

\* "hue: hue part of color (0 - 360)" (led_strip.h:62): after a refresh the LEDs
\* show the colour of the hue asked for, at 360 degrees as at any other.
HueAsDocumented == ShowsWanted

=============================================================================
