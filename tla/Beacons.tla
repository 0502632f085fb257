------------------------------ MODULE Beacons ------------------------------
(***************************************************************************)
(* The decoders that look for one frame in a window of bits: Bluetooth LE  *)
(* advertisements (ble.rs), radiosondes (radiosonde.rs) and the GOES       *)
(* product notices (goes.rs).  Each time IQ comes the whole window is      *)
(* decoded; a frame that is published clears it.                           *)
(*                                                                         *)
(* Octets stay the eight bits they are on the air: least significant first *)
(* for Bluetooth, most significant first for the other two.                *)
(***************************************************************************)
EXTENDS BitFraming, Squitters

NewWindow == [window |-> <<>>, got |-> <<>>]

\* Where a pattern begins: the number of bits before it.
Places(bits, pattern) ==
    {p \in 0..(Len(bits) - Len(pattern)) : SubSeq(bits, p + 1, p + Len(pattern)) = pattern}

\* What is left after p bits, cut into whole octets.
OctetsAfter(bits, p) == LET rest == Len(bits) - p IN SubSeq(bits, p + 1, p + rest - (rest % 8))
OctetAt(bits, n) == SubSeq(bits, 8 * n + 1, 8 * n + 8)
Reversed(bits) == [i \in DOMAIN bits |-> bits[Len(bits) + 1 - i]]

\* A shift register with the feedback taps `poly`, first bit leaving first.
Register(poly, start, bits) ==
    After(LAMBDA reg, bit :
              LET carry == Xor(reg[1], bit)
                  shifted == Append(Tail(reg), 0)
              IN  <<>> \o [i \in DOMAIN reg |-> Xor(shifted[i], carry * poly[i])],
          start, bits)

(***************************************************************************)
(* Bluetooth LE                                                            *)
(***************************************************************************)

BLE_ACCESS_ADDRESS == Reversed(BitsOf(36489, 16) \o BitsOf(48854, 16))  \* 0x8E89 BED6
BLE_CRC_POLY == BitsOf(1627, 24)                                        \* 0x00065B

\* The register starts at 0x555555; it is sent least significant octet, and
\* in it least significant bit, first.
Crc24(pdu) == Reversed(Register(BLE_CRC_POLY, BitsOf(5592405, 24), pdu))

\* The whitening sequence of a channel, x^7 + x^4 + 1, for so many bits.
Whitening(channel, n) ==
    After(LAMBDA out, i : Append(out, IF i <= 7 THEN Reversed(BitsOf(64 + channel, 7))[i]
                                      ELSE Xor(out[i - 7], out[i - 3])),
          <<>>, [i \in 1..n |-> i])
Whiten(bits, channel) == LET w == Whitening(channel, Len(bits))
                         IN  [i \in DOMAIN bits |-> Xor(bits[i], w[i])]

\* An advertisement: an address, then structures of a type and some data.
BleOctet(n) == Reversed(BitsOf(n, 8))
BleBody(frame) ==
    frame.address \o Flatten([i \in DOMAIN frame.structures |->
        LET s == frame.structures[i] IN BleOctet(1 + Len(s.data) \div 8) \o s.type \o s.data])
BleWire(frame) ==
    LET pdu == BitsOf(2, 8) \o BleOctet(Len(BleBody(frame)) \div 8) \o BleBody(frame)
    IN  <<0, 1, 0, 1, 0, 1, 0, 1>> \o BLE_ACCESS_ADDRESS
            \o Whiten(pdu \o Crc24(pdu), frame.channel)

\* The structures from octet `from` on, up to one that does not fit.
BleStructures(body) ==
    LET octets == Len(body) \div 8
        size(i) == Number(Reversed(OctetAt(body, i)))
        from[i \in 6..(octets + 256)] ==
            IF i + 1 >= octets \/ size(i) = 0 \/ i + 1 + size(i) > octets THEN <<>>
            ELSE <<[type |-> OctetAt(body, i + 1),
                    data |-> SubSeq(body, 8 * (i + 2) + 1, 8 * (i + 1 + size(i)))]>>
                 \o from[i + 1 + size(i)]
    IN  from[6]

\* The length in the second octet must leave an address and not exceed the rest.
BleParsed(pdu, channel) ==
    LET length == Number(Reversed(OctetAt(pdu, 1)))
        body == SubSeq(pdu, 17, 8 * (2 + length))
    IN  IF Len(pdu) < 64 \/ length < 6 \/ Len(pdu) < 8 * (2 + length) THEN <<>>
        ELSE <<[channel |-> channel, address |-> SubSeq(body, 1, 48),
                structures |-> BleStructures(body)]>>

\* Whatever parses is found, be its checksum right or not.
WithValidity(parsed, valid) ==
    IF parsed = <<>> THEN <<>> ELSE <<[frame |-> parsed[1], valid |-> valid]>>
BleDecodePdu(pdu, channel) ==
    LET end == 8 * (2 + Number(Reversed(OctetAt(pdu, 1))))
        head == SubSeq(pdu, 1, end)
    IN  IF Len(pdu) < 88 \/ Len(pdu) < end + 24 THEN <<>>
        ELSE WithValidity(BleParsed(head, channel), SubSeq(pdu, end + 1, end + 24) = Crc24(head))
BleDecodeBits(bits, channel) ==
    LET syncs == Places(bits, BLE_ACCESS_ADDRESS)
    IN  IF syncs = {} THEN <<>>
        ELSE BleDecodePdu(Whiten(OctetsAfter(bits, Least(syncs) + 32), channel), channel)

\* The other advertising channels are tried only if nothing was found.
OrElse(found, other) == IF found # <<>> THEN found ELSE other
Valid(found) == IF found # <<>> /\ found[1].valid THEN <<found[1].frame>> ELSE <<>>
BleFound(bits) ==
    Valid(OrElse(BleDecodeBits(bits, 37), OrElse(BleDecodeBits(bits, 38), BleDecodeBits(bits, 39))))

(***************************************************************************)
(* Radiosondes                                                             *)
(***************************************************************************)

SONDE_SYNC == BitsOf(4278, 16)                         \* 0x10B6
CCITT == BitsOf(4129, 16)                              \* 0x1021
Crc16Ccitt(bits) == Register(CCITT, Ones(16), bits)

SondeWire(payload) ==
    LET body == BitsOf(Len(payload) \div 8, 8) \o payload
    IN  Flatten([i \in 1..8 |-> BitsOf(170, 8)]) \o SONDE_SYNC \o body \o Crc16Ccitt(body)

\* The first synchronisation word of the stream's octets.
SondeParsed(bits, align) ==
    LET octets == OctetsAfter(bits, align)
        syncs == {p \in Places(octets, SONDE_SYNC) : p % 8 = 0}
        body == OctetsAfter(octets, Least(syncs) + 16)
        length == 8 * Number(OctetAt(body, 0))
    IN  IF syncs = {} THEN <<>>
        ELSE IF Len(body) < 32 \/ Len(body) < 8 + length + 16 \/ length < 8 * 28 THEN <<>>
        ELSE IF SubSeq(body, 9 + length, 24 + length) # Crc16Ccitt(SubSeq(body, 1, 8 + length))
        THEN <<>>
        ELSE <<SubSeq(body, 9, 8 + length)>>

\* The first alignment in which a frame is found.
FirstAligned(parsed) ==
    LET found == {align \in 0..7 : parsed[align] # <<>>}
    IN  IF found = {} THEN <<>> ELSE parsed[Least(found)]

SondeFound(bits) == FirstAligned([align \in 0..7 |-> SondeParsed(bits, align)])

(***************************************************************************)
(* GOES                                                                    *)
(***************************************************************************)

GOES_ASM == BitsOf(6863, 16) \o BitsOf(64541, 16)      \* 0x1ACF FC1D
IEEE == BitsOf(1217, 16) \o BitsOf(7607, 16)           \* 0x04C1 1DB7

\* The reflected CRC-32: octets enter least significant bit first, and the
\* register is written as four octets, most significant first.
Crc32Ieee(octets) ==
    LET reflected == Flatten([n \in 1..(Len(octets) \div 8) |-> Reversed(OctetAt(octets, n - 1))])
    IN  Reversed(Complement(Register(IEEE, Ones(32), reflected)))

Prefixed(name) == BitsOf(Len(name) \div 8, 8) \o name
GoesWire(product) ==
    LET body == BitsOf(1, 16) \o Prefixed(product.satellite) \o Prefixed(product.product)
                    \o Prefixed(product.channel) \o product.timestamp
    IN  GOES_ASM \o body \o Crc32Ieee(body)

\* The three names, one after the other, from the third octet on.
NameEnd(rest, from) ==
    IF from + 8 > Len(rest) THEN Len(rest) + 1
    ELSE from + 8 + 8 * Number(SubSeq(rest, from + 1, from + 8))
NameIn(rest, from, to) == SubSeq(rest, from + 9, to)

GoesParsed(bits, align) ==
    LET octets == OctetsAfter(bits, align)
        starts == {p \in Places(octets, GOES_ASM) : p % 8 = 0}
        rest == OctetsAfter(octets, Least(starts) + 32)
        a == NameEnd(rest, 16)
        b == NameEnd(rest, a)
        c == NameEnd(rest, b)
        end == c + 64
    IN  IF starts = {} THEN <<>>
        ELSE IF Len(rest) < 8 * 17 \/ Number(SubSeq(rest, 1, 16)) # 1 THEN <<>>
        ELSE IF end + 32 > Len(rest) THEN <<>>
        ELSE IF SubSeq(rest, end + 1, end + 32) # Crc32Ieee(SubSeq(rest, 1, end)) THEN <<>>
        ELSE <<[satellite |-> NameIn(rest, 16, a), product |-> NameIn(rest, a, b),
                channel |-> NameIn(rest, b, c), timestamp |-> SubSeq(rest, c + 1, end)]>>

\* Both polarities, for a carrier's phase is known only up to half a turn.
GoesUpright(bits) == FirstAligned([align \in 0..7 |-> GoesParsed(bits, align)])
GoesFound(bits) == OrElse(GoesUpright(bits), GoesUpright(Complement(bits)))

(***************************************************************************)
(* The scanner                                                             *)
(***************************************************************************)

\* IQ was appended, and what the window held was found: that clears it.
Searched(decoder, window, found) ==
    [window |-> IF found = <<>> THEN window ELSE <<>>, got |-> decoder.got \o found]
=============================================================================
