----------------------------- MODULE BitFraming -----------------------------
(***************************************************************************)
(* The framing of the native bit-stream decoders: AIS (ais.rs), VDL Mode 2 *)
(* and ACARS (aviation.rs), and the APRS bit machine (aprs.rs).  A stream  *)
(* is a sequence of bits in the order they are on the air; a decoder is a  *)
(* record that one bit at a time is pushed into.  Octets are sent least    *)
(* significant bit first and never reassembled here: what the code packs   *)
(* into bytes and unpacks in the same order stays a sequence of bits.      *)
(***************************************************************************)
EXTENDS Naturals, Sequences, FiniteSets

CONSTANTS
    MaxFrameBits,  \* bits a deframer keeps without a flag (16384)
    MaxBodyBytes   \* octets of an ACARS block (240)

ASSUME FramingAssumption ==
    /\ MaxFrameBits \in Nat /\ MaxFrameBits > 8
    /\ MaxBodyBytes \in Nat \ {0}

Bit == {0, 1}
Xor(a, b) == (a + b) % 2
Ones(n) == [i \in 1 .. n |-> 1]
Zeros(n) == [i \in 1 .. n |-> 0]
Complement(s) == [i \in DOMAIN s |-> 1 - s[i]]
Last(s, n) == SubSeq(s, Len(s) - n + 1, Len(s))
WithoutLast(s, n) == SubSeq(s, 1, Len(s) - n)

(* The state of a machine after every element of s.  It is worked out in   *)
(* blocks, each from the value of the one before, so that an evaluator     *)
(* never nests more than a block's elements.                               *)
BLOCK == 48
After(Step(_, _), start, s) ==
    LET within(state, from, to) ==
            LET at[i \in from .. to] == IF i = from THEN state ELSE Step(at[i - 1], s[i])
            IN at[to]
        end(b) == IF b * BLOCK < Len(s) THEN b * BLOCK ELSE Len(s)
        block[b \in 0 .. Len(s) \div BLOCK + 1] ==
            IF b = 0 THEN start
            ELSE CHOOSE y \in { within(x, end(b - 1), end(b)) : x \in {block[b - 1]} } : TRUE
    IN block[Len(s) \div BLOCK + 1]

-----------------------------------------------------------------------------
(* CRC-16, reflected: the register is its bits from the least significant  *)
(* on, so a shift drops the first one; 0x8408 has bits 3, 10 and 15.       *)
CrcStep(crc, bit) ==
    LET carry == Xor(crc[1], bit)
        shifted == Tail(crc) \o <<0>>
    IN [i \in 1 .. 16 |-> IF i \in {4, 11, 16} THEN Xor(shifted[i], carry) ELSE shifted[i]]

Crc16(bits, initial) == After(CrcStep, initial, bits)
Crc16X25(bits) == Complement(Crc16(bits, Ones(16)))
AcarsCrc16(bits) == Crc16(bits, Zeros(16))

(* 0xf0b8, what an X.25 register holds after a good frame and its FCS.     *)
GoodResidue == <<0, 0, 0, 1, 1, 1, 0, 1, 0, 0, 0, 0, 1, 1, 1, 1>>

-----------------------------------------------------------------------------
(* HDLC: a zero after five ones, flags, NRZI.                              *)
Flag == <<0, 1, 1, 1, 1, 1, 1, 0>>
EndsInFlag(bits) == Len(bits) >= 8 /\ Last(bits, 8) = Flag

StuffStep(state, bit) ==
    LET ones == IF bit = 1 THEN state.ones + 1 ELSE 0
    IN IF ones = 5 THEN [out |-> state.out \o <<1, 0>>, ones |-> 0]
                   ELSE [out |-> Append(state.out, bit), ones |-> ones]
Stuff(bits) == After(StuffStep, [out |-> <<>>, ones |-> 0], bits).out

(* ais.rs: the bit after five ones must be there and be a zero.  skip says *)
(* that this bit is awaited.                                               *)
AisUnstuffStep(state, bit) ==
    IF state.skip THEN [state EXCEPT !.skip = FALSE, !.bad = @ \/ bit = 1]
    ELSE LET ones == IF bit = 1 THEN state.ones + 1 ELSE 0
         IN [out |-> Append(state.out, bit), ones |-> ones % 5, skip |-> (ones = 5), bad |-> state.bad]
AisUnstuff(bits) ==
    After(AisUnstuffStep, [out |-> <<>>, ones |-> 0, skip |-> FALSE, bad |-> FALSE], bits)

(* aviation.rs: a sixth one is an error, five ones may end the frame.      *)
Vdl2UnstuffStep(state, bit) ==
    IF bit = 1 THEN [out |-> Append(state.out, 1), ones |-> state.ones + 1,
                     bad |-> state.bad \/ state.ones + 1 > 5]
    ELSE [out |-> IF state.ones = 5 THEN state.out ELSE Append(state.out, 0),
          ones |-> 0, bad |-> state.bad]
Vdl2Unstuff(bits) == After(Vdl2UnstuffStep, [out |-> <<>>, ones |-> 0, bad |-> FALSE], bits)

WholeOctets(bits) == Len(bits) >= 24 /\ Len(bits) % 8 = 0

NoFrame == [valid |-> FALSE, payload |-> <<>>]

(* decode_hdlc_frame of ais.rs, before the payload is parsed ...           *)
AisFrame(stuffed) ==
    LET raw == AisUnstuff(stuffed)
        payload == WithoutLast(raw.out, 16)
    IN IF ~raw.bad /\ ~raw.skip /\ WholeOctets(raw.out) /\ Crc16X25(payload) = Last(raw.out, 16)
         THEN [valid |-> TRUE, payload |-> payload]
         ELSE NoFrame

(* ... and of aviation.rs; a frame whose FCS fails is made, and not        *)
(* published (scanner.rs).                                                 *)
Vdl2Frame(stuffed) ==
    LET raw == Vdl2Unstuff(stuffed)
    IN IF ~raw.bad /\ WholeOctets(raw.out)
         THEN [valid |-> Crc16(raw.out, Ones(16)) = GoodResidue,
               payload |-> WithoutLast(raw.out, 16)]
         ELSE NoFrame

-----------------------------------------------------------------------------
(* The two deframers.  A result is a sequence of at most one frame.        *)
NewAis == [inFrame |-> FALSE, bits |-> <<>>, level |-> 2, got |-> <<>>]

AisPushBit(decoder, bit) ==
    LET bits == Append(decoder.bits, bit)
        body == WithoutLast(bits, 8)
    IN IF EndsInFlag(bits)
         THEN [decoder EXCEPT !.inFrame = TRUE, !.bits = <<>>,
                              !.got = IF decoder.inFrame /\ body /= <<>> /\ AisFrame(body).valid
                                        THEN Append(@, AisFrame(body).payload) ELSE @]
       ELSE IF Len(bits) > MaxFrameBits
         THEN [decoder EXCEPT !.inFrame = FALSE, !.bits = <<>>]
         ELSE [decoder EXCEPT !.bits = bits]

NewVdl2 == [bits |-> <<>>, level |-> 2, got |-> <<>>]

Vdl2PushBit(decoder, bit) ==
    LET bits == Append(decoder.bits, bit)
        body == WithoutLast(bits, 8)
    IN IF EndsInFlag(bits)
         THEN [decoder EXCEPT !.bits = <<>>,
                              !.got = IF body /= <<>> /\ Vdl2Frame(body).valid
                                        THEN Append(@, Vdl2Frame(body).payload) ELSE @]
       ELSE IF Len(bits) > MaxFrameBits
         THEN [decoder EXCEPT !.bits = Last(bits, 7)]
         ELSE [decoder EXCEPT !.bits = bits]

(* Line levels: no change is a one; level 2 is "none yet".                 *)
NrziPush(decoder, level) ==
    LET levelled == [decoder EXCEPT !.level = level]
    IN IF decoder.level = 2 THEN levelled
       ELSE AisPushBit(levelled, IF level = decoder.level THEN 1 ELSE 0)

NrziLevels(bits, initial) ==
    [i \in 1 .. Len(bits) + 1 |->
        (initial + Cardinality({ j \in 1 .. i - 1 : bits[j] = 0 })) % 2]

(* ais_wire_frame and hdlc_stuffed_bits: what a transmitter sends.         *)
WireFrame(payload) == Flag \o Stuff(payload \o Crc16X25(payload)) \o Flag

-----------------------------------------------------------------------------
(* ACARS.  An octet is its eight bits, the parity bit last.                *)
Octet(n) == [i \in 1 .. 8 |-> (n \div 2 ^ (i - 1)) % 2]
SYN == Octet(22)   \* 0x16
SOH == Octet(1)
ETX == Octet(131)  \* 0x83
ETB == Octet(151)  \* 0x97

Flatten(octets) == After(LAMBDA s, octet : s \o octet, <<>>, octets)

NewAcars == [state |-> "FirstSync", byte |-> <<>>, body |-> <<>>, fcs |-> <<>>, got |-> <<>>]

(* A block is published when the CRC over it and its two check octets is   *)
(* zero (parse_acars_block; the filter is in scanner.rs).                  *)
AcarsBlock(decoder, fcs) ==
    IF AcarsCrc16(Flatten(decoder.body) \o fcs) = Zeros(16)
      THEN Append(decoder.got, decoder.body) ELSE decoder.got

AcarsFeedByte(decoder, byte) ==
    CASE decoder.state = "FirstSync" ->
           [decoder EXCEPT !.state = IF byte = SYN THEN "SecondSync" ELSE @]
      [] decoder.state = "SecondSync" ->
           [decoder EXCEPT !.state = IF byte = SYN THEN "Soh" ELSE "FirstSync"]
      [] decoder.state = "Soh" ->
           IF byte = SOH THEN [decoder EXCEPT !.state = "Body", !.body = <<>>]
           ELSE IF byte = SYN THEN decoder
           ELSE [decoder EXCEPT !.state = "FirstSync", !.body = <<>>]
      [] decoder.state = "Body" ->
           LET body == Append(decoder.body, byte)
           IN IF byte \in {ETX, ETB} THEN [decoder EXCEPT !.state = "Fcs1", !.body = body]
              ELSE IF Len(body) >= MaxBodyBytes
                THEN [decoder EXCEPT !.state = "FirstSync", !.body = <<>>]
                ELSE [decoder EXCEPT !.body = body]
      [] decoder.state = "Fcs1" -> [decoder EXCEPT !.state = "Fcs2", !.fcs = byte]
      [] decoder.state = "Fcs2" ->
           [decoder EXCEPT !.state = "FirstSync", !.body = <<>>,
                           !.got = AcarsBlock(decoder, decoder.fcs \o byte)]

(* Octets begin with the first bit that is ever pushed.                    *)
AcarsPushBit(decoder, bit) ==
    LET byte == Append(decoder.byte, bit)
    IN IF Len(byte) < 8 THEN [decoder EXCEPT !.byte = byte]
       ELSE AcarsFeedByte([decoder EXCEPT !.byte = <<>>], byte)

OddParity(seven) ==
    Append(seven, IF After(Xor, 0, seven) = 0 THEN 1 ELSE 0)

(* acars_hello_bytes: characters with odd parity, ETX, the check octets.   *)
AcarsWire(characters) ==
    LET body == Append([i \in DOMAIN characters |-> OddParity(characters[i])], ETX)
    IN SYN \o SYN \o SOH \o Flatten(body) \o AcarsCrc16(Flatten(body))

-----------------------------------------------------------------------------
(* APRS, AprsDecoder::process_bit.  The shift register is its last 17      *)
(* bits: the flag is looked for one bit late, and the register is shifted  *)
(* once more after five ones.                                              *)
NewAprs == [tone |-> 0, count |-> 0, shift |-> Zeros(17), flags |-> 0, frame |-> <<>>, got |-> <<>>]

ShiftIn(shift, bit) == Append(Tail(shift), bit)
LateByte(shift) == SubSeq(shift, 9, 16)

(* parse_ax25_bits: flags are looked for at every bit, octets are taken at *)
(* whole octets after an opening flag up to the next flag or the end.      *)
NewAx25 == [skip |-> 0, open |-> FALSE, payload |-> <<>>, payloads |-> <<>>]
Ax25Look(parser, eight) ==
    IF parser.skip > 0 THEN [parser EXCEPT !.skip = @ - 1]
    ELSE CASE eight = Flag /\ parser.open ->
                [NewAx25 EXCEPT !.skip = 7, !.payloads = Append(parser.payloads, parser.payload)]
           [] eight = Flag /\ ~parser.open -> [parser EXCEPT !.skip = 7, !.open = TRUE]
           [] eight /= Flag /\ parser.open -> [parser EXCEPT !.skip = 7, !.payload = Append(@, eight)]
           [] OTHER -> parser
Ax25Payloads(bits) ==
    LET end == After(Ax25Look, NewAx25, [i \in 1 .. Len(bits) - 7 |-> SubSeq(bits, i, i + 7)])
    IN IF end.open THEN Append(end.payloads, end.payload) ELSE end.payloads

(* parse_ax25_frame: octets are most significant bit first here.  Address  *)
(* blocks of seven octets; the last bit of a block ends the addresses.     *)
BlockAt(payload, k) == SubSeq(payload, 7 * k + 1, 7 * k + 7)
EndsAddress(payload, k) == payload[7 * k + 7][8] = 1
Ax25Control == <<0, 0, 0, 0, 0, 0, 1, 1>>

(* How many digipeaters a frame names: none, or up to the block that ends  *)
(* the addresses, of which the ninth is the last that is looked at.        *)
Digipeaters(payload) ==
    IF EndsAddress(payload, 1) THEN {0}
    ELSE { n \in 1 .. 9 : /\ 14 + 7 * n <= Len(payload)
                          /\ EndsAddress(payload, n + 1)
                          /\ \A k \in 1 .. n - 1 : ~EndsAddress(payload, k + 1) }

Ax25Frame(payload) ==
    LET paths == { n \in Digipeaters(payload) :
                     14 + 7 * n + 2 <= Len(payload) /\ payload[14 + 7 * n + 1] = Ax25Control }
        n == CHOOSE n \in paths : TRUE
    IN IF Len(payload) < 16 \/ EndsAddress(payload, 0) \/ paths = {} THEN <<>>
       ELSE <<[dest |-> BlockAt(payload, 0), source |-> BlockAt(payload, 1),
               digipeaters |-> [k \in 1 .. n |-> BlockAt(payload, k + 1)],
               info |-> SubSeq(payload, 14 + 7 * n + 3, Len(payload))]>>

(* The first frame of the bits since the last flag, if there is one.       *)
FirstAx25Frame(bits) ==
    LET payloads == Ax25Payloads(bits)
        good == { k \in DOMAIN payloads : Ax25Frame(payloads[k]) /= <<>> }
    IN IF good = {} THEN <<>>
       ELSE Ax25Frame(payloads[CHOOSE k \in good : \A other \in good : k <= other])

AprsAfterFlag(decoder) ==
    IF decoder.flags + 1 >= 2
      THEN [decoder EXCEPT !.got = @ \o FirstAx25Frame(decoder.frame),
                           !.frame = <<>>, !.shift = Zeros(17), !.count = 0, !.flags = 1]
      ELSE [decoder EXCEPT !.frame = <<>>, !.shift = Zeros(9) \o Flag, !.count = 8, !.flags = 1]

AprsDropStuffed(decoder) ==
    IF SubSeq(decoder.shift, 13, 17) = Ones(5)
      THEN [decoder EXCEPT !.shift = ShiftIn(@, 0), !.count = @ + 1]
      ELSE decoder

AprsPushBit(decoder, tone) ==
    LET bit == IF tone = decoder.tone THEN 0 ELSE 1
        levelled == [decoder EXCEPT !.tone = tone]
        shifted == [levelled EXCEPT !.frame = IF decoder.flags = 1 THEN Append(@, bit) ELSE @,
                                    !.shift = ShiftIn(@, bit),
                                    !.count = @ + 1]
    IN IF decoder.count = 0 /\ bit = 0 THEN levelled
       ELSE IF shifted.count < 8 THEN shifted
       ELSE IF LateByte(shifted.shift) = Flag THEN AprsAfterFlag(shifted)
       ELSE AprsDropStuffed(shifted)
=============================================================================
