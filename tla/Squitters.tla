------------------------------ MODULE Squitters ------------------------------
(***************************************************************************)
(* The two aircraft decoders that look for frames in a buffer they keep    *)
(* from one chunk to the next: Mode S (adsb.rs), which scans magnitudes    *)
(* for a preamble, and UAT (aviation.rs), which scans bits for a           *)
(* synchronisation word.                                                   *)
(***************************************************************************)
EXTENDS Integers, Sequences, FiniteSets

CONSTANTS
    HalfBit,    \* magnitude samples in half a Mode S bit
    CompactAt   \* bits the UAT decoder scans before it lets go of them (8192)

ASSUME SquittersAssumption ==
    /\ HalfBit \in Nat \ {0}
    /\ CompactAt \in Nat

Least(S) == CHOOSE x \in S : \A y \in S : x <= y
Higher(a, b) == IF a > b THEN a ELSE b
Lower(a, b) == IF a < b THEN a ELSE b
Drop(s, n) == SubSeq(s, n + 1, Len(s))
Number(bits) == LET at[i \in 0 .. Len(bits)] == IF i = 0 THEN 0 ELSE 2 * at[i - 1] + bits[i]
                IN at[Len(bits)]
BitsOf(n, width) == [i \in 1 .. width |-> (n \div 2 ^ (width - i)) % 2]

-----------------------------------------------------------------------------
(* Mode S: CRC-24, most significant bit first, 0xFFF409.                   *)
CRC_POLY == BitsOf(4095, 12) \o BitsOf(1033, 12)
Crc24Step(crc, bit) ==
    LET carry == (crc[1] + bit) % 2
        shifted == Append(Tail(crc), 0)
    IN [i \in 1 .. 24 |-> (shifted[i] + carry * CRC_POLY[i]) % 2]
ModeSCrc(bits) ==
    LET at[i \in 0 .. Len(bits)] == IF i = 0 THEN [j \in 1 .. 24 |-> 0]
                                    ELSE Crc24Step(at[i - 1], bits[i])
    IN at[Len(bits)]
AppendCrc(payload) == payload \o ModeSCrc(payload)

ModeSValid(bits) ==
    LET data == SubSeq(bits, 1, Len(bits) - 24)
    IN ModeSCrc(data) = Drop(bits, Len(data))

(* Altitudes in steps of 25 ft from -1000 ft, when the Q bit says so.      *)
(* ac, and its bits numbered from the least significant one.               *)
Nth(ac, k) == (ac \div 2 ^ k) % 2
NoAltitude == -9999
DecodeAc12(ac) ==
    IF Nth(ac, 4) = 1 THEN ((ac \div 32) * 16 + (ac % 16)) * 25 - 1000 ELSE NoAltitude
(* The mask 0x0F80 leaves the first of the thirteen bits out.              *)
DecodeAc13(ac) ==
    IF Nth(ac, 6) = 1 \/ Nth(ac, 4) = 0 THEN NoAltitude
    ELSE (((ac \div 128) % 32) * 32 + Nth(ac, 5) * 16 + (ac % 16)) * 25 - 1000

(* What the type code of an extended squitter says.                        *)
MeKind(tc) ==
    CASE tc \in 1 .. 4 -> "identification"
      [] tc \in 5 .. 8 -> "surface"
      [] tc \in (9 .. 18) \cup (20 .. 22) -> "airborne"
      [] tc = 19 -> "velocity"
      [] tc \in {28, 29, 31} -> "status"
      [] OTHER -> "other"

(* decode_mode_s_bits, with the fields other parts of the program use.     *)
ModeSMessage(bits) ==
    LET df == Number(SubSeq(bits, 1, 5))
        tc == Number(SubSeq(bits, 33, 37))
        squitter == df \in {17, 18} /\ Len(bits) = 112
    IN [df |-> df, icao |-> Number(SubSeq(bits, 9, 32)),
        kind |-> IF squitter THEN MeKind(tc) ELSE "reply",
        altitude |-> CASE squitter /\ MeKind(tc) = "airborne" -> DecodeAc12(Number(SubSeq(bits, 41, 52)))
                       [] squitter /\ MeKind(tc) = "surface" -> 0
                       [] df \in {4, 5} -> DecodeAc13(Number(SubSeq(bits, 20, 32)))
                       [] OTHER -> NoAltitude]

-----------------------------------------------------------------------------
(* Magnitudes: 20 for a pulse, 1 (0.05) for none.                          *)
Pulse == 20
Quiet == 1
Half(level) == [i \in 1 .. HalfBit |-> level]

(* synthesize_mode_s_magnitude *)
Flat(halves) ==
    [i \in 1 .. HalfBit * Len(halves) |-> halves[(i - 1) \div HalfBit + 1]]
Magnitudes(bits) ==
    Flat([h \in 1 .. 16 |-> IF h \in {1, 5, 8, 10} THEN Pulse ELSE Quiet]
         \o [h \in 1 .. 2 * Len(bits) |->
                IF (h % 2 = 1) = (bits[(h + 1) \div 2] = 1) THEN Pulse ELSE Quiet])

NewModeS == [mags |-> <<>>, from |-> 0, got |-> <<>>]

PREAMBLE == 16 * HalfBit
Need == PREAMBLE + 112 * 2 * HalfBit

(* The middle of half bit h, counted from the sample after `start`.        *)
Sampled(mags, start, h) == mags[start + (h * HalfBit) + (HalfBit \div 2) + 1]

(* The mean of the four highs is over 1.6 times the mean of the ten lows.  *)
ScorePreamble(mags, start) ==
    LET at(h) == Sampled(mags, start, h)
        high == at(0) + at(4) + at(7) + at(9)
        low == at(2) + at(3) + at(5) + at(6) + at(10) + at(11) + at(12) + at(13) + at(14) + at(15)
    IN 100 * high > 64 * low

Sliced(mags, start, n) ==
    [b \in 1 .. n |-> IF Sampled(mags, start, 2 * b - 2) > Sampled(mags, start, 2 * b - 1)
                        THEN 1 ELSE 0]

(* A long frame is tried first, then a short one.                          *)
TryFrame(mags, start) ==
    LET long == Sliced(mags, start, 112)
        short == Sliced(mags, start, 56)
    IN IF ModeSValid(long) THEN <<ModeSMessage(long)>>
       ELSE IF ModeSValid(short) THEN <<ModeSMessage(short)>> ELSE <<>>

(* The frames from sample i on, up to the last start that leaves room for  *)
(* a long frame.  The length of a long frame is skipped after any frame.   *)
RECURSIVE FramesFrom(_, _)
FramesFrom(mags, i) ==
    LET starts == { p \in i .. Len(mags) - Need :
                      (p - i) % HalfBit = 0 /\ ScorePreamble(mags, p) }
        found == { p \in starts : TryFrame(mags, p + PREAMBLE) /= <<>> }
    IN IF found = {} THEN <<>>
       ELSE TryFrame(mags, Least(found) + PREAMBLE) \o FramesFrom(mags, Least(found) + Need)

(* Faulty variant: the scan begins where the last chunk ended. *)
ModeSScanForward(decoder) ==
    LET end == Len(decoder.mags) - Need
    IN IF end < 0 THEN decoder
       ELSE [decoder EXCEPT !.got = @ \o FramesFrom(decoder.mags, Lower(decoder.from, end)),
                            !.from = Len(decoder.mags)]

ModeSScan(decoder) ==
    LET end == Len(decoder.mags) - Need
    IN IF end < 0 THEN decoder
       ELSE [decoder EXCEPT !.got = @ \o FramesFrom(decoder.mags, Lower(decoder.from, end)),
                            !.from = end]

(* The buffer is cut to one frame when it holds more than four.            *)
ModeSTrim(decoder) ==
    LET excess == Len(decoder.mags) - Need
    IN IF Len(decoder.mags) > 4 * Need
         THEN [decoder EXCEPT !.mags = Drop(@, excess), !.from = Higher(@ - excess, 0)]
         ELSE decoder

ModeSFeed(decoder, chunk) ==
    ModeSTrim(ModeSScan([decoder EXCEPT !.mags = @ \o chunk]))

-----------------------------------------------------------------------------
(* UAT: Reed-Solomon over GF(256) with the polynomial 0x187.  An octet is  *)
(* the set of its one bits, 0 the least significant.                       *)
SymmetricDifference(a, b) == (a \ b) \cup (b \ a)
GfDouble(a) == SymmetricDifference({ i + 1 : i \in a \ {7} }, IF 7 \in a THEN {0, 1, 2, 7} ELSE {})
GfMul(a, b) ==
    LET step[k \in 0 .. 8] ==  \* the product of the k highest bits of b, Horner's way
            IF k = 0 THEN {}
            ELSE SymmetricDifference(GfDouble(step[k - 1]), IF 8 - k \in b THEN a ELSE {})
    IN step[8]
(* The powers of alpha that the generator's roots are: 120 to 139.         *)
GfSquare(a) == GfMul(a, a)
GfPowAlpha ==
    LET alpha120 == GfSquare(GfSquare(GfSquare(GfMul(GfMul({7}, {7}), {1}))))  \* 8 * (7 + 7 + 1)
        power[n \in 120 .. 139] == IF n = 120 THEN alpha120 ELSE GfDouble(power[n - 1])
    IN [n \in 120 .. 139 |-> power[n]]

(* Faulty variant: the check octets are not looked at. *)
RsValidLoose(codeword, roots) == Len(codeword) > roots

RsValid(codeword, roots) ==
    \A r \in 0 .. roots - 1 :
        LET at[i \in 0 .. Len(codeword)] ==
                IF i = 0 THEN {}
                ELSE LET sum == at[i - 1]
                     IN IF sum = {} THEN codeword[i]
                        ELSE SymmetricDifference(GfMul(sum, GfPowAlpha[120 + r]), codeword[i])
        IN at[Len(codeword)] = {}

(* The sum of two polynomials, and one times a number.                     *)
GfSum(p, q) == [j \in DOMAIN p |-> SymmetricDifference(p[j], q[j])]
GfTimes(p, a) == [j \in DOMAIN p |-> GfMul(p[j], a)]

Generator(roots) ==
    LET at[n \in 0 .. roots] ==
            IF n = 0 THEN <<{0}>>
            ELSE LET g == at[n - 1]
                 IN <<>> \o GfSum(Append(g, {}), <<{}>> \o GfTimes(g, GfPowAlpha[120 + n - 1]))
    IN at[roots]

RsEncode(data, roots) ==
    LET generator == Generator(roots)
        at[i \in 0 .. Len(data)] ==
            IF i = 0 THEN data \o [j \in 1 .. roots |-> {}]
            ELSE LET work == at[i - 1]
                 IN SubSeq(work, 1, i - 1)
                    \o GfSum(SubSeq(work, i, i + roots), GfTimes(generator, work[i]))
                    \o Drop(work, i + roots)
    IN data \o Drop(at[Len(data)], Len(data))

OctetsOf(bits) ==
    [i \in 1 .. Len(bits) \div 8 |-> { k \in 0 .. 7 : bits[(8 * i) - k] = 1 }]
BitsOfOctets(octets) ==
    [i \in 1 .. 8 * Len(octets) |->
        IF 7 - ((i - 1) % 8) \in octets[(i - 1) \div 8 + 1] THEN 1 ELSE 0]

UAT_DOWNLINK_SYNC == BitsOf(240439, 18) \o BitsOf(107746, 18)
UAT_UPLINK_SYNC == BitsOf(21704, 18) \o BitsOf(154397, 18)

(* Type 0, in the first five bits, is the short format.                    *)
LongType(octet) == octet \cap 3 .. 7 /= {}

UatDownlink(codeword) ==
    LET long == LongType(codeword[1])
    IN IF Len(codeword) = (IF long THEN 48 ELSE 30) /\ RsValid(codeword, IF long THEN 14 ELSE 12)
         THEN <<SubSeq(codeword, 1, IF long THEN 34 ELSE 18)>> ELSE <<>>

UatUplink(codeword) ==
    LET block(b) == SubSeq(codeword, 92 * b + 1, 92 * b + 92)
    IN IF \A b \in 0 .. 5 : RsValid(block(b), 20) THEN <<[i \in 1 .. 432 |->
              codeword[92 * ((i - 1) \div 72) + ((i - 1) % 72) + 1]]>> ELSE <<>>

NewUat == [bits |-> <<>>, at |-> 0, got |-> <<>>]

(* How many bits a frame takes whose synchronisation word starts after bit *)
(* p; its first octet must have arrived to know.                           *)
UatLength(bits, p) ==
    IF SubSeq(bits, p + 1, p + 36) = UAT_UPLINK_SYNC THEN 36 + 6 * 92 * 8
    ELSE IF Len(bits) < p + 44 THEN 44
    ELSE IF LongType(OctetsOf(SubSeq(bits, p + 37, p + 44))[1]) THEN 36 + 48 * 8 ELSE 36 + 30 * 8

UatParsed(bits, p) ==
    LET codeword == OctetsOf(SubSeq(bits, p + 37, p + UatLength(bits, p)))
    IN IF SubSeq(bits, p + 1, p + 36) = UAT_UPLINK_SYNC THEN UatUplink(codeword)
                                                        ELSE UatDownlink(codeword)

(* Go to the next synchronisation word; wait for a frame that is not all   *)
(* there, step over one bit when it is no frame.                           *)
RECURSIVE UatScan(_)
UatScan(decoder) ==
    LET bits == decoder.bits
        syncs == { p \in decoder.at .. Len(bits) - 36 :
                     SubSeq(bits, p + 1, p + 36) \in {UAT_DOWNLINK_SYNC, UAT_UPLINK_SYNC} }
        p == Least(syncs)
    IN IF syncs = {}
         THEN [decoder EXCEPT !.at = Higher(@, Len(bits) - 35)]
       ELSE IF Len(bits) < p + UatLength(bits, p)
         THEN [decoder EXCEPT !.at = p]
       ELSE IF UatParsed(bits, p) = <<>>
         THEN UatScan([decoder EXCEPT !.at = p + 1])
         ELSE UatScan([decoder EXCEPT !.at = p + UatLength(bits, p),
                                      !.got = @ \o UatParsed(bits, p)])

(* Everything but 35 bits before the scan position goes.                   *)
UatCompact(decoder) ==
    LET drain == Higher(decoder.at - 35, 0)
    IN IF decoder.at > CompactAt
         THEN [decoder EXCEPT !.bits = Drop(@, drain), !.at = @ - drain]
         ELSE decoder

UatFeed(decoder, chunk) == UatCompact(UatScan([decoder EXCEPT !.bits = @ \o chunk]))

(* synthesize_uat_abcdef_bits *)
UatWire(payload) ==
    UAT_DOWNLINK_SYNC \o BitsOfOctets(RsEncode(payload, IF LongType(payload[1]) THEN 14 ELSE 12))
=============================================================================
