----------------------------- MODULE AisReports -----------------------------
(***************************************************************************)
(* What the fields of an AIS message say (ais.rs, decode_payload_bits):    *)
(* position reports of both classes, static and voyage data.  A field is   *)
(* read at its place in the message; what the sender marks as not known    *)
(* comes out as no value.  Quantities keep the units they are sent in.     *)
(***************************************************************************)
EXTENDS Squitters

Field(bits, start, width) == Number(SubSeq(bits, start + 1, start + width))
SignedField(bits, start, width) ==
    LET value == Field(bits, start, width)
    IN  IF value >= 2 ^ (width - 1) THEN value - 2 ^ width ELSE value

\* A value, or none.
Known(value, condition) == IF condition THEN <<value>> ELSE <<>>
Magnitude(n) == IF n < 0 THEN -n ELSE n

Longitude(n) == Known(n, Magnitude(n) < 181 * 600000)
Latitude(n) == Known(n, Magnitude(n) < 91 * 600000)
Speed(n) == Known(n, n # 1023)
Course(n) == Known(n, n < 3600)
Heading(n) == Known(n, n # 511)
Second(n) == Known(n, n < 60)
RateOfTurn(n) == Known(n, n # -128)

\* Six-bit characters; "@" and blanks at the end are dropped.
Padding == {0, 32}
Text(bits, start, width) ==
    LET signs == [k \in 1..(width \div 6) |-> Field(bits, start + 6 * (k - 1), 6)]
        kept == {k \in DOMAIN signs : signs[k] \notin Padding}
    IN  IF kept = {} THEN <<>> ELSE SubSeq(signs, 1, CHOOSE k \in kept : \A j \in kept : j <= k)

Sender(bits) == [type |-> Field(bits, 0, 6), repeat |-> Field(bits, 6, 2), mmsi |-> Field(bits, 8, 30)]
Dimensions(bits, start) ==
    [bow |-> Field(bits, start, 9), stern |-> Field(bits, start + 9, 9),
     port |-> Field(bits, start + 18, 6), starboard |-> Field(bits, start + 24, 6)]

ClassA(bits) ==
    [sender |-> Sender(bits), status |-> Field(bits, 38, 4),
     turn |-> RateOfTurn(SignedField(bits, 42, 8)), speed |-> Speed(Field(bits, 50, 10)),
     accurate |-> Field(bits, 60, 1),
     longitude |-> Longitude(SignedField(bits, 61, 28)), latitude |-> Latitude(SignedField(bits, 89, 27)),
     course |-> Course(Field(bits, 116, 12)), heading |-> Heading(Field(bits, 128, 9)),
     second |-> Second(Field(bits, 137, 6)), maneuver |-> Field(bits, 143, 2),
     raim |-> Field(bits, 148, 1), radio |-> Field(bits, 149, 19)]

ClassB(bits) ==
    [sender |-> Sender(bits), speed |-> Speed(Field(bits, 46, 10)), accurate |-> Field(bits, 56, 1),
     longitude |-> Longitude(SignedField(bits, 57, 28)), latitude |-> Latitude(SignedField(bits, 85, 27)),
     course |-> Course(Field(bits, 112, 12)), heading |-> Heading(Field(bits, 124, 9)),
     second |-> Second(Field(bits, 133, 6)), unit |-> SubSeq(bits, 142, 147),
     raim |-> Field(bits, 147, 1), radio |-> Field(bits, 148, 20)]

StaticVoyage(bits) ==
    LET month == Field(bits, 274, 4)
        day == Field(bits, 278, 5)
        hour == Field(bits, 283, 5)
        minute == Field(bits, 288, 6)
    IN  [sender |-> Sender(bits), version |-> Field(bits, 38, 2),
         imo |-> Known(Field(bits, 40, 30), Field(bits, 40, 30) # 0),
         callsign |-> Text(bits, 70, 42), name |-> Text(bits, 112, 120),
         ship |-> Field(bits, 232, 8), dimensions |-> Dimensions(bits, 240),
         fix |-> Field(bits, 270, 4),
         eta |-> Known(<<month, day, hour, minute>>,
                       month # 0 /\ day # 0 /\ hour < 24 /\ minute < 60),
         draught |-> Known(Field(bits, 294, 8), Field(bits, 294, 8) # 0),
         destination |-> Text(bits, 302, 120), ready |-> 1 - Field(bits, 422, 1)]

StaticA(bits) == [sender |-> Sender(bits), name |-> Text(bits, 40, 120)]

\* A craft of a mother ship names her in place of its dimensions.
Auxiliary(mmsi) == mmsi \div 10000000 = 98
StaticB(bits) ==
    LET auxiliary == Auxiliary(Field(bits, 8, 30))
    IN  [sender |-> Sender(bits), ship |-> Field(bits, 40, 8), vendor |-> Text(bits, 48, 18),
         model |-> Field(bits, 66, 4), serial |-> Field(bits, 70, 20), callsign |-> Text(bits, 90, 42),
         dimensions |-> Known(Dimensions(bits, 132), ~auxiliary),
         mother |-> Known(Field(bits, 132, 30), auxiliary)]

\* What of a message must have come, and how it is then read.
AisReport(bits) ==
    LET type == Field(bits, 0, 6)
        part == Field(bits, 38, 2)
    IN  IF Len(bits) < 6 THEN <<>>
        ELSE IF type \in 1..3 /\ Len(bits) >= 168 THEN <<ClassA(bits)>>
        ELSE IF type = 5 /\ Len(bits) >= 424 THEN <<StaticVoyage(bits)>>
        ELSE IF type = 18 /\ Len(bits) >= 168 THEN <<ClassB(bits)>>
        ELSE IF type = 24 /\ Len(bits) >= 160 /\ part = 0 THEN <<StaticA(bits)>>
        ELSE IF type = 24 /\ Len(bits) >= 168 /\ part = 1 THEN <<StaticB(bits)>>
        ELSE <<>>

(***************************************************************************)
(* The sender puts the fields one after the other.                         *)
(***************************************************************************)

SignedBits(n, width) == BitsOf(IF n < 0 THEN n + 2 ^ width ELSE n, width)
Padded(signs, n) == [k \in 1..n |-> IF k \in DOMAIN signs THEN signs[k] ELSE 0]
TextBits(signs, n) == [i \in 1..(6 * n) |-> BitsOf(Padded(signs, n)[(i + 5) \div 6], 6)[((i - 1) % 6) + 1]]
Unless(known, value) == IF known = <<>> THEN value ELSE known[1]
SenderBits(s) == BitsOf(s.type, 6) \o BitsOf(s.repeat, 2) \o BitsOf(s.mmsi, 30)
DimensionBits(d) == BitsOf(d.bow, 9) \o BitsOf(d.stern, 9) \o BitsOf(d.port, 6) \o BitsOf(d.starboard, 6)

AisBits(r) ==
    SenderBits(r.sender) \o
    CASE r.sender.type \in 1..3 ->
            BitsOf(r.status, 4) \o SignedBits(Unless(r.turn, -128), 8) \o BitsOf(Unless(r.speed, 1023), 10)
            \o BitsOf(r.accurate, 1) \o SignedBits(Unless(r.longitude, 181 * 600000), 28)
            \o SignedBits(Unless(r.latitude, 91 * 600000), 27) \o BitsOf(Unless(r.course, 3600), 12)
            \o BitsOf(Unless(r.heading, 511), 9) \o BitsOf(Unless(r.second, 60), 6)
            \o BitsOf(r.maneuver, 2) \o BitsOf(0, 3) \o BitsOf(r.raim, 1) \o BitsOf(r.radio, 19)
      [] r.sender.type = 18 ->
            BitsOf(0, 8) \o BitsOf(Unless(r.speed, 1023), 10) \o BitsOf(r.accurate, 1)
            \o SignedBits(Unless(r.longitude, 181 * 600000), 28)
            \o SignedBits(Unless(r.latitude, 91 * 600000), 27) \o BitsOf(Unless(r.course, 3600), 12)
            \o BitsOf(Unless(r.heading, 511), 9) \o BitsOf(Unless(r.second, 60), 6)
            \o BitsOf(0, 2) \o r.unit \o BitsOf(r.raim, 1) \o BitsOf(r.radio, 20)
      [] r.sender.type = 5 ->
            LET eta == Unless(r.eta, <<0, 0, 24, 60>>)
            IN  BitsOf(r.version, 2) \o BitsOf(Unless(r.imo, 0), 30) \o TextBits(r.callsign, 7)
                \o TextBits(r.name, 20) \o BitsOf(r.ship, 8) \o DimensionBits(r.dimensions)
                \o BitsOf(r.fix, 4) \o BitsOf(eta[1], 4) \o BitsOf(eta[2], 5) \o BitsOf(eta[3], 5)
                \o BitsOf(eta[4], 6) \o BitsOf(Unless(r.draught, 0), 8) \o TextBits(r.destination, 20)
                \o BitsOf(1 - r.ready, 1) \o BitsOf(0, 1)
      [] r.sender.type = 24 /\ "name" \in DOMAIN r -> BitsOf(0, 2) \o TextBits(r.name, 20)
      [] OTHER ->
            BitsOf(1, 2) \o BitsOf(r.ship, 8) \o TextBits(r.vendor, 3) \o BitsOf(r.model, 4)
            \o BitsOf(r.serial, 20) \o TextBits(r.callsign, 7)
            \o (IF r.mother = <<>> THEN DimensionBits(r.dimensions[1]) ELSE BitsOf(r.mother[1], 30))
            \o BitsOf(0, 6)
=============================================================================
