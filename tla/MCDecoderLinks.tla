--------------------------- MODULE MCDecoderLinks ---------------------------
(***************************************************************************)
(* DecoderLinks for TLC: few short frames, chosen so that stuffing, flags  *)
(* inside data, corrections and batches that follow each other all happen. *)
(***************************************************************************)
EXTENDS DecoderLinks

(* Two runs of ones, and an octet that looks like a flag.                  *)
OnesPayload == Ones(8)
FlagPayload == <<0, 1, 1, 1, 1, 1, 1, 0>>
PlainPayload == <<1, 0, 1, 1, 0, 0, 1, 0>>

Character(n) == BitsOf(n, 7)

(* Address bits, function, data: pages of frames 0 and 1.                  *)
Page(frame, n, words) ==
    [frame |-> frame, address |-> BitsOf(n, 18), function |-> BitsOf(n % 4, 2),
     data |-> [w \in 1 .. words |-> BitsOf(n * w, 20)]]

(* Airborne positions, an identification, an all-call reply.               *)
Airborne(icao, altitude) == [df |-> 17, icao |-> icao, tc |-> 11, altitude |-> altitude]
Identification(icao) == [df |-> 17, icao |-> icao, tc |-> 4, altitude |-> -9999]
AllCall(icao) == [df |-> 11, icao |-> icao, tc |-> 0, altitude |-> -9999]

(* An AX.25 frame: two addresses, control, protocol and a character.       *)
Ax25 == [i \in 1 .. 8 * 17 |-> IF i \in {8 * 14, 8 * 14 + 7, 8 * 14 + 8} \/ i % 5 = 3 THEN 1 ELSE 0]

ShortUat == [i \in 1 .. 18 |-> IF i = 1 THEN {0, 1} ELSE { b \in 0 .. 7 : (i + b) % 3 = 0 }]
LongUat == [i \in 1 .. 34 |-> IF i = 1 THEN {3} ELSE { b \in 0 .. 7 : (i + b) % 4 = 0 }]

(* Advertisements, telemetry and notices.                                  *)
Structure(type, octets) == [type |-> Reversed(BitsOf(type, 8)), data |-> [i \in 1 .. 8 * octets |-> (i % 3) % 2]]
Advert(channel, structures) ==
    [channel |-> channel, address |-> [i \in 1 .. 48 |-> (i % 5) % 2], structures |-> structures]
Telemetry(n) == [i \in 1 .. 8 * 28 |-> (i % n) % 2]
Name(n, octets) == [i \in 1 .. 8 * octets |-> (i % n) % 2]
Notice(n) == [satellite |-> Name(3, 2), product |-> Name(n, 3), channel |-> Name(5, 1),
              timestamp |-> Name(n + 1, 8)]

Group(n) == [pi |-> BitsOf(48879, 16), pty |-> 10, segment |-> n % 4, chars |-> BitsOf(18505 + (n % 4), 16)]

(* Fields at their ends: both signs, the last value before none, and none. *)
From(type) == [type |-> type, repeat |-> 1, mmsi |-> 366123456]
Places_ == {<<>>, <<-1>>, <<-108599999>>, <<53>>}
Position(type) ==
    {[sender |-> From(type), status |-> 5, turn |-> <<-127>>, speed |-> s, accurate |-> 1,
      longitude |-> x, latitude |-> y, course |-> <<3599>>, heading |-> h, second |-> <<59>>,
      maneuver |-> 2, raim |-> 1, radio |-> 262145] :
        x \in Places_, y \in {<<>>, <<-54599999>>, <<7>>}, s \in {<<>>, <<1022>>}, h \in {<<>>, <<359>>}}
SmallPosition ==
    {[sender |-> From(18), speed |-> <<0>>, accurate |-> 0, longitude |-> x, latitude |-> <<-1>>,
      course |-> c, heading |-> <<0>>, second |-> <<>>, unit |-> <<1, 0, 1, 1, 0, 0>>, raim |-> 0,
      radio |-> 524289] : x \in Places_, c \in {<<>>, <<0>>}}
Hull == [bow |-> 511, stern |-> 1, port |-> 63, starboard |-> 2]
Voyage ==
    {[sender |-> From(5), version |-> 1, imo |-> i, callsign |-> <<1, 32, 2>>, name |-> n, ship |-> 70,
      dimensions |-> Hull, fix |-> 15, eta |-> e, draught |-> <<255>>, destination |-> <<8, 1>>, ready |-> 1] :
        i \in {<<>>, <<9074729>>}, n \in {<<>>, [k \in 1 .. 20 |-> k]}, e \in {<<>>, <<<<12, 31, 23, 59>>>>}}
Craft ==
    {[sender |-> From(24), name |-> <<1, 0, 5>>],
     [sender |-> From(24), ship |-> 37, vendor |-> <<1, 2, 3>>, model |-> 9, serial |-> 1048575,
      callsign |-> <<63>>, dimensions |-> <<Hull>>, mother |-> <<>>],
     [sender |-> [From(24) EXCEPT !.mmsi = 989999999], ship |-> 37, vendor |-> <<>>, model |-> 0,
      serial |-> 0, callsign |-> <<>>, dimensions |-> <<>>, mother |-> <<366123456>>]}

(* LoRa packets of each kind, clear, under a known key and under another.  *)
Lora(protocol, type, key, address, said) ==
    [protocol |-> protocol, type |-> type, key |-> key, address |-> address, said |-> said,
     to |-> <<255, 255, 255, 255>>, id |-> 17, hops |-> 99]
Hello == <<72, 105, 33>>
Sensors == { Lora("modbus-lora", f, 0, <<a>>, <<0, r>>) : f \in {3, 6}, a \in {1, 247}, r \in {0, 107} }
Mesh == { [Lora("meshtastic", "text", k, <<1, 2, 3, 4>>, t) EXCEPT !.to = to, !.hops = h] :
            k \in {0, 1, 10, 99}, t \in {Hello, <<79>>}, to \in {<<255, 255, 255, 255>>, <<9, 8, 7, 6>>}, h \in {99, 0} }
Companions == { Lora("meshcore", 2, 0, <<7, 8>>, Hello), Lora("meshcore", 5, PublicPsk, <<7>>, Hello),
                Lora("meshcore", 5, PublicPsk, <<>>, [i \in 1 .. 20 |-> 64 + i]),
                Lora("meshcore", 5, 7, <<7, 8, 9>>, Hello) }
Announces == { [Lora("reticulum", 1, 0, [i \in 1 .. 16 |-> 10 * i], Hello) EXCEPT !.hops = h] : h \in {0, 1} }
               \cup { Lora("lorawan", t, 0, <<n, 2, 3, 4>>, Zeros(7 + k)) : t \in {2, 4}, n \in {3, 200}, k \in {0, 8} }

(* The blocks of a control channel: identifiers, then grants.              *)
Iden(last, n, base, spacing) ==
    [kind |-> "iden", last |-> last, identifier |-> n, base |-> base, spacing |-> spacing]
Grant(last, opcode, e, talkgroup, source, channel) ==
    [kind |-> "grant", last |-> last, opcode |-> opcode, encrypted |-> e,
     talkgroup |-> talkgroup, source |-> source, channel |-> channel]
ControlBlocks ==
    { <<Iden(0, 1, 170201250, 12500), Grant(a, 0, e, 65535, 16777215, c), Grant(1, 2, 1 - e, 100, 7, 4095 - c)>> :
        a, e \in {0, 1}, c \in {0, 1, 4095} }
    \cup { <<Iden(0, 15, 1, 1), Iden(0, 0, 1073741823, 65535), Grant(0, 2, 0, 0, 0, 5)>>, <<Grant(1, 0, 1, 1, 1, 1), Iden(0, 1, 2, 3)>> }

(* Signals on their own frequencies and elsewhere, strong and weak.        *)
Signal(protocol, kHz, width, bandwidth, mode, bank, audio, tones) ==
    { [protocol |-> protocol, kHz |-> kHz, width |-> width, bandwidth |-> bandwidth, mode |-> mode,
       bank |-> b, snr |-> s, audio |-> audio, tones |-> tones] : s \in {8, 15, 25}, b \in {{}, bank} }
Hits ==
    UNION { Signal("ais", k, 12500, 25000, "nfm", {"ais", "marine"}, {}, <<>>) : k \in {161975, 162025, 156800} }
    \cup UNION { Signal("vdl2", k, w, 25000, "nfm", {"aircraft"}, {}, <<>>) : k \in {136975, 121500}, w \in {12500, 25000} }
    \cup UNION { Signal("uat978", 978000, w, 1300000, "wfm", {"uat"}, {}, <<>>) : w \in {100000, 1300000} }
    \cup UNION { Signal("pocsag", k, 9000, 12500, "nfm", {"pager"}, a, r) :
                   k \in {455000, 930500, 152480}, a \in {{}, {"afsk"}}, r \in {<<512>>, <<1200>>, <<2400>>} }
    \cup UNION { Signal("rds", k, 75000, 200000, "wfm", {"fm broadcast"}, {"rds"}, <<>>) : k \in {88000, 98100, 108000} }
    \cup UNION { Signal("cw", k, 200, 2500, "usb", {"amateur"}, {}, t) : k \in {7020, 14030, 9000}, t \in {<<600>>, <<900>>} }
    \cup UNION { Signal("rtty", k, 400, 2500, "usb", {"amateur"}, {}, t) : k \in {14100, 3650, 7150}, t \in RTTY_PROFILES \cup {<<850, 2125, 45>>} }
    \cup Signal("navtex", 518, 400, 2500, "usb", {}, {}, <<>>)
    \cup Signal("adsb", 1090000, 1000000, 2000000, "nfm", {"ads-b"}, {}, <<>>)
    \cup Signal("acars", 131550, 3000, 12500, "am", {"acars"}, {}, <<>>)
    \cup Signal("voice", 146520, 5000, 12500, "nfm", {"amateur"}, {"ctcss", "busy"}, <<>>)

MCTraffic ==
    [l \in {"ais", "vdl2", "acars", "pocsag", "pocsag_inv", "mode_s", "uat", "aprs", "ble", "sonde", "goes", "goes_inv", "cw", "rtty", "navtex", "rds", "ais_report", "lora", "p25", "auto"} |->
        CASE l \in {"ais", "vdl2"} -> {<<OnesPayload, PlainPayload>>, <<FlagPayload, OnesPayload>>}
          [] l = "acars" -> {<<<<Character(83), Character(7)>>, <<Character(64)>>>>}
          [] l = "pocsag" -> {<<Page(0, 5, 2), Page(1, 1234, 1)>>, <<Page(1, 77, 1), Page(0, 9, 1), Page(0, 3, 2)>>}
          [] l = "pocsag_inv" -> {<<Page(0, 6, 3), Page(1, 21, 1)>>}
          [] l = "mode_s" -> {<<Airborne(11259375, 36000), Identification(5)>>,
                               <<AllCall(99), Airborne(7, 1000), Airborne(9, -1000)>>}
          [] l = "uat" -> {<<ShortUat, LongUat>>, <<LongUat, ShortUat>>}
          [] l = "aprs" -> {<<Ax25, Ax25>>}
          [] l = "ble" -> {<<Advert(37, <<>>), Advert(37, <<Structure(9, 1)>>)>>, <<Advert(39, <<>>)>>,
                            <<Advert(38, <<Structure(1, 1), Structure(9, 2)>>)>>}
          [] l = "sonde" -> {<<Telemetry(3), Telemetry(7)>>}
          [] l \in {"goes", "goes_inv"} -> {<<Notice(3), Notice(4)>>}
          [] l = "cw" -> [1 .. 3 -> {"E", "T", "K", "W"}] \cup { <<a, "_", b>> : a, b \in {"E", "O", "S"} }
          [] l = "rtty" -> [1 .. 3 -> {"E", "3", "V", "_", "nl"}]
          [] l = "navtex" -> { <<a, b, "_", "5", c, "C">> : a, b, c \in {"E", "X", "5"} }
                               \cup { <<a, "C", "Q", "M", "Z", b, "A">> : a, b \in {"E", "M"} }
          [] l = "ais_report" -> { <<r>> : r \in Position(1) \cup Position(3) } \cup { <<r>> : r \in SmallPosition }
                                   \cup { <<r>> : r \in Voyage } \cup { <<r>> : r \in Craft }
          [] l = "lora" -> { <<p>> : p \in Sensors \cup Mesh \cup Companions \cup Announces }
          [] l = "p25" -> ControlBlocks
          [] l = "auto" -> { <<h>> : h \in Hits }
          [] l = "rds" -> {[g \in 1 .. 5 |-> Group(g - 1)]}]

MCChunks ==
    [l \in DOMAIN MCTraffic |->
        CASE l \in Paging -> {32}
          [] l = "mode_s" -> {97, 240, 1000}
          [] l = "uat" -> {36, 200}
          [] l \in Beaconing -> {75, 150}
          [] l \in Reading -> {2000}
          [] OTHER -> {1}]

MCErrors ==
    [l \in DOMAIN MCTraffic |->
        CASE l \in Paging -> 3
          [] l \in {"mode_s", "aprs"} \cup (Reading \ {"rds"}) -> 0
          [] l = "rds" -> 2
          [] l \in {"uat"} \cup Beaconing -> 1
          [] OTHER -> 2]

(* Every place; of the long UAT stream, the synchronisation words' first   *)
(* and last bits, the first octets and one bit in each few octets; of a    *)
(* pager's words the first and last of the data, the check and the parity. *)
MCExposed ==
    [l \in DOMAIN MCTraffic |->
        CASE l = "uat" -> {1, 18, 36, 37, 41} \cup { 47 * k : k \in 1 .. 14 }
          [] l \in Paging ->
               { 32 * word + bit : word \in 0 .. 14, bit \in {1, 7, 22, 31, 32} }
          [] l \in Beaconing -> { 31 * k : k \in 1 .. 32 }
          [] l = "rds" -> { 149 * k : k \in 1 .. 6 }
          [] OTHER -> 1 .. 800]

MCSlips ==
    [l \in DOMAIN MCTraffic |->
        CASE l = "pocsag" -> {1, 12, 32}
          [] l \in {"ais", "vdl2"} -> {1}
          [] OTHER -> {}]
==============================================================================
