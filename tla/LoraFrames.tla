----------------------------- MODULE LoraFrames -----------------------------
(***************************************************************************)
(* LoRa (lora.rs): the chirp framing, and how the payload is taken for one *)
(* of five protocols, of which only Modbus carries a check.  A symbol is   *)
(* the chirp's shift, 0..255; a payload is a sequence of octets.           *)
(***************************************************************************)
EXTENDS Beacons

PREAMBLE_SYMBOLS == 6
DownChirp == 170    \* what is read of one: any shift does, its place is counted
MaxSymbols == 97    \* the first of them the length

(***************************************************************************)
(* Chirps                                                                  *)
(***************************************************************************)

PackSymbols(octets) == <<Len(octets)>> \o octets
UnpackSymbols(symbols) == SubSeq(symbols, 2, Lower(symbols[1] + 1, Len(symbols)))

EncodeCss(octets) ==
    Zeros(PREAMBLE_SYMBOLS) \o <<DownChirp, DownChirp>> \o PackSymbols(octets)

\* One chirp less than a preamble has is enough.
PreamblesIn(symbols) ==
    {p \in 0..(Len(symbols) - PREAMBLE_SYMBOLS + 1) :
        \A k \in 1..(PREAMBLE_SYMBOLS - 1) : symbols[p + k] <= 2}

\* The payload is where it is if the preamble was seen from its beginning.
DecodeCss(symbols) ==
    LET from == Least(PreamblesIn(symbols)) + PREAMBLE_SYMBOLS + 2
        heard == SubSeq(symbols, from + 1, Lower(from + MaxSymbols, Len(symbols)))
    IN  IF Len(symbols) < PREAMBLE_SYMBOLS + 4 \/ PreamblesIn(symbols) = {} \/ heard = <<>> THEN <<>>
        ELSE UnpackSymbols(heard)

(***************************************************************************)
(* Texts and ciphers                                                       *)
(***************************************************************************)

Printable == 32..126
Blanks == {9, 10, 13, 32}
Trimmed(octets) ==
    LET kept == {i \in DOMAIN octets : octets[i] \notin Blanks}
    IN  IF kept = {} THEN <<>>
        ELSE SubSeq(octets, Least(kept), CHOOSE i \in kept : \A j \in kept : j <= i)
Plain(said) == IF \A k \in DOMAIN said : said[k] \in Printable THEN said ELSE <<>>
Legible(octets) == SelectSeq(octets, LAMBDA o : o \in Printable)

\* AES and SHA-256 come from libraries: a stream and two octets that differ
\* with the key.
Stream(key, nonce, i) == (37 * key + 11 * nonce + 5 * i * key + 113) % 256
Encrypted(key, nonce, octets) ==
    [i \in DOMAIN octets |-> (octets[i] + Stream(key, nonce, i)) % 256]
Decrypted(key, nonce, octets) ==
    [i \in DOMAIN octets |-> (octets[i] + 256 - Stream(key, nonce, i)) % 256]
KeyHash(key) == (key * 91 + 17) % 256
Mac(key, octets) ==
    LET sum[i \in 0..Len(octets)] == IF i = 0 THEN key ELSE (3 * sum[i - 1] + octets[i]) % 65536
    IN  <<sum[Len(octets)] \div 256, sum[Len(octets)] % 256>>

Packet(protocol, type, address, content, encryption) ==
    <<[protocol |-> protocol, type |-> type, address |-> address, content |-> content,
       encryption |-> encryption]>>

\* A packet that is known for what it is even if nothing can be read of it.
ReadOrIdentified(protocol, type, address, content, encryption) ==
    IF content # <<>> THEN Packet(protocol, type, address, content, encryption)
    ELSE Packet(protocol, type, address, <<>>, "identified")

\* The first of some readings that says anything.
FirstReading(readings, otherwise) ==
    LET having == {i \in DOMAIN readings : readings[i] # <<>>}
    IN  IF having = {} THEN otherwise ELSE readings[Least(having)]

(***************************************************************************)
(* Modbus                                                                  *)
(***************************************************************************)

ModbusFunctions == 1..6 \cup {15, 16}
Crc16Modbus(octets) ==
    Register(Reversed(BitsOf(40961, 16)), Ones(16),
             Flatten([i \in DOMAIN octets |-> Reversed(BitsOf(octets[i], 8))]))
CheckOctets(octets) ==
    LET crc == Reversed(Crc16Modbus(octets))
    IN  <<Number(SubSeq(crc, 9, 16)), Number(SubSeq(crc, 1, 8))>>

ParseModbusRtu(b) ==
    IF Len(b) < 8 \/ b[1] \notin 1..247 \/ b[2] \notin ModbusFunctions THEN <<>>
    ELSE IF Last(b, 2) # CheckOctets(WithoutLast(b, 2)) THEN <<>>
    ELSE Packet("modbus-lora", b[2], <<b[1]>>, <<b[3], b[4]>>, "none")

(***************************************************************************)
(* Meshtastic                                                              *)
(***************************************************************************)

\* A text message: port 1 as a varint, then a field of legible octets.
Varint(b, from) ==
    LET ends == {i \in from..Lower(from + 4, Len(b)) : b[i] < 128}
        last == Least(ends)
        value[i \in from..(last + 1)] == IF i > last THEN 0 ELSE (b[i] % 128) + 128 * value[i + 1]
    IN  IF ends = {} THEN [value |-> 0, next |-> Len(b) + 1]
        ELSE [value |-> value[from], next |-> last + 1]

TextField(b, i) ==
    LET said == SubSeq(b, i + 2, i + 1 + b[i + 1])
    IN  IF i + 1 > Len(b) \/ b[i] # 18 THEN <<>>
        ELSE IF b[i + 1] = 0 \/ i + 1 + b[i + 1] > Len(b) THEN <<>>
        ELSE IF \E k \in DOMAIN said : said[k] \notin Printable \cup {10, 13} THEN <<>>
        ELSE Trimmed(said)
AfterPort(b, port) == IF port.value # 1 THEN <<>> ELSE TextField(b, port.next)
MeshtasticText(b) == IF Len(b) < 5 \/ b[1] # 8 THEN <<>> ELSE AfterPort(b, Varint(b, 2))

\* The default key and the nine "simple" ones; no other is ever tried.
PublicKeys == 1..10
MeshNonce(b) == (b[5] + 3 * b[9]) % 256     \* of the sender and the packet
PublicText(b) ==
    FirstReading([key \in PublicKeys |->
                     MeshtasticText(Decrypted(key, MeshNonce(b), SubSeq(b, 17, Len(b))))], <<>>)

MeshtasticPacket(sender, clear, public) ==
    IF clear # <<>> THEN Packet("meshtastic", "text", sender, clear, "none")
    ELSE IF public # <<>> THEN Packet("meshtastic", "text", sender, public, "public")
    ELSE Packet("meshtastic", "encrypted", sender, <<>>, "identified")

HopsAgree(b) == b[13] \div 32 = b[13] % 8
ParseMeshtastic(b) ==
    LET sender == SubSeq(b, 5, 8)
    IN  IF Len(b) <= 16 \/ sender = <<0, 0, 0, 0>> THEN <<>>
        ELSE IF (\E i \in 1..4 : b[i] # 255) /\ ~HopsAgree(b) THEN <<>>
        ELSE MeshtasticPacket(sender, MeshtasticText(SubSeq(b, 17, Len(b))), PublicText(b))

(***************************************************************************)
(* MeshCore                                                                *)
(***************************************************************************)

PublicPsk == 42
\* The longest run of whole blocks that the code fits.
PublicGroupText(b) ==
    LET ends == {n \in 1..((Len(b) - 3) \div 16) : Mac(PublicPsk, SubSeq(b, 4, 3 + 16 * n)) = SubSeq(b, 2, 3)}
        longest == CHOOSE n \in ends : \A m \in ends : m <= n
        plain == Decrypted(PublicPsk, 0, SubSeq(b, 4, 3 + 16 * longest))
        nul == {i \in 6..Len(plain) : plain[i] = 0}
        said == Trimmed(SubSeq(plain, 6, IF nul = {} THEN Len(plain) ELSE Least(nul) - 1))
    IN  IF Len(b) < 19 \/ b[1] # KeyHash(PublicPsk) \/ ends = {} THEN <<>>
        ELSE Plain(said)

ParseMeshcore(b) ==
    LET type == (b[1] \div 4) % 16
        path == b[2]
        payload == SubSeq(b, 3 + path, Len(b))
        address == SubSeq(b, 3, 2 + Lower(path, 4))
    IN  IF Len(b) < 3 \/ 2 + path >= Len(b) \/ path > 64 THEN <<>>
        ELSE IF (path = 0 /\ type \notin {2, 4, 5, 6}) \/ type \in 12..14 THEN <<>>
        ELSE IF type \in {5, 6}
        THEN ReadOrIdentified("meshcore", type, address, PublicGroupText(payload), "public")
        ELSE IF type = 2 /\ Len(payload) > 5
        THEN ReadOrIdentified("meshcore", type, address, Plain(Trimmed(SubSeq(payload, 6, Len(payload)))), "none")
        ELSE IF Len(Legible(payload)) >= 4
        THEN Packet("meshcore", type, address, Legible(payload), "none")
        ELSE Packet("meshcore", type, address, <<>>, "identified")

(***************************************************************************)
(* Reticulum and LoRaWAN                                                   *)
(***************************************************************************)

ParseReticulum(b) ==
    LET type == b[1] \div 64
        said == Legible(SubSeq(b, 19, Len(b)))
    IN  IF Len(b) < 18 \/ b[1] % 4 > 1 \/ type = 0 \/ (type # 1 /\ Len(b) < 20) THEN <<>>
        ELSE IF type = 1 /\ Len(said) >= 3 THEN Packet("reticulum", type, SubSeq(b, 3, 18), said, "none")
        ELSE Packet("reticulum", type, SubSeq(b, 3, 18), <<>>, "identified")

ParseLorawan(b) ==
    LET type == b[1] \div 32
    IN  IF Len(b) \notin 12..64 \/ b[1] % 4 # 0 \/ type > 5 \/ (type = 0 /\ Len(b) # 23) THEN <<>>
        ELSE Packet("lorawan", type, IF type >= 2 THEN SubSeq(b, 2, 5) ELSE <<>>, <<>>, "identified")

\* The first that will have it.
ClassifyPayload(b) ==
    IF b = <<>> THEN <<>>
    ELSE FirstReading(<<ParseModbusRtu(b), ParseMeshtastic(b), ParseMeshcore(b), ParseReticulum(b),
                        ParseLorawan(b)>>,
                      Packet("lora", "unknown", <<>>, <<>>, "unknown"))

LoraDecode(symbols) == ClassifyPayload(DecodeCss(symbols))

(***************************************************************************)
(* What is sent: a packet and the octets that carry it.                    *)
(***************************************************************************)

PortText(text) == <<8, 1, 18, Len(text)>> \o text

LoraOctets(p) ==
    CASE p.protocol = "modbus-lora" ->
            LET rtu == p.address \o <<p.type>> \o p.said \o <<0, 2>> IN rtu \o CheckOctets(rtu)
      [] p.protocol = "meshtastic" ->
            LET header == p.to \o p.address \o <<p.id, 0, 0, 0, p.hops, 8, 0, 0>>
            IN  header \o IF p.key = 0 THEN PortText(p.said)
                          ELSE Encrypted(p.key, MeshNonce(header), PortText(p.said))
      [] p.protocol = "meshcore" /\ p.type = 2 ->
            <<9, Len(p.address)>> \o p.address \o <<104, 0, 0, 1, 0>> \o p.said
      [] p.protocol = "meshcore" /\ p.type # 2 ->
            LET plain == <<0, 101, 83, 241, 0>> \o p.said
                sealed == Encrypted(p.key, 0, plain \o Zeros((16 - (Len(plain) % 16)) % 16))
            IN  <<4 * p.type + 1, Len(p.address)>> \o p.address \o <<KeyHash(PublicPsk)>>
                    \o Mac(p.key, sealed) \o sealed
      [] p.protocol = "reticulum" -> <<64, p.hops>> \o p.address \o p.said
      [] p.protocol = "lorawan" -> <<32 * p.type>> \o p.address \o p.said

\* What a reader without keys of their own may know of it.
LoraMeaning(p) ==
    LET known == CASE p.protocol = "meshtastic" -> {0} \cup PublicKeys
                   [] p.protocol = "lorawan" -> {}
                   [] OTHER -> {0, PublicPsk}
        open == p.key \in known
    IN  [protocol |-> p.protocol, address |-> p.address,
         type |-> IF p.protocol # "meshtastic" THEN p.type ELSE IF open THEN "text" ELSE "encrypted",
         content |-> IF open THEN p.said ELSE <<>>,
         encryption |-> IF ~open THEN "identified" ELSE IF p.key = 0 THEN "none" ELSE "public"]

\* Between transmissions the receiver hears shifts of no pattern.
LoraWire(p) == <<23, 201>> \o EncodeCss(LoraOctets(p)) \o <<77, 140, 9>>

\* Only Modbus carries a check: a packet whose thirteenth octet has two equal
\* hop counts passes for Meshtastic, one whose second octet could be the length
\* of a path passes for MeshCore, a long LoRaWAN packet for Reticulum.
Mistakable(p) ==
    LET b == LoraOctets(p)
    IN  \/ p.protocol \notin {"modbus-lora", "meshtastic"} /\ Len(b) > 16 /\ HopsAgree(b)
        \/ p.protocol \in {"reticulum", "lorawan"} /\ b[2] \in 1..(Len(b) - 3)
        \/ p.protocol = "lorawan" /\ Len(b) >= 18
=============================================================================
