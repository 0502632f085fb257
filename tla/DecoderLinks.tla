---------------------------- MODULE DecoderLinks ----------------------------
(***************************************************************************)
(* A transmitter, the air and one native decoder.  The transmitter sends   *)
(* frames one after the other; the air flips bits and may swallow one; the *)
(* decoder is fed what arrives, in pieces of any size, and hands out the   *)
(* messages the scanner publishes (scanner.rs, NativeRangeDecoders::feed). *)
(*                                                                         *)
(* A link is a protocol with its decoder: "ais" on NRZI line levels,       *)
(* "vdl2" on bits, "acars", "pocsag", "pocsag_inv" (the opposite           *)
(* polarity), "mode_s" on magnitudes, "uat", "aprs" on tones, "ble",       *)
(* "sonde", "goes" and "goes_inv" on sliced bits; "cw", "rtty" and         *)
(* "navtex" send a text, a frame being a character, "rds" its groups,      *)
(* "ais_report" the fields of one message, "lora" a packet as chirps and   *)
(* "p25" the blocks of a control channel.  Of "auto" a frame is a signal   *)
(* that the scanner has hit and does not know (module SignalId).           *)
(***************************************************************************)
EXTENDS BitFraming, Pagers, Squitters, Beacons, Telegraphs, AisReports,
        LoraFrames, ControlChannel, SignalId

CONSTANTS
    Traffic,  \* link -> the sequences of frames that may be sent
    Chunks,   \* link -> how many symbols a piece may have
    Errors,   \* link -> how many symbols the air flips
    Exposed,  \* link -> the places of the stream where it may
    PauseBits, \* between two beacons
    Threshold, \* of a confidence, for its decoder to be tried
    Slips     \* link -> which of the next symbols the air may swallow

Links == DOMAIN Traffic
Paging == {"pocsag", "pocsag_inv"}
Beaconing == {"ble", "sonde", "goes", "goes_inv"}
Reading == {"cw", "rtty", "navtex", "rds", "ais_report", "lora", "p25", "auto"}

VARIABLES
    link,
    sent,      \* the frames, in order
    air,       \* the symbols still to arrive
    at,        \* how many have arrived or been lost
    decoder,
    hit,       \* the frames a flip or a slip fell into
    errors,    \* flips so far
    broken,    \* the words of a pager, from 0, with more flips than it corrects
    slipped,   \* the frame a symbol was swallowed in, 0 for none
    flushed

vars == <<link, sent, air, at, decoder, hit, errors, broken, slipped, flushed>>

-----------------------------------------------------------------------------
(* An all-call reply, or a squitter with its altitude in 25 ft steps.      *)
SquitterBits(f) ==
    LET n == (f.altitude + 1000) \div 25
        header == BitsOf(f.df, 5) \o Zeros(3) \o BitsOf(f.icao, 24)
    IN IF f.df = 11 THEN header
       ELSE header \o BitsOf(f.tc, 5) \o Zeros(3)
                   \o BitsOf(n \div 16, 7) \o <<1>> \o BitsOf(n % 16, 4) \o Zeros(36)

(* One frame, as bits or magnitudes.                                       *)
FrameWire(l, frame) ==
    CASE l \in {"ais", "vdl2"} -> WireFrame(frame)
      [] l = "acars" -> AcarsWire(frame)
      [] l = "pocsag" -> SYNC_CODEWORD \o Flatten(Batch(frame))
      [] l = "pocsag_inv" -> Complement(SYNC_CODEWORD \o Flatten(Batch(frame)))
      [] l = "mode_s" -> Magnitudes(AppendCrc(SquitterBits(frame)))
      [] l = "aprs" -> Flag \o frame \o Flag  \* no FCS is looked at, no frame here needs stuffing
      [] l = "uat" -> UatWire(frame)
      [] l = "ble" -> BleWire(frame)
      [] l = "sonde" -> SondeWire(frame)
      [] l = "goes" -> GoesWire(frame)
      [] l = "goes_inv" -> Complement(GoesWire(frame))
      [] l = "rds" -> RdsGroup(frame)
      [] l = "ais_report" -> AisBits(frame)
      [] l = "lora" -> LoraWire(frame)
      [] l = "p25" -> EncodeBlock(frame)
      [] l = "auto" -> <<frame>>

(* Beacons come with a pause before each.                                  *)
Pause == [i \in 1 .. PauseBits |-> (i \div 3) % 2]
FrameOnAir(l, frame) == (IF l \in Beaconing THEN Pause ELSE <<>>) \o FrameWire(l, frame)
Concatenated(l, frames) ==
    Flatten([i \in DOMAIN frames |-> FrameOnAir(l, frames[i])])

(* The Mode S decoder looks for a frame once there is room for a long one; *)
(* the stream goes on after the last frame, and is never quite still.      *)
Wire(l, frames) ==
    CASE l \in {"ais", "aprs"} -> NrziLevels(Concatenated(l, frames), 0)
      [] l = "mode_s" -> Concatenated(l, frames) \o [i \in 1 .. Need |-> Quiet + ((i % 3) % 2)]
      [] l = "cw" -> CwWire(frames)
      [] l = "rtty" -> RttyWire(frames, 1 + (Len(frames) % 2))
      [] l = "navtex" -> SitorWire(frames)
      [] l = "rds" -> RdsWire(Concatenated(l, frames))
      [] l = "p25" -> Pause \o P25_SYNC \o Concatenated(l, frames)
      [] OTHER -> Concatenated(l, frames)

(* The frames that symbol p carries: a level lies between two bits, and    *)
(* the flag that ends a frame is also at the beginning of the next.        *)
PlacesAbout(l, p) ==
    CASE l = "ais" -> {p - 1, p, p + 8}
      [] l = "vdl2" -> {p, p + 8}
      [] l = "rds" -> {(p + 1) \div 2, (p + 1) \div 2 + 1}
      [] OTHER -> {p}
FramesAt(l, frames, p) ==
    LET end[i \in 0 .. Len(frames)] ==
            IF i = 0 THEN 0 ELSE end[i - 1] + Len(FrameOnAir(l, frames[i]))
    IN { i \in 1 .. Len(frames) : \E q \in PlacesAbout(l, p) : end[i - 1] < q /\ q <= end[i] }

New(l) ==
    CASE l = "ais" -> NewAis
      [] l = "vdl2" -> NewVdl2
      [] l = "acars" -> NewAcars
      [] l \in Paging -> NewPocsag
      [] l = "mode_s" -> NewModeS
      [] l = "aprs" -> NewAprs
      [] l = "uat" -> NewUat
      [] l \in Beaconing -> NewWindow
      [] l \in Reading -> [got |-> <<>>]

FedText(l, d, chunk) ==
    CASE l = "cw" -> [got |-> d.got \o DecodeCw(chunk)]
      [] l = "rtty" -> [got |-> d.got \o DecodeRtty(chunk)]
      [] l = "navtex" -> [got |-> d.got \o DecodeNavtex(chunk)]

FedAviation(l, d, chunk) ==
    CASE l = "uat" -> UatFeed(d, chunk)
      [] l = "acars" -> After(AcarsPushBit, d, chunk)
      [] l = "vdl2" -> After(Vdl2PushBit, d, chunk)

FedWindow(l, d, chunk) ==
    LET window == d.window \o chunk
    IN  Searched(d, window, CASE l = "ble" -> BleFound(window)
                              [] l = "sonde" -> SondeFound(window)
                              [] OTHER -> GoesFound(window))

FedAis(d, chunk) == After(NrziPush, d, chunk)
FedAprs(d, chunk) == After(AprsPushBit, d, chunk)
FedPocsag(d, chunk) == After(PocsagPushBit, d, chunk)
FedModeS(d, chunk) == ModeSFeed(d, chunk)
FedRds(d, chunk) == [got |-> d.got \o DecodeRds(chunk)]
FedLora(d, chunk) == [got |-> d.got \o LoraDecode(chunk)]

\* Not of the scanner's decoders: a report is read where it is wanted, a
\* control channel when trunking starts, and a signal once it is a hit.
FedControl(d, chunk) == [got |-> d.got \o ObserveControlChannel(chunk)]
FedReport(d, chunk) == [got |-> d.got \o AisReport(chunk)]
FedHit(d, chunk) == [got |-> d.got \o TryDecodeSignal(chunk[1], Threshold, TRUE)]

Fed(l, d, chunk) ==
    CASE l = "ais" -> FedAis(d, chunk)
      [] l \in {"vdl2", "acars", "uat"} -> FedAviation(l, d, chunk)
      [] l \in Paging -> FedPocsag(d, chunk)
      [] l = "mode_s" -> FedModeS(d, chunk)
      [] l = "aprs" -> FedAprs(d, chunk)
      [] l \in Beaconing -> FedWindow(l, d, chunk)
      [] l \in {"cw", "rtty", "navtex"} -> FedText(l, d, chunk)
      [] l = "rds" -> FedRds(d, chunk)
      [] l = "ais_report" -> FedReport(d, chunk)
      [] l = "lora" -> FedLora(d, chunk)
      [] l = "p25" -> FedControl(d, chunk)
      [] l = "auto" -> FedHit(d, chunk)

(* What a frame is to the one who reads the message.                       *)
MessageFor(l, frame) ==
    CASE l = "acars" -> Append([i \in DOMAIN frame |-> OddParity(frame[i])], ETX)
      [] l = "mode_s" -> [df |-> frame.df, icao |-> frame.icao, altitude |-> frame.altitude,
                          kind |-> IF frame.df = 17 THEN MeKind(frame.tc) ELSE "reply"]
      [] l = "lora" -> LoraMeaning(frame)
      [] OTHER -> frame

-----------------------------------------------------------------------------
Init ==
    \E l \in Links : \E frames \in Traffic[l] :
        /\ link = l
        /\ sent = frames
        /\ air = Wire(l, frames)
        /\ at = 0
        /\ decoder = New(l)
        /\ hit = {}
        /\ errors = 0
        /\ broken = {}
        /\ slipped = 0
        /\ flushed = FALSE

(* Up to as many flips as the air has left, no more than three in a piece; *)
(* a stream that loses a symbol has no flips.                              *)
Disturbances(size) ==
    LET open == { p \in 1 .. size : at + p \in Exposed[link] /\ slipped = 0 /\ errors < Errors[link] }
    IN { flips \in SUBSET open : Cardinality(flips) <= Lower(3, Errors[link] - errors) }

(* A pager's piece is a word, and three flips are beyond its correction.   *)
Broken(flips) == IF link \in Paging /\ Cardinality(flips) > 2 THEN {at \div 32} ELSE {}

Receive ==
    /\ air /= <<>>
    /\ \E n \in Chunks[link] :
         LET size == Lower(n, Len(air))
             piece == SubSeq(air, 1, size)
         IN \E flips \in Disturbances(size) :
              /\ decoder' = Fed(link, decoder, Flip(piece, flips))
              /\ air' = Drop(air, size)
              /\ at' = at + size
              /\ errors' = errors + Cardinality(flips)
              /\ broken' = broken \cup Broken(flips)
              /\ hit' = hit \cup UNION { FramesAt(link, sent, at + p) : p \in flips }
    /\ UNCHANGED <<link, sent, slipped, flushed>>

Slip ==
    /\ slipped = 0
    /\ errors = 0
    /\ \E k \in Slips[link] :
         /\ k <= Len(air)
         /\ hit' = hit \cup FramesAt(link, sent, at + k)
         /\ slipped' = CHOOSE i \in hit' : TRUE
         /\ air' = SubSeq(air, 1, k - 1) \o Drop(air, k)
    /\ at' = at + 1
    /\ UNCHANGED <<link, sent, decoder, errors, broken, flushed>>

(* The end of a recording: a pager's last page is still open.              *)
Flush ==
    /\ air = <<>>
    /\ ~flushed
    /\ decoder' = IF link \in Paging THEN PocsagFlush(decoder) ELSE decoder
    /\ flushed' = TRUE
    /\ UNCHANGED <<link, sent, air, at, hit, errors, broken, slipped>>

Next == Receive \/ Slip \/ Flush

Spec == Init /\ [][Next]_vars
-----------------------------------------------------------------------------
RECURSIVE IsSubsequence(_, _)
IsSubsequence(a, b) ==
    \/ a = <<>>
    \/ /\ b /= <<>>
       /\ IF Head(a) = Head(b) THEN IsSubsequence(Tail(a), Tail(b)) ELSE IsSubsequence(a, Tail(b))

(* Without what repeats the message before it: a Mode S frame that ends    *)
(* where a chunk ends is found again with the next chunk.                  *)
Distinct(messages) ==
    LET fresh(i) == i = 1 \/ messages[i] /= messages[i - 1]
        at_[i \in 0 .. Len(messages)] ==
            IF i = 0 THEN <<>> ELSE IF fresh(i) THEN Append(at_[i - 1], messages[i]) ELSE at_[i - 1]
    IN at_[Len(messages)]

(* Of the groups of a programme: what it is, and its name.  Of a signal:   *)
(* its protocol, of a broadcast also that it is one.                       *)
SignalMessages(signal) ==
    (IF signal.protocol = "rds" THEN <<"fm_broadcast">> ELSE <<>>) \o <<signal.protocol>>

(* What the air leaves of the page in frame i: the words beyond correction *)
(* are passed over.  Without its batch's synchronisation word or its       *)
(* address there is no page.  The page before stays open over such an      *)
(* address, and takes the data behind it, where no idle word that can be   *)
(* read lies between.                                                      *)
WordAt(i, place) == (i - 1) * (WordsPerBatch + 1) + place
AddressPlace(i) == 2 * sent[i].frame + 1
Room(i) == Lower(Len(sent[i].data), WordsPerBatch - AddressPlace(i))
DataLeft(i) ==
    LET at_[w \in 0 .. Room(i)] ==
            IF w = 0 THEN <<>>
            ELSE IF WordAt(i, AddressPlace(i) + w) \in broken THEN at_[w - 1]
            ELSE Append(at_[w - 1], sent[i].data[w])
    IN at_[Room(i)]
Announced(i) == broken \cap {WordAt(i, 0), WordAt(i, AddressPlace(i))} = {}
Swallows(i) ==
    /\ i < Len(sent)
    /\ \A w \in WordAt(i, AddressPlace(i) + Room(i) + 1) .. WordAt(i + 1, AddressPlace(i + 1)) :
          (w \in broken) = (w /= WordAt(i + 1, 0))
LeftOf(i) ==
    [sent[i] EXCEPT !.data =
        IF ~Announced(i) THEN <<>>
        ELSE DataLeft(i) \o (IF Swallows(i) THEN DataLeft(i + 1) ELSE <<>>)]

Messages ==
    IF link \in Paging THEN [i \in DOMAIN sent |-> LeftOf(i)]
    ELSE IF link = "rds" THEN <<sent[1].pi, [s \in 1 .. 4 |-> sent[s].chars]>>
    ELSE IF link = "auto" THEN SignalMessages(sent[1])
    ELSE [i \in DOMAIN sent |-> MessageFor(link, sent[i])]

(* A SITOR word that equals the one five before is taken for its           *)
(* repetition, be it a character or a shift; words that all end in a zero  *)
(* can be read one bit early as well.                                      *)
Readable(text) ==
    LET codes == Ita2Codes(text)
    IN /\ \A i \in DOMAIN codes : i > 5 => codes[i] /= codes[i - 5]
       /\ \E i \in DOMAIN codes : CCIR476[codes[i] + 1] % 2 = 1

(* The groups that came whole: a window's first bit has none to differ     *)
(* from, and costs it the first group.                                     *)
GroupsHeard == DOMAIN sent \ ({1} \cup hit)

(* What the decoder owes: the frames the air left alone.  A pager corrects *)
(* two bits of a word, so it owes what is left of each page; a lost bit    *)
(* costs it the batch it is lost in and, because the hunt for the next one *)
(* begins with an empty register, that one too.  A short Mode S frame      *)
(* hides the next frame, for the decoder skips the length of a long one.   *)
(* The APRS machine is owed nothing: it holds no opening flag, and hears   *)
(* no frame.  A broken beacon stays in the window and hides those after it *)
(* until the window is cut (module NativeWindows).  Morse without a single *)
(* dit is read as if its dahs were dits.  A LoRa payload that could be of  *)
(* another protocol may be taken for that; the blocks of a control channel *)
(* end with the one that says so.                                          *)
Owed(i) ==
    CASE link \in Paging -> LeftOf(i).data /= <<>> /\ (slipped = 0 \/ i \notin {slipped, slipped + 1})
      [] link = "mode_s" -> i = 1 \/ sent[i - 1].df = 17
      [] link = "aprs" -> FALSE
      [] link \in Beaconing -> \A j \in hit : i < j
      [] link = "cw" -> \E k \in DOMAIN sent : sent[k] \in DOMAIN MORSE /\ \E m \in DOMAIN MORSE[sent[k]] : MORSE[sent[k]][m] = 1
      [] link = "navtex" -> Readable(sent)
      [] link = "rds" -> IF i = 1 THEN GroupsHeard # {}
                         ELSE \A s \in 0 .. 3 : \E g \in GroupsHeard : sent[g].segment = s
      [] link = "lora" -> ~Mistakable(sent[i])
      [] link = "p25" -> \A j \in 1 .. i - 1 : sent[j].last = 0
      [] link = "auto" -> Allocated(sent[1]) /\ WithinReach(sent[1])
      [] OTHER -> i \notin hit

OwedMessages ==
    LET at_[i \in 0 .. Len(Messages)] ==
            IF i = 0 THEN <<>> ELSE IF Owed(i) THEN Append(at_[i - 1], Messages[i]) ELSE at_[i - 1]
    IN at_[Len(Messages)]

(* A message that a decoder publishes is one that was sent, and they come  *)
(* in order: neither flipped bits that change the stuffing, make a flag or *)
(* break one, nor a lost symbol, nor the way the stream is cut, makes a    *)
(* message of its own.  Two exceptions, both of pagers: past a word beyond *)
(* correction a page goes on with less than was sent, or with the next     *)
(* page's data (LeftOf; pocsag.rs:241), and of a batch that a bit is lost  *)
(* in the words that are out of place may pass for others.                 *)
NothingManufactured ==
    /\ link \in Paging => slipped = 0
    /\ link = "navtex" => Readable(sent)
    /\ link \in {"cw", "lora"} => Owed(1)
    => IsSubsequence(Distinct(decoder.got), Messages)

(* Every frame the air left alone is published in the end: an error before *)
(* it costs the decoder no synchronisation, a piece boundary within it no  *)
(* frame.                                                                  *)
CleanFramesHeard ==
    flushed => IsSubsequence(OwedMessages, decoder.got)
=============================================================================
