--------------------------- MODULE NativeWindows ---------------------------
(***************************************************************************)
(* The native decoders that look for whole transmissions in a window of    *)
(* samples (scanner.rs, NativeRangeDecoders::feed): LoRa, BLE, radiosonde  *)
(* and GOES keep IQ and clear it when they publish; RDS and the HF text    *)
(* modes keep demodulated audio, decode it when a window is full and keep  *)
(* its newer half.                                                         *)
(*                                                                         *)
(* Time is counted in units, a fixed part of the window: a unit is silence *)
(* or one part of a burst - a packet, a text, a station's RDS.  The first  *)
(* part of a packet is what its decoder looks for.                         *)
(***************************************************************************)
EXTENDS Integers, Sequences, SequencesExt, FiniteSets, Selection

CONSTANTS
    Kinds,           \* the decoders of the run
    Cap,             \* per decoder, its cap (IQ) or window (text), in units
    Least,           \* per decoder, what it waits for before it decodes
    ChunkUnits,      \* per decoder, units in a chunk of captured IQ
    MaxLength,       \* of a burst
    MaxUnits         \* on the air in all

VARIABLES
    kind,            \* the decoder
    window,          \* lora_iq, ble_iq, radiosonde_iq, goes_iq, rds_mpx, hf_audio
    last,            \* last_rds_pi, last_hf_text: what was published last
    heard,           \* per burst, how often it was published
    air,             \* the units transmitted since the last chunk was taken
    bursts,          \* the lengths of the bursts so far
    part,            \* parts of the last burst already transmitted
    units,           \* transmitted so far
    spoiled          \* bursts that did not come whole, or that another one hid

windowVars == <<kind, window, last, heard, air, bursts, part, units, spoiled>>

Silence == [burst |-> 0, part |-> 0]
TextKinds == {"rds", "hf"}

WindowInit ==
    /\ kind \in Kinds
    /\ window = <<>> /\ last = <<>> /\ heard = <<>>
    /\ air = <<>> /\ bursts = <<>> /\ part = 0 /\ units = 0
    /\ spoiled = {}

Underway == bursts # <<>> /\ part < Last(bursts)

(***************************************************************************)
(* The air                                                                 *)
(***************************************************************************)

Transmits(unit) ==
    /\ Len(air) < ChunkUnits[kind] /\ units < MaxUnits
    /\ air' = Append(air, unit)
    /\ units' = units + 1
    /\ UNCHANGED <<kind, window, last, spoiled>>

Rest == ~Underway /\ Transmits(Silence) /\ UNCHANGED <<bursts, part, heard>>

BurstBegins(length) ==
    /\ ~Underway
    /\ Transmits([burst |-> Len(bursts) + 1, part |-> 1])
    /\ bursts' = Append(bursts, length)
    /\ heard' = Append(heard, 0)
    /\ part' = 1

BurstGoesOn ==
    /\ Underway
    /\ Transmits([burst |-> Len(bursts), part |-> part + 1])
    /\ part' = part + 1
    /\ UNCHANGED <<bursts, heard>>

(***************************************************************************)
(* The decoder                                                             *)
(***************************************************************************)

BurstsIn(samples) == {samples[i].burst : i \in DOMAIN samples} \ {0}

Whole(b, samples) ==
    \E i \in DOMAIN samples :
        /\ i + bursts[b] - 1 <= Len(samples)
        /\ \A k \in 1..bursts[b] : samples[i + k - 1] = [burst |-> b, part |-> k]

Counted(found) == [b \in DOMAIN heard |-> heard[b] + (IF b \in found THEN 1 ELSE 0)]

\* Packets: the first beginning in the window is the only one looked at.
Heads(samples) == {i \in DOMAIN samples : samples[i].part = 1}
FirstHead(samples) == CHOOSE i \in Heads(samples) : \A j \in Heads(samples) : i <= j

\* A LoRa packet has no length and no checksum: whatever follows its preamble
\* is the packet, be it still underway.
Complete(samples) ==
    LET head == FirstHead(samples)
    IN  IF kind = "lora" THEN head < Len(samples) ELSE Whole(samples[head].burst, samples)

Found(samples) ==
    IF Heads(samples) # {} /\ Complete(samples) THEN {samples[FirstHead(samples)].burst} ELSE {}

NewestOf(samples, n) == SubSeq(samples, Len(samples) - n + 1, Len(samples))
Capped(samples, cap) == IF Len(samples) > cap THEN NewestOf(samples, cap) ELSE samples
NewerHalf(samples) == NewestOf(samples, Len(samples) - Len(samples) \div 2)

\* A wrong drain: the older half is kept, or nothing at all.
OlderHalf(samples) == SubSeq(samples, 1, Len(samples) - Len(samples) \div 2)
KeptOlder(samples, cap) == IF Len(samples) >= cap \div 2 THEN OlderHalf(samples) ELSE samples

\* Without a packet the window is halved when it reaches half its cap.
Kept(samples, cap) == IF Len(samples) >= cap \div 2 THEN NewerHalf(samples) ELSE samples

\* A publication clears the window, with what it holds of other bursts, and a
\* LoRa packet comes as far as it has arrived.  A packet that lost a part stays
\* the first one and hides those behind it.
Hidden(samples) ==
    IF Found(samples) # {} THEN {b \in BurstsIn(samples) : b \notin Found(samples) \/ ~Whole(b, samples)}
    ELSE IF Heads(samples) # {} THEN BurstsIn(samples) \ {samples[FirstHead(samples)].burst}
    ELSE {}

FeedPackets ==
    LET samples == Capped(window \o air, Cap[kind])
        enough == Len(samples) >= Least[kind]
        found == IF enough THEN Found(samples) ELSE {}
    IN  /\ heard' = Counted(found)
        /\ window' = IF found # {} THEN <<>>
                     ELSE IF enough THEN Kept(samples, Cap[kind])
                     ELSE samples
        /\ spoiled' = spoiled \cup IF enough THEN Hidden(samples) ELSE {}
        /\ UNCHANGED last

\* Text: all the window holds.  RDS: the station most groups are of, any of
\* those that are equally many.
Groups(b, samples) == Cardinality({i \in DOMAIN samples : samples[i].burst = b})
Dominant(samples) ==
    {b \in BurstsIn(samples) : \A c \in BurstsIn(samples) : Groups(c, samples) <= Groups(b, samples)}
Readings(samples) ==
    IF kind = "rds" THEN {<<b>> : b \in Dominant(samples)} \cup IF BurstsIn(samples) = {} THEN {<<>>} ELSE {}
    ELSE {Picked(samples, {i \in DOMAIN samples : samples[i] # Silence})}
HeardIn(reading, samples) ==
    IF kind = "rds" THEN ToSet(reading) ELSE {b \in BurstsIn(samples) : Whole(b, samples)}

FeedText ==
    LET samples == window \o air
        full == Len(samples) >= Cap[kind]
    IN  \E reading \in IF full THEN Readings(samples) ELSE {<<>>} :
            /\ IF reading # <<>> /\ reading # last
               THEN last' = reading /\ heard' = Counted(HeardIn(reading, samples))
               ELSE UNCHANGED <<last, heard>>
            /\ window' = IF full THEN NewerHalf(samples) ELSE samples
            /\ UNCHANGED spoiled

\* The scanner takes a chunk and feeds the decoder its bank names.
Feed ==
    /\ Len(air) = ChunkUnits[kind]
    /\ air' = <<>>
    /\ IF kind \in TextKinds THEN FeedText ELSE FeedPackets
    /\ UNCHANGED <<kind, bursts, part, units>>

\* The capture ring overflows: a chunk is never taken.
ChunkLost ==
    /\ Len(air) = ChunkUnits[kind]
    /\ air' = <<>>
    /\ spoiled' = spoiled \cup BurstsIn(air)
    /\ UNCHANGED <<kind, window, last, heard, bursts, part, units>>

\* Another bank, a new scan, the next bank of a cycle, a new sample rate: the
\* decoders start over.
Reset ==
    /\ window # <<>> \/ air # <<>>
    /\ window' = <<>> /\ last' = <<>> /\ air' = <<>>
    /\ spoiled' = spoiled \cup BurstsIn(window) \cup BurstsIn(air)
    /\ UNCHANGED <<kind, heard, bursts, part, units>>

WindowNext ==
    \/ Rest \/ BurstGoesOn
    \/ \E length \in 1..MaxLength : BurstBegins(length)
    \/ Feed \/ ChunkLost \/ Reset

(***************************************************************************)
(* Properties                                                              *)
(***************************************************************************)

\* How long a burst may be, and must be, to be certain to be found: a packet as
\* long as the half that is kept, in chunks that do not push it out of the window
\* before it is complete; a text no longer than the overlap; a station most of
\* what a window and a chunk, or two chunks, hold.
Fits(b) ==
    CASE kind = "hf" -> bursts[b] <= Cap[kind] \div 2
      [] kind = "rds" -> 2 * bursts[b] >= Cap[kind] + ChunkUnits[kind] /\ bursts[b] > ChunkUnits[kind]
      [] OTHER -> bursts[b] <= Cap[kind] \div 4 /\ 2 * ChunkUnits[kind] <= Cap[kind]

\* A burst that reached the decoder whole, and that no other one hid, is
\* published - a packet exactly once - or still waits whole in the window.  That
\* the chunk is no longer than half the window of packets is a condition, not a
\* fact: the configuration allows an FFT of any length (config.rs:176), and from
\* 32768 on the windows of 200000 samples are too short (README, "Known
\* disagreements").
\* The overlap of the windows is what makes this so, and the clearing on a
\* publication what keeps packets from coming twice (scanner.rs:2155-2164).
BurstsHeard ==
    \A b \in DOMAIN bursts :
        /\ kind \notin TextKinds => heard[b] <= 1
        /\ b < Len(bursts) \/ ~Underway
            => \/ b \in spoiled \/ ~Fits(b) \/ heard[b] > 0
               \/ Whole(b, window \o air)
=============================================================================
