------------------------------- MODULE IqRing -------------------------------
(***************************************************************************)
(* The buffers IQ samples pass through: the bounded ring between the       *)
(* capture thread and each of its consumers (capture.rs, IqRing), the      *)
(* queue of a network source (network_iq.rs), and the packets in which IQ  *)
(* leaves for and arrives from the network (PSIQ).                         *)
(*                                                                         *)
(* A sample is any value.  A ring is its queue and four counters; its      *)
(* capacity and its kind (latest_only) never change.                       *)
(***************************************************************************)
EXTENDS Naturals, Sequences

CONSTANTS
    Capacity,   \* samples a ring holds
    MaxPayload  \* samples in one packet: (1400 - 24) / 8

ASSUME RingAssumption ==
    /\ Capacity \in Nat \ {0}
    /\ MaxPayload \in Nat \ {0}

Lesser(a, b) == IF a < b THEN a ELSE b
Without(s, n) == SubSeq(s, n + 1, Len(s))
Leading(s, n) == SubSeq(s, 1, n)

-----------------------------------------------------------------------------
(* The ring.                                                               *)

NewRing == [queue |-> <<>>, pushed |-> 0, taken |-> 0, dropped |-> 0, skipped |-> 0]

(* How many samples do not fit. *)
Overflow(queued, incoming) ==
    IF queued + incoming > Capacity THEN queued + incoming - Capacity ELSE 0

(* The oldest samples make room: those queued first, then, when the chunk  *)
(* alone is too large, the first of the chunk.                             *)
Push(ring, samples, latestOnly) ==
    LET overflow == Overflow(Len(ring.queue), Len(samples))
    IN [ring EXCEPT !.queue = Without(@ \o samples, overflow),
                    !.pushed = @ + Len(samples),
                    !.skipped = IF latestOnly THEN @ + overflow ELSE @,
                    !.dropped = IF latestOnly THEN @ ELSE @ + overflow]

(* Nothing is taken unless count samples are there. *)
TakeExact(ring, count) ==
    IF Len(ring.queue) < count THEN ring
    ELSE [ring EXCEPT !.queue = Without(@, count), !.taken = @ + count]

TakeLatestExact(ring, count) ==
    LET skip == Len(ring.queue) - count
    IN IF Len(ring.queue) < count THEN ring
       ELSE [ring EXCEPT !.queue = <<>>, !.taken = @ + count, !.skipped = @ + skip]

(* The frame the two hand out; copy_latest hands out what there is. *)
ExactFrame(ring, count) == Leading(ring.queue, count)
LatestFrame(ring, count) == Without(ring.queue, Len(ring.queue) - count)
CopyLatest(ring, count) ==
    Without(ring.queue, Len(ring.queue) - Lesser(count, Len(ring.queue)))

(* No counter knows of a clear. *)
Clear(ring) == [ring EXCEPT !.queue = <<>>]

-----------------------------------------------------------------------------
(* A network source: a queue without the ring's books.  When a chunk       *)
(* displaces the whole queue the code measures the queue after it emptied  *)
(* it, and takes what the queue held off the chunk as well.                *)
IngestPush(queue, samples) ==
    LET overflow == Overflow(Len(queue), Len(samples))
    IN IF overflow >= Len(queue)
         THEN Without(samples, Lesser(overflow, Len(samples)))
         ELSE Without(queue \o samples, overflow)

(* The reader waits 250 ms for count samples; FALSE is the timeout. *)
IngestReady(queue, count) == Len(queue) >= count
IngestRead(queue, count) == Without(queue, count)

(* Bytes arrive in any grouping, a sample is two of them: what is left of  *)
(* an odd count waits for the next read.                                   *)
RtlTcpUsable(pending) == Len(pending) - (Len(pending) % 2)
DecodeRtlTcp(bytes) == [i \in 1 .. Len(bytes) \div 2 |-> <<bytes[2 * i - 1], bytes[2 * i]>>]
RtlTcpPending(pending) == Without(pending, RtlTcpUsable(pending))

-----------------------------------------------------------------------------
(* PSIQ.  What IqNetworkSink::send makes of a chunk, packet by packet.     *)
Packets(samples, rate, center) ==
    [p \in 1 .. (Len(samples) + MaxPayload - 1) \div MaxPayload |->
        LET first == (p - 1) * MaxPayload
            size == Lesser(Len(samples) - first, MaxPayload)
        IN [magic |-> "PSIQ", version |-> 1, rate |-> rate, center |-> center,
            count |-> size, payload |-> SubSeq(samples, first + 1, first + size)]]

(* parse_psiq_packet: a payload may be longer than the header says, never  *)
(* shorter.                                                                *)
ParsesPsiq(packet) ==
    /\ packet.magic = "PSIQ"
    /\ packet.version = 1
    /\ packet.count <= Len(packet.payload)
PsiqSamples(packet) == Leading(packet.payload, packet.count)

(* One datagram, and one read of the RTL-TCP stream, as the ingest threads *)
(* handle them.                                                            *)
ReceivePacket(queue, packet) ==
    IF ParsesPsiq(packet) THEN IngestPush(queue, PsiqSamples(packet)) ELSE queue

ReceiveBytes(ingest, bytes) ==
    LET pending == ingest.pending \o bytes
    IN [pending |-> RtlTcpPending(pending),
        queue |-> IngestPush(ingest.queue, DecodeRtlTcp(Leading(pending, RtlTcpUsable(pending))))]

=============================================================================
