------------------------------- MODULE IqFeed -------------------------------
(***************************************************************************)
(* IQ samples on their way to a reader (capture.rs, network_iq.rs).  A     *)
(* feed is one of                                                          *)
(*   psiq     blocks leave as PSIQ packets over UDP, which may lose, swap  *)
(*            and repeat them, and among which others' datagrams arrive;   *)
(*            the ingest thread queues what it parses;                     *)
(*   rtl_tcp  a stream of bytes, I and Q in turn, read in any grouping;    *)
(*            the server may go away, and the thread connects again;       *)
(*   ring     the ring between the capture thread and the audio worker;    *)
(*   latest   the one to the scanner, who takes the newest block.          *)
(*                                                                         *)
(* Sample k is the pair of its I and its Q.                                *)
(***************************************************************************)
EXTENDS IqRing, Integers

CONSTANTS
    FeedKinds,
    BlockSize,  \* samples captured, or sent, at a time
    ReadSize,   \* samples the reader takes at a time
    MaxFlight,  \* packets, or bytes, under way
    MaxSamples

VARIABLES
    feed,
    made,       \* samples captured so far
    flight,     \* packets or bytes under way
    queue,      \* the ingest's queue
    pending,    \* bytes that wait for their other half
    ring,
    got,        \* the last block the reader got
    swapped     \* the network changed the order, or sent twice

feedVars == <<feed, made, flight, queue, pending, ring, got, swapped>>

I(k) == 2 * k
Q(k) == 2 * k + 1
Sample(k) == <<I(k), Q(k)>>
Block == [i \in 1 .. BlockSize |-> Sample(made + i)]
Bytes == [i \in 1 .. 2 * BlockSize |->
            IF i % 2 = 1 THEN I(made + (i + 1) \div 2) ELSE Q(made + i \div 2)]

FeedInit ==
    /\ feed \in FeedKinds
    /\ made = 0 /\ flight = <<>> /\ queue = <<>> /\ pending = <<>>
    /\ ring = NewRing /\ got = <<>> /\ swapped = FALSE

Captures ==
    /\ made + BlockSize <= MaxSamples
    /\ made' = made + BlockSize
    /\ \/ /\ feed = "psiq" /\ Len(flight) < MaxFlight
          /\ flight' = flight \o Packets(Block, 1, 1)
          /\ UNCHANGED ring
       \/ /\ feed = "rtl_tcp" /\ Len(flight) < MaxFlight
          /\ flight' = flight \o Bytes
          /\ UNCHANGED ring
       \/ /\ feed \in {"ring", "latest"}
          /\ ring' = Push(ring, Block, feed = "latest")
          /\ UNCHANGED flight
    /\ UNCHANGED <<feed, queue, pending, got, swapped>>

(***************************************************************************)
(* The network                                                             *)
(***************************************************************************)

Foreign == [magic |-> "other", version |-> 1, rate |-> 1, center |-> 1, count |-> 0, payload |-> <<>>]

PacketLost ==
    /\ feed = "psiq" /\ flight # <<>>
    /\ flight' = Tail(flight)
    /\ UNCHANGED <<feed, made, queue, pending, ring, got, swapped>>

PacketTwice ==
    /\ feed = "psiq" /\ flight # <<>> /\ Len(flight) < MaxFlight
    /\ flight' = <<Head(flight)>> \o flight /\ swapped' = TRUE
    /\ UNCHANGED <<feed, made, queue, pending, ring, got>>

PacketsSwapped ==
    /\ feed = "psiq" /\ Len(flight) > 1
    /\ flight' = <<flight[2], flight[1]>> \o Without(flight, 2) /\ swapped' = TRUE
    /\ UNCHANGED <<feed, made, queue, pending, ring, got>>

\* A datagram that is no packet, or one that was cut.
ForeignDatagram ==
    /\ feed = "psiq" /\ Len(flight) < MaxFlight
    /\ \E datagram \in {Foreign} \cup
            {[flight[i] EXCEPT !.payload = Leading(@, Len(@) - 1)] : i \in DOMAIN flight} :
        flight' = <<datagram>> \o flight
    /\ UNCHANGED <<feed, made, queue, pending, ring, got, swapped>>

(***************************************************************************)
(* The ingest threads                                                      *)
(***************************************************************************)

DatagramArrives ==
    /\ feed = "psiq" /\ flight # <<>>
    /\ queue' = ReceivePacket(queue, Head(flight))
    /\ flight' = Tail(flight)
    /\ UNCHANGED <<feed, made, pending, ring, got, swapped>>

BytesArrive ==
    /\ feed = "rtl_tcp"
    /\ \E n \in 1 .. Len(flight) :
        LET ingest == ReceiveBytes([queue |-> queue, pending |-> pending], Leading(flight, n))
        IN  /\ queue' = ingest.queue /\ pending' = ingest.pending
            /\ flight' = Without(flight, n)
    /\ UNCHANGED <<feed, made, ring, got, swapped>>

\* Faulty variant: the odd byte of the old connection is kept.
ReconnectsKeeping ==
    /\ feed = "rtl_tcp"
    /\ flight' = <<>>
    /\ UNCHANGED <<feed, made, queue, pending, ring, got, swapped>>

\* The connection is gone, and what was under way with it; a new one begins
\* with a whole sample.
Reconnects ==
    /\ feed = "rtl_tcp"
    /\ flight' = <<>> /\ pending' = <<>>
    /\ UNCHANGED <<feed, made, queue, ring, got, swapped>>

(***************************************************************************)
(* The reader                                                              *)
(***************************************************************************)

Reads ==
    /\ feed \in {"psiq", "rtl_tcp"} /\ IngestReady(queue, ReadSize)
    /\ got' = Leading(queue, ReadSize)
    /\ queue' = IngestRead(queue, ReadSize)
    /\ UNCHANGED <<feed, made, flight, pending, ring, swapped>>

Takes ==
    /\ Len(ring.queue) >= ReadSize
    /\ \/ /\ feed = "ring"
          /\ got' = ExactFrame(ring, ReadSize) /\ ring' = TakeExact(ring, ReadSize)
       \/ /\ feed = "latest"
          /\ got' = LatestFrame(ring, ReadSize) /\ ring' = TakeLatestExact(ring, ReadSize)
    /\ UNCHANGED <<feed, made, flight, queue, pending, swapped>>

\* A decoder's request looks at the newest samples and takes none.
Looks ==
    /\ feed = "latest" /\ ring.queue # <<>>
    /\ got' = CopyLatest(ring, ReadSize)
    /\ UNCHANGED <<feed, made, flight, queue, pending, ring, swapped>>

FeedNext ==
    \/ Captures \/ PacketLost \/ PacketTwice \/ PacketsSwapped \/ ForeignDatagram
    \/ DatagramArrives \/ BytesArrive \/ Reconnects \/ Reads \/ Takes \/ Looks

(***************************************************************************)
(* Properties                                                              *)
(***************************************************************************)

InOrder(samples) == \A i, j \in DOMAIN samples : i < j => samples[i][1] < samples[j][1]
Contiguous(samples) ==
    \A i \in DOMAIN samples : samples[i] = Sample(samples[1][1] \div 2 + i - 1)

\* However the bytes are grouped, the connection lost and packets dropped, a
\* sample keeps its own I and Q, nothing is read that was not sent, and what
\* the network kept in order is read in order.  What a ring holds, and the
\* block it hands out, has no gap: a ring too full drops its oldest samples,
\* and its counters account for each of them.
IqIntact ==
    /\ \A samples \in {got, queue, ring.queue} :
          \A i \in DOMAIN samples : \E k \in 1 .. made : samples[i] = Sample(k)
    /\ ~swapped => InOrder(got \o queue)
    /\ feed = "ring" => InOrder(got \o ring.queue)
    /\ feed \in {"ring", "latest"} => Contiguous(got) /\ Contiguous(ring.queue)
    /\ Len(queue) <= Capacity /\ Len(ring.queue) <= Capacity
    /\ ring.pushed = ring.taken + ring.dropped + ring.skipped + Len(ring.queue)
=============================================================================
