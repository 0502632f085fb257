------------------------- MODULE DeviceLayer_proofs -------------------------
(* Proofs about DeviceLayer, for any number of requests, capture threads and  *)
(* rings and any size of a read: what a ring holds of an earlier band after a *)
(* retune.                                                                    *)
EXTENDS DeviceLayer, SequenceTheorems, FiniteSetTheorems, TLAPS

\* Samples, each taken under settings the radio has had.
Sampled(s) == s \in Seq(Nat) /\ \A i \in 1 .. Len(s) : s[i] <= contract

Types ==
    /\ contract \in Nat /\ flushed \in Nat /\ flushed <= contract
    /\ tuned \in [Clients -> Nat] /\ \A c \in Clients : tuned[c] <= contract
    /\ chunk \in [Threads -> Seq(Nat)]
    /\ \A t \in Threads : Sampled(chunk[t]) /\ Len(chunk[t]) <= Chunk
    /\ queues \in [Rings -> Seq(Nat)]
    /\ \A r \in Rings : Sampled(queues[r]) /\ Len(queues[r]) <= Capacity

\* What is stale in a ring came in one chunk, the oldest in it; while that chunk
\* is still in the hands of the scanner's thread the rings are empty.
Stale(s) == \E i \in 1 .. Len(s) : s[i] < flushed
StaleIsOldest ==
    \A r \in Rings : \A i \in 1 .. Len(queues[r]) : queues[r][i] < flushed => i <= Chunk
StaleInHand ==
    scanner \in Threads /\ Stale(chunk[scanner]) => \A r \in Rings : queues[r] = <<>>

StaleInv == Types /\ StaleIsOldest /\ StaleInHand

----------------------------------------------------------------------------
(* The operators of the rings *)

LEMMA Sizes ==
    /\ Capacity \in Nat \ {0} /\ Chunk \in Nat \ {0} /\ Chunk < Capacity /\ MaxErrors \in Nat \ {0}
  BY RingAssumption, DeviceAssumption

\* To take the first n elements off leaves the others in their order.
LEMMA WithoutShifts ==
    ASSUME NEW s \in Seq(Nat), NEW n \in Nat, n <= Len(s)
    PROVE  /\ Without(s, n) \in Seq(Nat)
           /\ Len(Without(s, n)) = Len(s) - n
           /\ \A i \in 1 .. Len(s) - n : Without(s, n)[i] = s[i + n]
<1>1. Len(s) \in Nat /\ n + 1 \in Int /\ \A i \in n + 1 .. Len(s) : s[i] \in Nat
  BY LenProperties, ElementOfSeq
<1>2. /\ SubSeq(s, n + 1, Len(s)) \in Seq(Nat)
      /\ Len(SubSeq(s, n + 1, Len(s))) = IF n + 1 <= Len(s) THEN Len(s) - (n + 1) + 1 ELSE 0
      /\ \A i \in 1 .. Len(s) - (n + 1) + 1 : SubSeq(s, n + 1, Len(s))[i] = s[n + 1 + i - 1]
  BY <1>1, SubSeqProperties
<1>3. QED
  BY <1>1, <1>2 DEF Without

\* w is what follows the first `gone` samples of q and then s.
Displaces(w, q, s, gone) ==
    /\ w \in Seq(Nat) /\ gone \in Nat /\ Len(w) = Len(q) + Len(s) - gone
    /\ \A i \in 1 .. Len(w) :
         /\ i + gone <= Len(q) => w[i] = q[i + gone]
         /\ ~ (i + gone <= Len(q)) => w[i] = s[i + gone - Len(q)]

\* A push keeps the newest samples, within the capacity of the ring.
LEMMA PushKeepsNewest ==
    ASSUME NEW q \in Seq(Nat), Len(q) <= Capacity, NEW s \in Seq(Nat), NEW latest
    PROVE  LET queue == Push([NewRing EXCEPT !.queue = q], s, latest).queue
           IN  Displaces(queue, q, s, Overflow(Len(q), Len(s))) /\ Len(queue) <= Capacity
<1> DEFINE n == Len(q)
           m == Len(s)
           gone == Overflow(n, m)
           all == q \o s
           queue == Without(all, gone)
<1>1. n \in Nat /\ m \in Nat /\ Capacity \in Nat /\ n <= Capacity
  BY Sizes
<1>2. gone \in Nat /\ gone <= n + m /\ n + m - gone <= Capacity
  BY <1>1 DEF Overflow
<1>3. /\ all \in Seq(Nat) /\ Len(all) = n + m
      /\ \A i \in 1 .. n + m : all[i] = IF i <= n THEN q[i] ELSE s[i - n]
  BY ConcatProperties
<1>4. Push([NewRing EXCEPT !.queue = q], s, latest).queue = queue
  BY DEF Push, NewRing
<1> HIDE DEF gone, all
<1>5. /\ queue \in Seq(Nat) /\ Len(queue) = Len(all) - gone
      /\ \A i \in 1 .. Len(all) - gone : queue[i] = all[i + gone]
  BY <1>2, <1>3, WithoutShifts
<1> HIDE DEF n, m, queue
<1>6. Len(queue) = n + m - gone
  BY <1>1, <1>2, <1>3, <1>5
<1>7. ASSUME NEW i \in 1 .. n + m - gone
      PROVE  /\ i + gone <= n => queue[i] = q[i + gone]
             /\ ~ (i + gone <= n) => queue[i] = s[i + gone - n]
  <2> DEFINE k == i + gone
  <2>1. k \in 1 .. n + m
    BY <1>1, <1>2
  <2>2. queue[i] = all[k]
    BY <1>1, <1>2, <1>3, <1>5
  <2> HIDE DEF k
  <2>3. (k <= n => all[k] = q[k]) /\ (~ (k <= n) => all[k] = s[k - n])
    BY <1>3, <2>1
  <2>4. (k <= n => queue[i] = q[k]) /\ (~ (k <= n) => queue[i] = s[k - n])
    BY <2>2, <2>3
  <2>5. QED
    BY <1>1, <1>2, <2>4 DEF k
<1>8. Displaces(queue, q, s, gone) /\ Len(queue) <= Capacity
  BY <1>2, <1>5, <1>6, <1>7 DEF Displaces, n, m
<1>9. QED
  BY <1>4, <1>8 DEF n, m, gone

\* A read fills a chunk with samples of the settings in force.
LEMMA ChunkRead ==
    ASSUME contract \in Nat
    PROVE  /\ NewChunk \in Seq(Nat) /\ Len(NewChunk) = Chunk
           /\ \A i \in 1 .. Chunk : NewChunk[i] = contract
  BY Sizes DEF NewChunk

----------------------------------------------------------------------------
(* The steps *)

\* Settings are only added; a step that touches neither the rings nor a chunk and
\* puts no scanner in the slot makes nothing stale.
LEMMA SettingsAdvance ==
    ASSUME StaleInv, contract' \in Nat, contract <= contract',
           tuned' \in [Clients -> Nat], \A c \in Clients : tuned'[c] <= contract',
           UNCHANGED <<queues, flushed, scanner, chunk>>
    PROVE  StaleInv'
<1>1. Types'
  BY DEF StaleInv, Types, Sampled
<1>2. StaleIsOldest' /\ StaleInHand'
  BY DEF StaleInv, StaleIsOldest, StaleInHand, Stale
<1>3. QED
  BY <1>1, <1>2 DEF StaleInv

\* Rings that are emptied hold nothing stale, whoever is in the slot, and neither
\* do chunks that are.
LEMMA EmptiedIsFresh ==
    ASSUME StaleInv, UNCHANGED <<contract, tuned>>, flushed' \in Nat, flushed' <= contract,
           queues' = [r \in Rings |-> <<>>], chunk' \in [Threads -> Seq(Nat)],
           \A t \in Threads : chunk'[t] \in {chunk[t], <<>>}
    PROVE  StaleInv'
<1>1. \A t \in Threads : (Sampled(chunk[t]))' /\ Len(chunk'[t]) <= Chunk
  <2> SUFFICES ASSUME NEW t \in Threads PROVE (Sampled(chunk[t]))' /\ Len(chunk'[t]) <= Chunk
    OBVIOUS
  <2>1. CASE chunk'[t] = chunk[t]
    BY <2>1 DEF StaleInv, Types, Sampled
  <2>2. CASE chunk'[t] = <<>>
    BY <2>2, Sizes DEF Sampled
  <2>3. QED
    BY <2>1, <2>2
<1>2. Types'
  BY <1>1, Sizes DEF StaleInv, Types, Sampled
<1>3. StaleIsOldest' /\ StaleInHand'
  BY DEF StaleIsOldest, StaleInHand
<1>4. QED
  BY <1>2, <1>3 DEF StaleInv

\* What a capture thread reads is never stale.
LEMMA ReadIsFresh ==
    ASSUME StaleInv, UNCHANGED <<contract, flushed, tuned, queues, scanner>>,
           NEW t \in Threads, NEW read \in {<<>>, NewChunk},
           chunk' = [chunk EXCEPT ![t] = read]
    PROVE  StaleInv'
<1>1. contract \in Nat /\ flushed \in Nat /\ flushed <= contract
  BY DEF StaleInv, Types
<1>2. read \in Seq(Nat) /\ Len(read) <= Chunk /\ \A i \in 1 .. Len(read) : read[i] = contract
  <2>1. CASE read = <<>>
    BY <2>1, Sizes
  <2>2. CASE read = NewChunk
    BY <1>1, <2>2, Sizes, ChunkRead
  <2>3. QED
    BY <2>1, <2>2
<1>3. /\ chunk' \in [Threads -> Seq(Nat)] /\ chunk'[t] = read
      /\ \A other \in Threads \ {t} : chunk'[other] = chunk[other]
  BY <1>2 DEF StaleInv, Types
<1>4. Types'
  BY <1>1, <1>2, <1>3 DEF StaleInv, Types, Sampled
<1>5. StaleIsOldest'
  BY DEF StaleInv, StaleIsOldest
<1>6. StaleInHand'
  <2>1. CASE scanner = t
    BY <1>1, <1>2, <1>3, <2>1 DEF StaleInHand, Stale
  <2>2. CASE scanner # t
    BY <1>3, <2>2 DEF StaleInv, StaleInHand, Stale
  <2>3. QED
    BY <2>1, <2>2
<1>7. QED
  BY <1>4, <1>5, <1>6 DEF StaleInv

LEMMA FlushKeeps ==
    ASSUME StaleInv, NEW c \in Clients, Flush(c)
    PROVE  StaleInv'
<1>1. /\ queues' = [r \in Rings |-> <<>>] /\ tuned' = [tuned EXCEPT ![c] = 0]
      /\ flushed' = IF tuned[c] > flushed THEN tuned[c] ELSE flushed
      /\ UNCHANGED <<contract, chunk, scanner>>
  BY DEF Flush, Clear, NewRing, threads
<1>2. Types'
  BY <1>1, Sizes DEF StaleInv, Types, Sampled
<1>3. StaleIsOldest' /\ StaleInHand'
  BY <1>1 DEF StaleIsOldest, StaleInHand
<1>4. QED
  BY <1>2, <1>3 DEF StaleInv

\* A push keeps what is stale among the oldest: of a chunk that came behind an
\* empty ring, or of what the ring held.
LEMMA PushedIsOldest ==
    ASSUME NEW q \in Seq(Nat), NEW s \in Seq(Nat), Len(s) <= Chunk,
           NEW bound \in Nat, NEW fresh \in Nat, NEW gone, NEW w, Displaces(w, q, s, gone),
           \A j \in 1 .. Len(q) : q[j] <= bound /\ (q[j] < fresh => j <= Chunk),
           \A j \in 1 .. Len(s) : s[j] <= bound /\ (s[j] < fresh => Len(q) = 0)
    PROVE  \A i \in 1 .. Len(w) : w[i] <= bound /\ (w[i] < fresh => i <= Chunk)
<1> DEFINE n == Len(q)
           m == Len(s)
<1>1. n \in Nat /\ m \in Nat /\ Chunk \in Nat /\ m <= Chunk /\ Len(w) = n + m - gone
      /\ gone \in Nat /\ w \in Seq(Nat)
  BY Sizes, LenProperties DEF Displaces
<1>2. /\ \A j \in 1 .. n : q[j] <= bound /\ (q[j] < fresh => j <= Chunk)
      /\ \A j \in 1 .. m : s[j] <= bound /\ (s[j] < fresh => n = 0)
  OBVIOUS
<1>3. SUFFICES ASSUME NEW i \in 1 .. Len(w)
               PROVE  w[i] <= bound /\ (w[i] < fresh => i <= Chunk)
  OBVIOUS
<1> DEFINE k == i + gone
<1>4. (k <= n => w[i] = q[k]) /\ (~ (k <= n) => w[i] = s[k - n])
  BY DEF Displaces
<1> HIDE DEF n, m
<1>5. k \in 1 .. n + m /\ i <= k
  BY <1>1
<1> HIDE DEF k
<1>6. CASE k <= n
  <2>1. w[i] = q[k] /\ k \in 1 .. n
    BY <1>1, <1>4, <1>5, <1>6
  <2>2. q[k] <= bound /\ (q[k] < fresh => k <= Chunk)
    BY <1>2, <2>1
  <2>3. k <= Chunk => i <= Chunk
    BY <1>1, <1>5
  <2>4. QED
    BY <2>1, <2>2, <2>3
<1>7. CASE ~ (k <= n)
  <2>1. w[i] = s[k - n]
    BY <1>4, <1>7
  <2>2. k - n \in 1 .. m
    BY <1>1, <1>5, <1>7
  <2>3. s[k - n] <= bound /\ (s[k - n] < fresh => n = 0)
    BY <1>2, <2>2
  <2>4. n = 0 => i <= Chunk
    BY <1>1, <1>5
  <2>5. QED
    BY <2>1, <2>3, <2>4
<1>8. QED
  BY <1>6, <1>7

\* What a push by the scanner's thread leaves in a ring.
Pushed(r) == Push([NewRing EXCEPT !.queue = queues[r]], chunk[scanner], r \in Latest).queue

LEMMA CapturePushesKeeps ==
    ASSUME StaleInv, NEW t \in Threads, CapturePushes(t)
    PROVE  StaleInv'
<1> DEFINE held == chunk[t]
<1>1. /\ UNCHANGED <<contract, tuned, flushed, scanner>> /\ chunk' = [chunk EXCEPT ![t] = <<>>]
      /\ t # scanner => queues' = queues
      /\ t = scanner => queues' = [r \in Rings |-> Pushed(r)]
  BY DEF CapturePushes, Pushed
<1>2. CASE t # scanner
  <2>1. \A other \in Threads : chunk'[other] \in {chunk[other], <<>>}
    BY <1>1 DEF StaleInv, Types
  <2>2. /\ chunk' \in [Threads -> Seq(Nat)] /\ queues' = queues
        /\ scanner \in Threads => chunk'[scanner] = chunk[scanner]
    <3>1. <<>> \in Seq(Nat)
      OBVIOUS
    <3>2. QED
      BY <1>1, <1>2, <3>1 DEF StaleInv, Types
  <2>3. \A other \in Threads : (Sampled(chunk[other]))' /\ Len(chunk'[other]) <= Chunk
    <3> SUFFICES ASSUME NEW other \in Threads
                 PROVE  (Sampled(chunk[other]))' /\ Len(chunk'[other]) <= Chunk
      OBVIOUS
    <3>1. CASE chunk'[other] = chunk[other]
      BY <1>1, <3>1 DEF StaleInv, Types, Sampled
    <3>2. CASE chunk'[other] = <<>>
      BY <3>2, Sizes DEF Sampled
    <3>3. QED
      BY <2>1, <3>1, <3>2
  <2>4. Types'
    BY <1>1, <2>2, <2>3 DEF StaleInv, Types, Sampled
  <2>5. StaleIsOldest' /\ StaleInHand'
    BY <1>1, <2>2 DEF StaleInv, StaleIsOldest, StaleInHand, Stale
  <2>6. QED
    BY <2>4, <2>5 DEF StaleInv
<1>3. SUFFICES ASSUME t = scanner PROVE StaleInv'
  BY <1>2
<1>4. /\ contract \in Nat /\ flushed \in Nat /\ held \in Seq(Nat)
      /\ Len(held) \in Nat /\ Len(held) <= Chunk /\ Chunk \in Nat
      /\ \A i \in 1 .. Len(held) : held[i] <= contract
  BY Sizes DEF StaleInv, Types, Sampled
<1>5. ASSUME NEW r \in Rings
      PROVE  /\ queues[r] \in Seq(Nat) /\ Len(queues[r]) \in Nat /\ Len(queues[r]) <= Capacity
             /\ \A i \in 1 .. Len(queues[r]) : queues[r][i] <= contract
  BY DEF StaleInv, Types, Sampled
<1>6. ASSUME NEW r \in Rings
      PROVE  /\ Pushed(r) \in Seq(Nat) /\ Len(Pushed(r)) <= Capacity
             /\ \A i \in 1 .. Len(Pushed(r)) :
                   Pushed(r)[i] <= contract /\ (Pushed(r)[i] < flushed => i <= Chunk)
  <2> DEFINE q == queues[r]
             latest == r \in Latest
             w == Push([NewRing EXCEPT !.queue = q], held, latest).queue
             gone == Overflow(Len(q), Len(held))
  <2>1. q \in Seq(Nat) /\ Len(q) <= Capacity
    BY <1>5
  <2>2. /\ \A j \in 1 .. Len(q) : q[j] <= contract /\ (q[j] < flushed => j <= Chunk)
        /\ \A j \in 1 .. Len(held) : held[j] <= contract /\ (held[j] < flushed => Len(q) = 0)
    <3>1. \A j \in 1 .. Len(q) : q[j] < flushed => j <= Chunk
      BY DEF StaleInv, StaleIsOldest
    <3>2. \A j \in 1 .. Len(held) : held[j] < flushed => q = <<>>
      BY <1>3 DEF StaleInv, StaleInHand, Stale
    <3>3. q = <<>> => Len(q) = 0
      BY EmptySeq
    <3>4. QED
      BY <1>4, <1>5, <3>1, <3>2, <3>3
  <2>3. w = Pushed(r)
    BY <1>3 DEF Pushed
  <2> HIDE DEF q, latest, held
  <2>4. w = Push([NewRing EXCEPT !.queue = q], held, latest).queue
    BY DEF w
  <2> HIDE DEF w
  <2>5. Displaces(w, q, held, gone) /\ Len(w) <= Capacity
    BY <1>4, <2>1, <2>4, PushKeepsNewest
  <2> HIDE DEF gone
  <2>6. \A i \in 1 .. Len(w) : w[i] <= contract /\ (w[i] < flushed => i <= Chunk)
    BY <1>4, <2>1, <2>2, <2>5, PushedIsOldest
  <2>7. w \in Seq(Nat)
    BY <2>5 DEF Displaces
  <2>8. QED
    BY <2>3, <2>5, <2>6, <2>7
<1>7. /\ chunk' \in [Threads -> Seq(Nat)] /\ chunk'[t] = <<>>
      /\ \A other \in Threads \ {t} : chunk'[other] = chunk[other]
  <2>1. <<>> \in Seq(Nat)
    OBVIOUS
  <2>2. QED
    BY <1>1, <2>1 DEF StaleInv, Types
<1> HIDE DEF held
<1>8. Types'
  BY <1>1, <1>3, <1>4, <1>6, <1>7, Sizes DEF StaleInv, Types, Sampled
<1>9. StaleIsOldest'
  BY <1>1, <1>3, <1>6 DEF StaleIsOldest
<1>10. StaleInHand'
  BY <1>1, <1>3, <1>7 DEF StaleInHand, Stale
<1>11. QED
  BY <1>8, <1>9, <1>10 DEF StaleInv

LEMMA ConsumeKeeps ==
    ASSUME StaleInv, NEW r \in Rings, Consume(r)
    PROVE  StaleInv'
<1> DEFINE q == queues[r]
           ring == [NewRing EXCEPT !.queue = q]
<1>1. q \in Seq(Nat) /\ Len(q) \in Nat /\ Len(q) >= Chunk /\ Len(q) <= Capacity
  BY DEF Consume, StaleInv, Types
<1>2. /\ \A i \in 1 .. Len(q) : q[i] <= contract
      /\ \A i \in 1 .. Len(q) : q[i] < flushed => i <= Chunk
  BY DEF StaleInv, StaleIsOldest, Types, Sampled
<1>3. UNCHANGED <<contract, tuned, chunk, flushed, scanner>>
  BY DEF Consume, threads
<1>4. PICK s : /\ queues' = [queues EXCEPT ![r] = s]
               /\ s = <<>> \/ s = Without(q, Chunk)
  <2>1. TakeLatestExact(ring, Chunk).queue = <<>>
    BY <1>1, Sizes DEF TakeLatestExact, NewRing
  <2>2. TakeExact(ring, Chunk).queue = Without(q, Chunk)
    BY <1>1, Sizes DEF TakeExact, NewRing
  <2>3. queues' = [queues EXCEPT ![r] = IF r \in Latest THEN TakeLatestExact(ring, Chunk).queue
                                        ELSE TakeExact(ring, Chunk).queue]
    BY DEF Consume
  <2>4. QED
    BY <2>1, <2>2, <2>3
<1>5. /\ s \in Seq(Nat) /\ Len(s) <= Capacity
      /\ \A i \in 1 .. Len(s) : s[i] <= contract /\ (s[i] < flushed => i <= Chunk)
  <2>1. CASE s = <<>>
    BY <2>1, Sizes
  <2>2. CASE s = Without(q, Chunk)
    <3>1. /\ s \in Seq(Nat) /\ Len(s) = Len(q) - Chunk
          /\ \A i \in 1 .. Len(q) - Chunk : s[i] = q[i + Chunk]
      BY <1>1, <2>2, Sizes, WithoutShifts
    <3>2. \A i \in 1 .. Len(s) : i + Chunk \in 1 .. Len(q)
      BY <1>1, <3>1, Sizes
    <3>3. Len(s) <= Capacity
      BY <1>1, <3>1, Sizes
    <3>4. ASSUME NEW i \in 1 .. Len(s) PROVE s[i] <= contract /\ (s[i] < flushed => i <= Chunk)
      <4>1. s[i] = q[i + Chunk] /\ i + Chunk \in 1 .. Len(q)
        BY <3>1, <3>2
      <4>2. q[i + Chunk] <= contract /\ (q[i + Chunk] < flushed => i + Chunk <= Chunk)
        BY <1>2, <4>1
      <4>3. i + Chunk <= Chunk => i <= Chunk
        BY Sizes
      <4>4. QED
        BY <4>1, <4>2, <4>3
    <3>5. QED
      BY <3>1, <3>3, <3>4
  <2>3. QED
    BY <1>4, <2>1, <2>2
<1>6. queues[r] = <<>> => s = <<>>
  BY <1>1, Sizes
<1>7. /\ queues' \in [Rings -> Seq(Nat)] /\ queues'[r] = s
      /\ \A o \in Rings \ {r} : queues'[o] = queues[o]
  BY <1>4, <1>5 DEF StaleInv, Types
<1> HIDE DEF q, ring
<1>8. Types'
  BY <1>3, <1>5, <1>7 DEF StaleInv, Types, Sampled
<1>9. StaleIsOldest'
  BY <1>3, <1>5, <1>7 DEF StaleInv, StaleIsOldest
<1>10. StaleInHand'
  BY <1>3, <1>6, <1>7 DEF StaleInv, StaleInHand, Stale
<1>11. QED
  BY <1>8, <1>9, <1>10 DEF StaleInv

LEMMA ProceedKeeps ==
    ASSUME StaleInv, NEW a \in Actors, Proceed(a)
    PROVE  StaleInv'
<1>1. UNCHANGED <<contract, tuned, queues, flushed, scanner, chunk>>
  BY DEF Proceed, ConnectMock, OpenFails, DefaultsFail, Open, Opened, threads, slot
<1>2. QED
  BY <1>1, SettingsAdvance DEF StaleInv, Types

LEMMA FlowKeeps ==
    ASSUME StaleInv, NEW a \in Actors, Flow(a)
    PROVE  StaleInv'
<1>1. contract \in Nat /\ flushed \in Nat /\ flushed <= contract /\ chunk \in [Threads -> Seq(Nat)]
  BY DEF StaleInv, Types
<1>2. CASE UNCHANGED <<queues, scanner, chunk>>
  <2>1. UNCHANGED <<contract, tuned, flushed>>
    BY DEF Flow, FlowFails, FlowStarts
  <2>2. QED
    BY <1>2, <2>1, SettingsAdvance DEF StaleInv, Types
<1>3. CASE ~UNCHANGED <<queues, scanner, chunk>>
  <2>1. /\ UNCHANGED <<contract, tuned, flushed>> /\ queues' = [r \in Rings |-> <<>>]
        /\ chunk' = [chunk EXCEPT ![scanner'] = <<>>]
    BY <1>3 DEF Flow, FlowFails, FlowStarts, slot, threads
  <2>2. chunk' \in [Threads -> Seq(Nat)] /\ \A t \in Threads : chunk'[t] \in {chunk[t], <<>>}
    <3>1. <<>> \in Seq(Nat)
      OBVIOUS
    <3>2. QED
      BY <1>1, <2>1, <3>1
  <2>3. QED
    BY <1>1, <2>1, <2>2, EmptiedIsFresh
<1>4. QED
  BY <1>2, <1>3

LEMMA SuperviseKeeps ==
    ASSUME StaleInv, Supervise
    PROVE  StaleInv'
<1>1. Supervisor \in Actors /\ contract \in Nat /\ flushed \in Nat /\ flushed <= contract
  BY DEF Actors, StaleInv, Types
<1>2. CASE Probe \/ ProbeFinds \/ ProbeFindsNone \/ Restart
  <2>1. UNCHANGED <<contract, tuned, queues, flushed, scanner, chunk>>
    BY <1>2 DEF Probe, ProbeFinds, ProbeFindsNone, Restart, slot, threads
  <2>2. QED
    BY <2>1, SettingsAdvance DEF StaleInv, Types
<1>3. CASE Reapply
  <2>1. UNCHANGED <<contract, tuned, flushed, chunk>> /\ queues' = [r \in Rings |-> <<>>]
    BY <1>3 DEF Reapply, threads
  <2>2. QED
    BY <1>1, <2>1, EmptiedIsFresh DEF StaleInv, Types
<1>4. QED
  BY <1>1, <1>2, <1>3, ProceedKeeps, FlowKeeps DEF Supervise

LEMMA CaptureKeeps ==
    ASSUME StaleInv, NEW t \in Threads, CaptureLoop(t)
    PROVE  StaleInv'
<1>1. CASE CaptureReads(t)
  <2>1. PICK read \in {<<>>, NewChunk} : chunk' = [chunk EXCEPT ![t] = read]
    BY <1>1 DEF CaptureReads
  <2>2. UNCHANGED <<contract, flushed, tuned, queues, scanner>>
    BY <1>1 DEF CaptureReads, slot
  <2>3. QED
    BY <2>1, <2>2, ReadIsFresh
<1>2. CASE CapturePlays(t)
  <2>1. UNCHANGED <<contract, flushed, tuned, queues, scanner>>
    BY <1>2 DEF CapturePlays, slot
  <2>2. chunk' = [chunk EXCEPT ![t] = NewChunk] \/ UNCHANGED chunk
    BY <1>2 DEF CapturePlays
  <2>3. QED
    BY <2>1, <2>2, ReadIsFresh, SettingsAdvance DEF StaleInv, Types
<1>3. CASE CaptureObserves(t) \/ CaptureFails(t) \/ Recover(t)
  <2>1. UNCHANGED <<contract, tuned, queues, flushed, scanner, chunk>>
    BY <1>3 DEF CaptureObserves, CaptureFails, Recover, slot, threads
  <2>2. QED
    BY <2>1, SettingsAdvance DEF StaleInv, Types
<1>4. QED
  BY <1>1, <1>2, <1>3, CapturePushesKeeps, ProceedKeeps DEF CaptureLoop, Actors

LEMMA RequestKeeps ==
    ASSUME StaleInv, NEW c \in Clients, Request(c)
    PROVE  StaleInv'
<1>1. /\ contract \in Nat /\ tuned \in [Clients -> Nat] /\ \A d \in Clients : tuned[d] <= contract
      /\ flushed \in Nat /\ flushed <= contract
  BY DEF StaleInv, Types
<1>2. CASE Retune(c)
  <2>1. /\ tuned' = [tuned EXCEPT ![c] = contract'] /\ contract' = contract + 1
        /\ UNCHANGED <<queues, flushed, scanner, chunk>>
    BY <1>2 DEF Retune, slot, threads
  <2>2. QED
    BY <1>1, <2>1, SettingsAdvance
<1>3. CASE Connect(c) \/ NetworkConnect(c) \/ SelectNothing(c)
  <2>1. UNCHANGED <<contract, tuned, flushed, chunk>> /\ queues' = [r \in Rings |-> <<>>]
    BY <1>3 DEF Connect, NetworkConnect, SelectNothing, PauseScanner, threads
  <2>2. QED
    BY <1>1, <2>1, EmptiedIsFresh DEF StaleInv, Types
<1>4. CASE Disconnect(c) \/ RetuneFails(c) \/ PlaybackStart(c) \/ PlaybackStop(c) \/ PlaybackSeek(c)
  <2>1. UNCHANGED <<contract, tuned, queues, flushed, scanner, chunk>>
    BY <1>4 DEF Disconnect, RetuneFails, PlaybackStart, PlaybackStop, PlaybackSeek, slot, threads
  <2>2. QED
    BY <1>1, <2>1, SettingsAdvance
<1>5. QED
  BY <1>2, <1>3, <1>4 DEF Request

LEMMA HandlerKeeps ==
    ASSUME StaleInv, NEW c \in Clients, Handler(c)
    PROVE  StaleInv'
<1>1. /\ contract \in Nat /\ tuned \in [Clients -> Nat] /\ \A d \in Clients : tuned[d] <= contract
      /\ c \in Actors
  BY DEF StaleInv, Types, Actors
<1>2. CASE BandwidthFails(c)
  <2>1. /\ tuned' = [tuned EXCEPT ![c] = 0]
        /\ UNCHANGED <<contract, queues, flushed, scanner, chunk>>
    BY <1>2 DEF BandwidthFails, slot, threads
  <2>2. QED
    BY <1>1, <2>1, SettingsAdvance
<1>3. CASE Disconnected(c) \/ NetworkRefuses(c) \/ NetworkStarts(c) \/ NetworkConnected(c)
  <2>1. UNCHANGED <<contract, tuned, queues, flushed, scanner, chunk>>
    BY <1>3 DEF Disconnected, NetworkRefuses, NetworkStarts, NetworkConnected, slot, threads
  <2>2. QED
    BY <1>1, <2>1, SettingsAdvance
<1>4. QED
  BY <1>1, <1>2, <1>3, FlushKeeps, ProceedKeeps, FlowKeeps DEF Handler

----------------------------------------------------------------------------

LEMMA StaleInit == Init => StaleInv
  BY Sizes DEF Init, StaleInv, Types, Sampled, StaleIsOldest, StaleInHand, Stale

LEMMA StaleStep == StaleInv /\ [Next]_vars => StaleInv'
<1> SUFFICES ASSUME StaleInv, [Next]_vars PROVE StaleInv'
  OBVIOUS
<1>1. CASE Breaks \/ Answers \/ UNCHANGED vars
  <2>1. UNCHANGED <<contract, tuned, queues, flushed, scanner, chunk>>
    BY <1>1 DEF Breaks, Answers, vars, slot, threads
  <2>2. QED
    BY <2>1, SettingsAdvance DEF StaleInv, Types
<1>2. QED
  BY <1>1, RequestKeeps, HandlerKeeps, CaptureKeeps, SuperviseKeeps, ConsumeKeeps DEF Next

\* However reads, retunes, flushes and takes overlap, and whatever scanners come
\* and go with their threads, a ring of the scanner in the slot never holds more
\* than one chunk from before the last flush, the one its capture thread had in
\* its hands (flush_receiver_buffers, CaptureWorker).
THEOREM FlushLeavesOneChunk == Spec => []StaleAtMostOneChunk
<1>1. StaleInv => StaleAtMostOneChunk
  <2> SUFFICES ASSUME StaleInv, NEW r \in Rings
               PROVE  Cardinality({i \in 1 .. Len(queues[r]) : queues[r][i] < flushed}) <= Chunk
    BY DEF StaleAtMostOneChunk
  <2> DEFINE Old == {i \in 1 .. Len(queues[r]) : queues[r][i] < flushed}
  <2>1. Old \subseteq 1 .. Chunk
    BY Sizes DEF StaleInv, StaleIsOldest
  <2>2. IsFiniteSet(1 .. Chunk) /\ Cardinality(1 .. Chunk) = Chunk
    BY Sizes, FS_Interval
  <2>3. QED
    BY <2>1, <2>2, FS_Subset
<1>2. Spec => []StaleInv
  BY StaleInit, StaleStep, PTL DEF Spec
<1>3. QED
  BY <1>1, <1>2, PTL

=============================================================================
