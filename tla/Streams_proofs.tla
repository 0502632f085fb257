--------------------------- MODULE Streams_proofs ---------------------------
(* Proofs about the streams of Services, for any sizes of buffers, frames and *)
(* pushes: sound on its way to its listeners, and IQ samples on theirs from   *)
(* the radio or the network to a reader; and about the bits of BitFraming, an *)
(* AIS frame on its way from its transmitter to a message.                    *)
EXTENDS Services, SequenceTheorems, FiniteSetTheorems, WellFoundedInduction, TLAPS

----------------------------------------------------------------------------
(* Runs: sound of consecutive instants, all of their channels *)

\* The i-th sample of a run over n channels from instant f on.
At(n, f, i) == <<f + (i - 1) \div n, Sound!Stereo(n)[1 + ((i - 1) % n)]>>
Run(n, f, c) == [i \in 1 .. n * c |-> At(n, f, i)]
Taken == Nat \X {"left", "right", "mono"}

LEMMA AtTaken ==
    ASSUME NEW n \in 1 .. 2, NEW f \in Nat, NEW i \in Nat \ {0}
    PROVE  /\ At(n, f, i) \in Taken
           /\ At(n, f, i)[1] = f + (i - 1) \div n
<1>1. CASE n = 1
  <2>1. (i - 1) \div n = i - 1 /\ (i - 1) % n = 0
    BY <1>1
  <2>2. Sound!Stereo(n) = <<"mono">>
    BY <1>1 DEF Sound!Stereo
  <2>3. QED
    BY <2>1, <2>2 DEF At, Taken
<1>2. CASE n = 2
  <2>1. (i - 1) \div n \in Nat /\ (i - 1) % n \in 0 .. 1
    BY <1>2
  <2>2. Sound!Stereo(n) = <<"left", "right">>
    BY <1>2 DEF Sound!Stereo
  <2>3. Sound!Stereo(n)[1 + ((i - 1) % n)] \in {"left", "right"}
    BY <2>1, <2>2
  <2>4. QED
    BY <2>1, <2>3 DEF At, Taken
<1>3. QED
  BY <1>1, <1>2

LEMMA RunIsSeq ==
    ASSUME NEW n \in 1 .. 2, NEW f \in Nat, NEW c \in Nat
    PROVE  /\ n * c \in Nat
           /\ Run(n, f, c) \in Seq(Taken) /\ Len(Run(n, f, c)) = n * c
           /\ \A i \in 1 .. n * c : Run(n, f, c)[i] = At(n, f, i)
<1> DEFINE size == n * c
<1>1. size \in Nat
  OBVIOUS
<1> HIDE DEF size
<1>2. \A i \in 1 .. size : At(n, f, i) \in Taken
  <2>1. \A i \in Nat \ {0} : At(n, f, i) \in Taken
    BY AtTaken
  <2>2. \A i \in 1 .. size : i \in Nat \ {0}
    BY <1>1
  <2>3. QED
    BY <2>1, <2>2
<1>3. Run(n, f, c) = [i \in 1 .. size |-> At(n, f, i)]
  BY DEF Run, size
<1>4. Run(n, f, c) \in [1 .. size -> Taken]
  BY <1>2, <1>3
<1>5. Run(n, f, c) \in Seq(Taken)
  BY <1>1, <1>4, SeqDef
<1>6. Len(Run(n, f, c)) = size
  BY <1>1, <1>3, <1>5, LenProperties
<1>7. QED
  BY <1>1, <1>3, <1>5, <1>6 DEF size

\* The samples of a run count on from any instant of it.
LEMMA AtShifts ==
    ASSUME NEW n \in 1 .. 2, NEW f \in Nat, NEW a \in Nat, NEW i \in Nat \ {0}
    PROVE  At(n, f + a, i) = At(n, f, i + n * a)
<1>1. CASE n = 1
  <2>1. (i + n * a - 1) \div n = (i - 1) \div n + a /\ (i + n * a - 1) % n = (i - 1) % n
    BY <1>1
  <2>2. (i - 1) \div n \in Nat
    BY <1>1
  <2>3. QED
    BY <2>1, <2>2 DEF At
<1>2. CASE n = 2
  <2>1. (i + n * a - 1) \div n = (i - 1) \div n + a /\ (i + n * a - 1) % n = (i - 1) % n
    BY <1>2
  <2>2. (i - 1) \div n \in Nat
    BY <1>2
  <2>3. QED
    BY <2>1, <2>2 DEF At
<1>3. QED
  BY <1>1, <1>2

LEMMA RunsJoin ==
    ASSUME NEW n \in 1 .. 2, NEW f \in Nat, NEW a \in Nat, NEW b \in Nat
    PROVE  Run(n, f, a) \o Run(n, f + a, b) = Run(n, f, a + b)
<1> DEFINE s == Run(n, f, a)
           t == Run(n, f + a, b)
           u == Run(n, f, a + b)
           na == n * a
           nb == n * b
<1>1. na \in Nat /\ nb \in Nat /\ n * (a + b) = na + nb /\ f + a \in Nat /\ a + b \in Nat
  OBVIOUS
<1>2. /\ s \in Seq(Taken) /\ Len(s) = na /\ \A i \in 1 .. na : s[i] = At(n, f, i)
      /\ t \in Seq(Taken) /\ Len(t) = nb /\ \A i \in 1 .. nb : t[i] = At(n, f + a, i)
      /\ u \in Seq(Taken) /\ Len(u) = na + nb
      /\ \A i \in 1 .. na + nb : u[i] = At(n, f, i)
  <2>1. s \in Seq(Taken) /\ Len(s) = na /\ \A i \in 1 .. na : s[i] = At(n, f, i)
    BY RunIsSeq
  <2>2. t \in Seq(Taken) /\ Len(t) = nb /\ \A i \in 1 .. nb : t[i] = At(n, f + a, i)
    BY <1>1, RunIsSeq
  <2>3. /\ u \in Seq(Taken) /\ Len(u) = n * (a + b)
        /\ \A i \in 1 .. n * (a + b) : u[i] = At(n, f, i)
    BY <1>1, RunIsSeq
  <2> HIDE DEF s, t, u, na, nb
  <2>4. QED
    BY <1>1, <2>1, <2>2, <2>3
<1>3. \A i \in Nat \ {0} : At(n, f + a, i) = At(n, f, i + na)
  BY AtShifts
<1> HIDE DEF s, t, u, na, nb
<1>4. /\ s \o t \in Seq(Taken) /\ Len(s \o t) = na + nb
      /\ \A i \in 1 .. na + nb : (s \o t)[i] = IF i <= na THEN s[i] ELSE t[i - na]
  <2>1. /\ s \o t \in Seq(Taken) /\ Len(s \o t) = Len(s) + Len(t)
        /\ \A i \in 1 .. Len(s) + Len(t) :
              (s \o t)[i] = IF i <= Len(s) THEN s[i] ELSE t[i - Len(s)]
    BY <1>2, ConcatProperties
  <2>2. QED
    BY <1>2, <2>1
<1>5. ASSUME NEW i \in 1 .. na + nb PROVE (s \o t)[i] = u[i]
  <2>1. CASE i <= na
    BY <1>1, <1>2, <1>4, <2>1
  <2>2. CASE ~(i <= na)
    <3>1. i - na \in 1 .. nb /\ i - na \in Nat \ {0} /\ (i - na) + na = i
      BY <1>1, <2>2
    <3>2. (s \o t)[i] = At(n, f + a, i - na)
      BY <1>1, <1>2, <1>4, <2>2, <3>1
    <3>3. At(n, f + a, i - na) = At(n, f, i)
      BY <1>3, <3>1
    <3>4. QED
      BY <1>2, <3>2, <3>3
  <2>3. QED
    BY <2>1, <2>2
<1>6. s \o t = u
  BY <1>1, <1>2, <1>4, <1>5, SeqEqual
<1>7. QED
  BY <1>6 DEF s, t, u

Cuts(n, f, c, a, b) == SubSeq(Run(n, f, c), n * a + 1, n * b) = Run(n, f + a, b - a)

LEMMA RunCut ==
    ASSUME NEW n \in 1 .. 2, NEW f \in Nat, NEW a \in Nat, NEW b \in Nat, NEW c \in Nat,
           a <= b, b <= c
    PROVE  Cuts(n, f, c, a, b)
<1> DEFINE s == Run(n, f, c)
           t == Run(n, f + a, b - a)
           na == n * a
           nb == n * b
           nc == n * c
           cut == SubSeq(s, na + 1, nb)
<1>1. /\ na \in Nat /\ nb \in Nat /\ nc \in Nat /\ n * (b - a) = nb - na
      /\ na <= nb /\ nb <= nc /\ f + a \in Nat /\ b - a \in Nat
  <2>1. CASE n = 1
    BY <2>1
  <2>2. CASE n = 2
    BY <2>2
  <2>3. QED
    BY <2>1, <2>2
<1>2. /\ s \in Seq(Taken) /\ Len(s) = nc
      /\ t \in Seq(Taken) /\ Len(t) = nb - na
      /\ \A i \in 1 .. nc : s[i] = At(n, f, i)
      /\ \A i \in 1 .. nb - na : t[i] = At(n, f + a, i)
  <2>1. s \in Seq(Taken) /\ Len(s) = nc /\ \A i \in 1 .. nc : s[i] = At(n, f, i)
    BY RunIsSeq
  <2>2. /\ t \in Seq(Taken) /\ Len(t) = n * (b - a)
        /\ \A i \in 1 .. n * (b - a) : t[i] = At(n, f + a, i)
    BY <1>1, RunIsSeq
  <2> HIDE DEF s, t, na, nb, nc
  <2>3. QED
    BY <1>1, <2>1, <2>2
<1>3. \A i \in Nat \ {0} : At(n, f + a, i) = At(n, f, i + na)
  BY AtShifts
<1> HIDE DEF s, t, na, nb, nc
<1>4. \A i \in na + 1 .. nb : s[i] \in Taken
  BY <1>1, <1>2, ElementOfSeq
<1>5. /\ cut \in Seq(Taken)
      /\ Len(cut) = IF na + 1 <= nb THEN nb - (na + 1) + 1 ELSE 0
      /\ \A i \in 1 .. nb - (na + 1) + 1 : cut[i] = s[na + 1 + i - 1]
  BY <1>1, <1>4, SubSeqProperties
<1> HIDE DEF cut
<1>6. Len(cut) = nb - na
  BY <1>1, <1>5
<1>7. ASSUME NEW i \in 1 .. nb - na PROVE cut[i] = t[i]
  <2>1. i \in Nat \ {0} /\ i + na \in 1 .. nc /\ na + 1 + i - 1 = i + na
        /\ i \in 1 .. nb - (na + 1) + 1
    BY <1>1
  <2>2. QED
    BY <1>2, <1>3, <1>5, <2>1
<1>8. cut = t
  BY <1>1, <1>2, <1>5, <1>6, <1>7, SeqEqual
<1>9. QED
  BY <1>8 DEF Cuts, cut, s, t, na, nb

\* As mono: the instants of the run, one by one.
Instants(f, c) == [k \in 1 .. c |-> {f + k - 1}]

LEMMA RunMixed ==
    ASSUME NEW n \in 1 .. 2, NEW f \in Nat, NEW c \in Nat
    PROVE  Sound!Mixed(Run(n, f, c), n) = Instants(f, c)
<1> DEFINE s == Run(n, f, c)
           nc == n * c
<1>1. nc \in Nat /\ nc \div n = c
  <2>1. CASE n = 1
    BY <2>1
  <2>2. CASE n = 2
    BY <2>2
  <2>3. QED
    BY <2>1, <2>2
<1>2. Len(s) = nc /\ \A i \in 1 .. nc : s[i][1] = f + (i - 1) \div n
  <2>1. Len(s) = nc /\ \A i \in 1 .. nc : s[i] = At(n, f, i)
    BY RunIsSeq
  <2>2. \A i \in Nat \ {0} : At(n, f, i)[1] = f + (i - 1) \div n
    BY AtTaken
  <2> HIDE DEF s, nc
  <2>3. \A i \in 1 .. nc : i \in Nat \ {0}
    BY <1>1
  <2>4. QED
    BY <2>1, <2>2, <2>3
<1>3. ASSUME NEW k \in 1 .. c
      PROVE  {s[i][1] : i \in n * (k - 1) + 1 .. n * k} = {f + k - 1}
  <2>1. \A i \in n * (k - 1) + 1 .. n * k : i \in 1 .. nc /\ (i - 1) \div n = k - 1
    <3>1. CASE n = 1
      BY <3>1
    <3>2. CASE n = 2
      BY <3>2
    <3>3. QED
      BY <3>1, <3>2
  <2>2. n * k \in n * (k - 1) + 1 .. n * k
    <3>1. CASE n = 1
      BY <3>1
    <3>2. CASE n = 2
      BY <3>2
    <3>3. QED
      BY <3>1, <3>2
  <2> DEFINE I == n * (k - 1) + 1 .. n * k
  <2>3. f + (k - 1) = f + k - 1
    OBVIOUS
  <2> HIDE DEF s, nc
  <2>4. \A i \in I : s[i][1] = f + k - 1
    BY <1>2, <2>1, <2>3
  <2>5. n * k \in I
    BY <2>2
  <2> HIDE DEF I
  <2>6. {s[i][1] : i \in I} = {f + k - 1}
    BY <2>4, <2>5
  <2>7. QED
    BY <2>6 DEF I
<1> HIDE DEF s, nc
<1>4. Sound!Mixed(s, n) = [k \in 1 .. c |-> {s[i][1] : i \in n * (k - 1) + 1 .. n * k}]
  BY <1>1, <1>2 DEF Sound!Mixed
<1>5. QED
  BY <1>3, <1>4 DEF Instants, s

----------------------------------------------------------------------------
(* Mono sound in order, each value of one instant, the newest of instant m *)

Ordered(s, m) ==
    /\ s \in Seq(SUBSET Nat)
    /\ \A k \in 1 .. Len(s) : \E t \in 1 .. m : s[k] = {t}
    /\ \A k, l \in 1 .. Len(s) : k < l => \A t \in s[k], u \in s[l] : t < u

LEMMA OrderedLater ==
    ASSUME NEW s, NEW m \in Nat, NEW n \in Nat, m <= n, Ordered(s, m)
    PROVE  Ordered(s, n)
<1>1. \A t \in 1 .. m : t \in 1 .. n
  OBVIOUS
<1>2. QED
  BY <1>1 DEF Ordered

LEMMA OrderedPart ==
    ASSUME NEW s, NEW m \in Nat, Ordered(s, m), NEW a \in Nat \ {0}
    PROVE  Ordered(SubSeq(s, a, Len(s)), m)
<1> DEFINE z == Len(s)
           cut == SubSeq(s, a, z)
<1>1. z \in Nat /\ \A k \in a .. z : k \in 1 .. z /\ s[k] \in SUBSET Nat
  BY LenProperties, ElementOfSeq DEF Ordered
<1>2. /\ cut \in Seq(SUBSET Nat)
      /\ Len(cut) = IF a <= z THEN z - a + 1 ELSE 0
      /\ \A k \in 1 .. z - a + 1 : cut[k] = s[a + k - 1]
  BY <1>1, SubSeqProperties
<1> HIDE DEF cut
<1>3. /\ \A k \in 1 .. z : \E t \in 1 .. m : s[k] = {t}
      /\ \A k, l \in 1 .. z : k < l => \A t \in s[k], u \in s[l] : t < u
  BY DEF Ordered
<1> HIDE DEF z
<1>4. \A k \in 1 .. Len(cut) : a + k - 1 \in 1 .. z /\ cut[k] = s[a + k - 1]
  BY <1>1, <1>2
<1>5. \A k \in 1 .. Len(cut) : \E t \in 1 .. m : cut[k] = {t}
  BY <1>3, <1>4
<1>6. ASSUME NEW k \in 1 .. Len(cut), NEW l \in 1 .. Len(cut), k < l
      PROVE  \A t \in cut[k], u \in cut[l] : t < u
  <2>1. Len(cut) \in Nat
    BY <1>1, <1>2
  <2>2. a + k - 1 < a + l - 1
    BY <1>6, <2>1
  <2>3. QED
    BY <1>3, <1>4, <2>2
<1>7. QED
  BY <1>2, <1>5, <1>6 DEF Ordered, cut, z

LEMMA NewestOrdered ==
    ASSUME NEW s, NEW m \in Nat, Ordered(s, m), NEW n \in Nat
    PROVE  Ordered(Sound!Newest(s, n), m)
<1>1. Len(s) \in Nat
  BY LenProperties DEF Ordered
<1>2. CASE Len(s) > n
  <2>1. Len(s) - n + 1 \in Nat \ {0}
    BY <1>1, <1>2
  <2>2. QED
    BY <1>2, <2>1, OrderedPart DEF Sound!Newest
<1>3. CASE ~(Len(s) > n)
  BY <1>3 DEF Sound!Newest
<1>4. QED
  BY <1>2, <1>3

LEMMA InstantsFollow ==
    ASSUME NEW s, NEW m \in Nat, Ordered(s, m), NEW c \in Nat
    PROVE  Ordered(s \o Instants(m + 1, c), m + c)
<1> DEFINE t == Instants(m + 1, c)
           z == Len(s)
           all == s \o t
<1>1. \A k \in 1 .. c : m + 1 + k - 1 = m + k /\ m + k \in 1 .. m + c
  OBVIOUS
<1>2. t \in [1 .. c -> SUBSET Nat] /\ \A k \in 1 .. c : t[k] = {m + k}
  BY <1>1 DEF Instants
<1> HIDE DEF t
<1>3. t \in Seq(SUBSET Nat)
  BY <1>2, SeqDef
<1>4. Len(t) = c
  BY <1>2, <1>3, LenProperties
<1>5. z \in Nat /\ s \in Seq(SUBSET Nat)
  BY LenProperties DEF Ordered
<1>6. /\ all \in Seq(SUBSET Nat) /\ Len(all) = z + c
      /\ \A k \in 1 .. z + c : all[k] = IF k <= z THEN s[k] ELSE t[k - z]
  BY <1>3, <1>4, <1>5, ConcatProperties
<1>7. /\ \A k \in 1 .. z : \E u \in 1 .. m : s[k] = {u}
      /\ \A k, l \in 1 .. z : k < l => \A u \in s[k], v \in s[l] : u < v
  BY DEF Ordered
<1> HIDE DEF z, all
<1>8. ASSUME NEW k \in 1 .. z + c, ~(k <= z)
      PROVE  all[k] = {m + (k - z)} /\ m + (k - z) \in m + 1 .. m + c
  <2>1. k - z \in 1 .. c
    BY <1>5, <1>8
  <2>2. QED
    BY <1>2, <1>6, <1>8, <2>1
<1>9. ASSUME NEW k \in 1 .. z + c, k <= z
      PROVE  k \in 1 .. z /\ all[k] = s[k] /\ \E u \in 1 .. m : all[k] = {u}
  <2>1. k \in 1 .. z
    BY <1>5, <1>9
  <2>2. QED
    BY <1>6, <1>7, <1>9, <2>1
<1>10. ASSUME NEW k \in 1 .. z + c PROVE \E u \in 1 .. m + c : all[k] = {u}
  <2>1. \A u \in 1 .. m : u \in 1 .. m + c
    OBVIOUS
  <2>2. \A u \in m + 1 .. m + c : u \in 1 .. m + c
    OBVIOUS
  <2>3. CASE k <= z
    BY <1>9, <2>1, <2>3
  <2>4. CASE ~(k <= z)
    BY <1>8, <2>2, <2>4
  <2>5. QED
    BY <2>3, <2>4
<1>11. ASSUME NEW k \in 1 .. z + c, NEW l \in 1 .. z + c, k < l, NEW u \in all[k], NEW v \in all[l]
       PROVE  u < v
  <2>1. CASE l <= z
    <3>1. k <= z
      BY <1>5, <1>11, <2>1
    <3>2. QED
      BY <1>7, <1>9, <1>11, <2>1, <3>1
  <2>2. CASE k <= z /\ ~(l <= z)
    <3>1. u \in 1 .. m
      BY <1>9, <1>11, <2>2
    <3>2. v \in m + 1 .. m + c
      BY <1>8, <1>11, <2>2
    <3>3. QED
      BY <3>1, <3>2
  <2>3. CASE ~(k <= z) /\ ~(l <= z)
    <3>1. u = m + (k - z) /\ v = m + (l - z)
      BY <1>8, <1>11, <2>3
    <3>2. QED
      BY <1>5, <1>11, <3>1
  <2>4. QED
    BY <1>5, <1>11, <2>1, <2>2, <2>3
<1>12. QED
  BY <1>6, <1>10, <1>11 DEF Ordered, all, t

----------------------------------------------------------------------------
(* The invariant *)

\* c instants of the last push and before them p pending ones are not in the
\* ring yet; of the last push, none is in the sound card's queue.
Waiting(c, p) ==
    LET cut == IF pushing.at \in {"check", "cut"} THEN instant - c ELSE instant
    IN  /\ c \in 0 .. instant /\ p \in 0 .. cut
        /\ IF pushing.at = "none" THEN c = 0
           ELSE pushing.samples = Run(pushing.channels, instant - c + 1, c)
        /\ pending = Run(channels, cut - p + 1, p)
        /\ Ordered(heardRing, cut - p)
        /\ Ordered(sound, instant - c)

Whole(frame, n) == \E f \in Nat : frame = [channels |-> n, samples |-> Run(n, f, FrameInstants)]

SoundTypes ==
    /\ channels \in 1 .. 2 /\ instant \in Nat /\ instant <= MaxInstants
    /\ pushing.at \in {"none", "check", "cut", "queue"}
    /\ pushing = [at |-> pushing.at, samples |-> pushing.samples, channels |-> pushing.channels]
    /\ pushing.channels \in 1 .. 2
    /\ pushing.at \in {"cut", "queue"} => channels = pushing.channels

SoundInv ==
    /\ SoundTypes
    /\ \E c, p \in Nat : Waiting(c, p)
    /\ \E n \in 1 .. 2 : \A k \in DOMAIN frames : Whole(frames[k], n)

LEMMA EmptyRun == ASSUME NEW n \in 1 .. 2, NEW f \in Nat PROVE Run(n, f, 0) = <<>>
<1>1. Run(n, f, 0) \in Seq(Taken) /\ Len(Run(n, f, 0)) = n * 0 /\ n * 0 = 0
  BY RunIsSeq
<1>2. QED
  BY <1>1, EmptySeq

LEMMA NothingOrdered == ASSUME NEW m \in Nat PROVE Ordered(<<>>, m)
  BY EmptySeq DEF Ordered

LEMMA SoundInitial == Sound!AudioInit => SoundInv
<1> SUFFICES ASSUME Sound!AudioInit PROVE SoundInv
  OBVIOUS
<1>1. /\ channels = 1 /\ pending = <<>> /\ frames = <<>> /\ heardRing = <<>> /\ sound = <<>>
      /\ pushing = [at |-> "none", samples |-> <<>>, channels |-> 1] /\ instant = 0
  BY DEF Sound!AudioInit, Sound!NoPush
<1>2. SoundTypes
  BY <1>1, ServicesAssumption DEF SoundTypes
<1>3. Waiting(0, 0)
  <2>1. <<>> = Run(channels, 1, 0)
    BY <1>1, EmptyRun
  <2>2. Ordered(<<>>, 0)
    BY NothingOrdered
  <2>3. QED
    BY <1>1, <2>1, <2>2 DEF Waiting
<1>4. \A k \in DOMAIN frames : Whole(frames[k], 1)
  <2>1. DOMAIN frames = 1 .. 0
    BY <1>1, EmptySeq, LenProperties
  <2>2. QED
    BY <2>1
<1>5. QED
  BY <1>2, <1>3, <1>4 DEF SoundInv

LEMMA PushKeeps ==
    ASSUME SoundInv, NEW n \in 1 .. 2, NEW count \in 1 .. MaxPush, Sound!Push(n, count)
    PROVE  SoundInv'
<1>1. PICK c, p \in Nat : Waiting(c, p)
  BY DEF SoundInv
<1>2. /\ pushing.at = "none" /\ instant + count <= MaxInstants /\ instant' = instant + count
      /\ pushing' = [at |-> "check", channels |-> n,
                     samples |-> [i \in 1 .. n * count |->
                         <<instant + 1 + (i - 1) \div n, Sound!Stereo(n)[1 + ((i - 1) % n)]>>]]
      /\ frames' = <<>>
      /\ UNCHANGED <<channels, pending, heardRing, sound>>
  BY DEF Sound!Push
<1>3. instant \in Nat /\ channels \in 1 .. 2 /\ count \in Nat /\ MaxInstants \in Nat
  BY ServicesAssumption DEF SoundInv, SoundTypes
<1>4. pushing'.samples = Run(n, instant + 1, count) /\ pushing'.channels = n /\ pushing'.at = "check"
  BY <1>2 DEF Run, At
<1>5. SoundTypes'
  BY <1>2, <1>3, <1>4 DEF SoundTypes
<1>6. Waiting(count, p)'
  <2>1. /\ p \in 0 .. instant /\ pending = Run(channels, instant - p + 1, p)
        /\ Ordered(heardRing, instant - p) /\ Ordered(sound, instant)
    BY <1>1, <1>2, <1>3 DEF Waiting
  <2>2. instant' - count = instant /\ instant' - count + 1 = instant + 1 /\ count \in 0 .. instant'
    BY <1>2, <1>3
  <2>3. QED
    BY <1>2, <1>4, <2>1, <2>2 DEF Waiting
<1>7. \A k \in DOMAIN frames' : Whole(frames'[k], 1)
  <2>1. DOMAIN frames' = 1 .. 0
    BY <1>2, EmptySeq, LenProperties
  <2>2. QED
    BY <2>1
<1>8. (\E d, q \in Nat : Waiting(d, q))'
  BY <1>3, <1>6
<1>9. QED
  BY <1>5, <1>7, <1>8 DEF SoundInv, Whole

LEMMA CheckChannelsKeeps == ASSUME SoundInv, Sound!CheckChannels PROVE SoundInv'
<1>1. PICK c, p \in Nat : Waiting(c, p)
  BY DEF SoundInv
<1>2. /\ pushing.at = "check" /\ channels' = pushing.channels
      /\ pending' = IF channels = pushing.channels THEN pending ELSE <<>>
      /\ pushing' = [pushing EXCEPT !.at = "cut"]
      /\ UNCHANGED <<frames, heardRing, sound, instant>>
  BY DEF Sound!CheckChannels
<1>3. instant \in Nat /\ channels \in 1 .. 2 /\ pushing.channels \in 1 .. 2
  BY DEF SoundInv, SoundTypes
<1>4. pushing' = [at |-> "cut", samples |-> pushing.samples, channels |-> pushing.channels]
  BY <1>2 DEF SoundInv, SoundTypes
<1>5. SoundTypes'
  BY <1>2, <1>4 DEF SoundInv, SoundTypes
<1> DEFINE cut == instant - c
<1>6. /\ c \in 0 .. instant /\ p \in 0 .. cut /\ cut \in Nat /\ cut - p \in Nat
      /\ pushing.samples = Run(pushing.channels, instant - c + 1, c)
      /\ pending = Run(channels, cut - p + 1, p)
      /\ Ordered(heardRing, cut - p) /\ Ordered(sound, cut)
  BY <1>1, <1>2, <1>3 DEF Waiting
<1>7. PICK q \in {0, p} : Waiting(c, q)'
  <2>1. CASE channels = pushing.channels
    <3>1. /\ pushing'.at = "cut" /\ pushing'.channels = pushing.channels
          /\ pushing'.samples = pushing.samples
      BY <1>4
    <3>2. pending' = Run(channels', cut - p + 1, p)
      BY <1>2, <1>6, <2>1
    <3>3. Waiting(c, p)'
      BY <1>2, <1>6, <3>1, <3>2 DEF Waiting
    <3>4. QED
      BY <3>3
  <2>2. CASE channels # pushing.channels
    <3>1. pending' = Run(channels', cut + 1, 0)
      <4>1. channels' \in 1 .. 2 /\ cut + 1 \in Nat /\ pending' = <<>>
        BY <1>2, <1>3, <1>6, <2>2
      <4>2. QED
        BY <4>1, EmptyRun
    <3>2. Ordered(heardRing, cut)
      BY <1>6, OrderedLater
    <3>3. cut - 0 = cut /\ cut - 0 + 1 = cut + 1 /\ 0 \in 0 .. cut
      BY <1>6
    <3>4. Waiting(c, 0)'
      BY <1>2, <1>4, <1>6, <3>1, <3>2, <3>3 DEF Waiting
    <3>5. QED
      BY <3>4
  <2>3. QED
    BY <2>1, <2>2
<1>8. (\E n \in 1 .. 2 : \A k \in DOMAIN frames : Whole(frames[k], n))'
  BY <1>2 DEF SoundInv, Whole
<1>9. QED
  BY <1>5, <1>7, <1>8 DEF SoundInv

\* The whole frames of m instants.
LEMMA DivBelow ==
    ASSUME NEW x \in Nat, NEW y \in Nat \ {0}
    PROVE  x \div y \in Nat /\ y * (x \div y) <= x
  OBVIOUS

LEMMA WholeFrames ==
    ASSUME NEW n \in 1 .. 2, NEW m \in Nat
    PROVE  LET w == (n * m) \div (FrameInstants * n)
           IN  w \in Nat /\ FrameInstants * w <= m
<1> DEFINE w == (n * m) \div (FrameInstants * n)
           size == FrameInstants * n
<1>1. FrameInstants \in Nat \ {0}
  BY ServicesAssumption
<1>2. n * m \in Nat /\ size \in Nat \ {0}
  <2>1. CASE n = 1
    BY <1>1, <2>1
  <2>2. CASE n = 2
    BY <1>1, <2>2
  <2>3. QED
    BY <2>1, <2>2
<1>3. w \in Nat /\ size * w <= n * m
  BY <1>2, DivBelow
<1> HIDE DEF w
<1>4. size * w = n * (FrameInstants * w) /\ FrameInstants * w \in Nat
  BY <1>1, <1>3
<1> DEFINE fw == FrameInstants * w
<1>5. n * fw <= n * m /\ fw \in Nat
  BY <1>3, <1>4
<1> HIDE DEF fw
<1>6. fw <= m
  <2>1. CASE n = 1
    BY <1>5, <2>1
  <2>2. CASE n = 2
    BY <1>5, <2>2
  <2>3. QED
    BY <2>1, <2>2
<1>7. QED
  BY <1>3, <1>6 DEF w, fw

\* The k-th frame lies within what the whole frames take.
LEMMA FrameWithin ==
    ASSUME NEW n \in 1 .. 2, NEW w \in Nat, NEW k \in 1 .. w
    PROVE  LET a == FrameInstants * (k - 1)
               b == FrameInstants * k
           IN /\ a \in Nat /\ b \in Nat /\ a <= b /\ b <= FrameInstants * w
              /\ b - a = FrameInstants
              /\ FrameInstants * n * (k - 1) = n * a /\ FrameInstants * n * k = n * b
<1>1. FrameInstants \in Nat
  BY ServicesAssumption
<1>2. w - k \in Nat /\ k - 1 \in Nat /\ k \in Nat
  OBVIOUS
<1>3. FrameInstants * (w - k) \in Nat /\ FrameInstants * w = FrameInstants * k + FrameInstants * (w - k)
  BY <1>1, <1>2
<1>4. FrameInstants * (k - 1) = FrameInstants * k - FrameInstants
  BY <1>1, <1>2
<1>5. FrameInstants * (k - 1) \in Nat /\ FrameInstants * k \in Nat /\ FrameInstants * w \in Nat
  BY <1>1, <1>2
<1>6. /\ FrameInstants * n * (k - 1) = n * (FrameInstants * (k - 1))
      /\ FrameInstants * n * k = n * (FrameInstants * k)
  BY <1>1, <1>2
<1> DEFINE a == FrameInstants * (k - 1)
           b == FrameInstants * k
           z == FrameInstants * w
           y == FrameInstants * (w - k)
<1> HIDE DEF a, b, z, y
<1>7. a <= b /\ b <= z /\ b - a = FrameInstants
  <2>1. /\ a \in Nat /\ b \in Nat /\ z \in Nat /\ y \in Nat /\ z = b + y
        /\ a = b - FrameInstants
    BY <1>3, <1>4, <1>5 DEF a, b, z, y
  <2>2. QED
    BY <1>1, <2>1
<1>8. QED
  BY <1>5, <1>6, <1>7 DEF a, b, z

\* What a run of m instants is cut into.
LEMMA CutRun ==
    ASSUME NEW n \in 1 .. 2, NEW f \in Nat, NEW m \in Nat
    PROVE  LET all == Run(n, f, m)
               size == FrameInstants * n
               w == Len(all) \div size
               fw == FrameInstants * w
           IN /\ w \in Nat /\ fw \in Nat /\ fw <= m
              /\ SubSeq(all, size * w + 1, Len(all)) = Run(n, f + fw, m - fw)
              /\ Sound!Mixed(SubSeq(all, 1, size * w), n) = Instants(f, fw)
              /\ \A k \in 1 .. w :
                    Whole([channels |-> n,
                           samples |-> SubSeq(all, size * (k - 1) + 1, size * k)], n)
<1> DEFINE all == Run(n, f, m)
           size == FrameInstants * n
           w == Len(all) \div size
           fw == FrameInstants * w
<1>1. FrameInstants \in Nat \ {0}
  BY ServicesAssumption
<1>2. Len(all) = n * m
  BY RunIsSeq
<1>3. w \in Nat /\ fw <= m
  <2>1. w = (n * m) \div (FrameInstants * n)
    BY <1>2
  <2>2. QED
    BY <2>1, WholeFrames
<1> HIDE DEF w
<1>4. fw \in Nat /\ size * w = n * fw
  BY <1>1, <1>3
<1> HIDE DEF fw
<1>5. SubSeq(all, size * w + 1, Len(all)) = Run(n, f + fw, m - fw)
  <2>1. SubSeq(Run(n, f, m), n * fw + 1, n * m) = Run(n, f + fw, m - fw)
    <3>1. m <= m
      OBVIOUS
    <3>2. Cuts(n, f, m, fw, m)
      BY <1>3, <1>4, <3>1, RunCut
    <3>3. QED
      BY <3>2 DEF Cuts
  <2> HIDE DEF size
  <2>2. QED
    BY <1>2, <1>4, <2>1
<1>6. SubSeq(all, 1, size * w) = Run(n, f, fw)
  <2>1. SubSeq(Run(n, f, m), n * 0 + 1, n * fw) = Run(n, f + 0, fw - 0)
    <3>1. 0 <= fw
      BY <1>4
    <3>2. Cuts(n, f, m, 0, fw)
      BY <1>3, <1>4, <3>1, RunCut
    <3>3. QED
      BY <3>2 DEF Cuts
  <2>2. n * 0 + 1 = 1 /\ f + 0 = f /\ fw - 0 = fw
    BY <1>4
  <2> HIDE DEF size
  <2>3. QED
    BY <1>4, <2>1, <2>2
<1>7. Sound!Mixed(SubSeq(all, 1, size * w), n) = Instants(f, fw)
  BY <1>4, <1>6, RunMixed
<1>8. ASSUME NEW k \in 1 .. w
      PROVE  Whole([channels |-> n, samples |-> SubSeq(all, size * (k - 1) + 1, size * k)], n)
  <2> DEFINE a == FrameInstants * (k - 1)
             b == FrameInstants * k
  <2>1. /\ a \in Nat /\ b \in Nat /\ a <= b /\ b <= fw /\ b - a = FrameInstants
        /\ size * (k - 1) = n * a /\ size * k = n * b
    BY <1>3, FrameWithin DEF fw
  <2> HIDE DEF a, b, size
  <2>2. b <= m /\ f + a \in Nat
    BY <1>3, <1>4, <2>1
  <2>3. SubSeq(Run(n, f, m), n * a + 1, n * b) = Run(n, f + a, b - a)
    <3>1. Cuts(n, f, m, a, b)
      BY <2>1, <2>2, RunCut
    <3>2. QED
      BY <3>1 DEF Cuts
  <2>4. SubSeq(all, size * (k - 1) + 1, size * k) = Run(n, f + a, FrameInstants)
    BY <2>1, <2>3
  <2>5. QED
    BY <2>2, <2>4 DEF Whole
<1>9. QED
  BY <1>3, <1>4, <1>5, <1>7, <1>8 DEF w, fw

LEMMA CutFramesKeeps == ASSUME SoundInv, Sound!CutFrames PROVE SoundInv'
<1>1. PICK c, p \in Nat : Waiting(c, p)
  BY DEF SoundInv
<1>2. PICK n \in 1 .. 2 : n = pushing.channels
  BY DEF SoundInv, SoundTypes
<1>3. /\ instant \in Nat /\ instant <= MaxInstants /\ channels = n /\ pushing.at = "cut"
      /\ RingSize \in Nat
  BY <1>2, ServicesAssumption DEF SoundInv, SoundTypes, Sound!CutFrames
<1>4. PICK f \in Nat : /\ f = instant - c - p + 1 /\ c \in 0 .. instant /\ p \in 0 .. instant - c
                       /\ pushing.samples = Run(n, f + p, c) /\ pending = Run(n, f, p)
                       /\ Ordered(heardRing, f - 1) /\ Ordered(sound, instant - c)
  <2>1. c \in 0 .. instant /\ p \in 0 .. instant - c
    BY <1>1, <1>3 DEF Waiting
  <2>2. /\ pushing.samples = Run(n, instant - c + 1, c) /\ pending = Run(n, instant - c - p + 1, p)
        /\ Ordered(heardRing, instant - c - p) /\ Ordered(sound, instant - c)
    BY <1>1, <1>2, <1>3 DEF Waiting
  <2> DEFINE g == instant - c - p + 1
  <2>3. g \in Nat /\ g + p = instant - c + 1 /\ g - 1 = instant - c - p
    BY <1>3, <2>1
  <2> HIDE DEF g
  <2>4. /\ pushing.samples = Run(n, g + p, c) /\ pending = Run(n, g, p) /\ Ordered(heardRing, g - 1)
    BY <2>2, <2>3 DEF g
  <2>5. QED
    BY <2>1, <2>2, <2>3, <2>4 DEF g
<1> DEFINE m == p + c
           all == Run(n, f, m)
           size == FrameInstants * n
           w == Len(all) \div size
           fw == FrameInstants * w
<1>5. pending \o pushing.samples = all
  <2>1. Run(n, f, p) \o Run(n, f + p, c) = Run(n, f, p + c)
    BY RunsJoin
  <2>2. QED
    BY <1>4, <2>1
<1>6. /\ w \in Nat /\ fw \in Nat /\ fw <= m /\ m \in Nat
      /\ SubSeq(all, size * w + 1, Len(all)) = Run(n, f + fw, m - fw)
      /\ Sound!Mixed(SubSeq(all, 1, size * w), n) = Instants(f, fw)
      /\ \A k \in 1 .. w : Whole([channels |-> n,
                                  samples |-> SubSeq(all, size * (k - 1) + 1, size * k)], n)
  <2>1. m \in Nat
    OBVIOUS
  <2> HIDE DEF m
  <2>2. QED
    BY <2>1, CutRun
<1>7. /\ frames' = [k \in 1 .. w |-> [channels |-> n,
                                      samples |-> SubSeq(all, size * (k - 1) + 1, size * k)]]
      /\ pending' = SubSeq(all, size * w + 1, Len(all))
      /\ heardRing' = Sound!Newest(heardRing \o Sound!Mixed(SubSeq(all, 1, size * w), n), RingSize)
      /\ pushing' = IF headless THEN Sound!NoPush ELSE [pushing EXCEPT !.at = "queue"]
      /\ UNCHANGED <<channels, sound, instant>>
  <2> HIDE DEF all
  <2>1. QED
    BY <1>2, <1>5 DEF Sound!CutFrames
<1> HIDE DEF all, size, w
<1>8. \A k \in DOMAIN frames' : Whole(frames'[k], n)
  BY <1>6, <1>7
<1> HIDE DEF fw, m
<1>9. pending' = Run(n, f + fw, m - fw)
  BY <1>6, <1>7
<1>10. Ordered(heardRing', f - 1 + fw)
  <2>1. f - 1 \in Nat /\ f - 1 + 1 = f /\ f - 1 + fw \in Nat
    BY <1>3, <1>4, <1>6
  <2>2. Ordered(heardRing \o Instants(f - 1 + 1, fw), f - 1 + fw)
    BY <1>4, <1>6, <2>1, InstantsFollow
  <2>3. Ordered(Sound!Newest(heardRing \o Instants(f, fw), RingSize), f - 1 + fw)
    BY <1>3, <2>1, <2>2, NewestOrdered
  <2>4. QED
    BY <1>6, <1>7, <2>3
<1> DEFINE q == m - fw
<1>11. /\ q \in Nat /\ q \in 0 .. instant /\ instant - q + 1 = f + fw /\ instant - q = f - 1 + fw
  BY <1>3, <1>4, <1>6 DEF m
<1>12. pending' = Run(n, instant - q + 1, q) /\ Ordered(heardRing', instant - q)
  BY <1>9, <1>10, <1>11
<1> HIDE DEF q
<1>13. (\E d, r \in Nat : Waiting(d, r))' /\ SoundTypes'
  <2>1. CASE headless
    <3>1. pushing' = [at |-> "none", samples |-> <<>>, channels |-> 1]
      BY <1>7, <2>1 DEF Sound!NoPush
    <3>2. instant - c \in Nat /\ instant - c <= instant /\ instant - 0 = instant /\ 0 \in 0 .. instant
      BY <1>3, <1>4
    <3>3. Ordered(sound, instant)
      BY <1>3, <1>4, <3>2, OrderedLater
    <3>4. /\ pushing'.at = "none" /\ 0 \in 0 .. instant' /\ q \in 0 .. instant'
          /\ pending' = Run(channels', instant' - q + 1, q)
          /\ Ordered(heardRing', instant' - q) /\ Ordered(sound', instant' - 0)
      <4>1. instant' = instant /\ channels' = n /\ sound' = sound
        BY <1>3, <1>7
      <4>2. pending' = Run(channels', instant' - q + 1, q) /\ Ordered(heardRing', instant' - q)
        BY <1>12, <4>1
      <4>3. Ordered(sound', instant' - 0)
        BY <3>2, <3>3, <4>1
      <4>4. QED
        BY <1>11, <3>1, <3>2, <4>1, <4>2, <4>3
    <3>5. Waiting(0, q)'
      BY <3>4 DEF Waiting
    <3>6. SoundTypes'
      BY <1>3, <1>7, <3>1 DEF SoundTypes
    <3>7. QED
      BY <1>11, <3>5, <3>6
  <2>2. CASE ~headless
    <3>1. pushing' = [at |-> "queue", samples |-> pushing.samples, channels |-> n]
      BY <1>2, <1>7, <2>2 DEF SoundInv, SoundTypes
    <3>2. instant - c + 1 = f + p
      BY <1>3, <1>4
    <3>3. /\ pushing'.at = "queue" /\ c \in 0 .. instant' /\ q \in 0 .. instant'
          /\ pushing'.samples = Run(pushing'.channels, instant' - c + 1, c)
          /\ pending' = Run(channels', instant' - q + 1, q)
          /\ Ordered(heardRing', instant' - q) /\ Ordered(sound', instant' - c)
      <4>1. instant' = instant /\ channels' = n /\ sound' = sound
        BY <1>3, <1>7
      <4>2. pending' = Run(channels', instant' - q + 1, q) /\ Ordered(heardRing', instant' - q)
        BY <1>12, <4>1
      <4>3. pushing'.samples = Run(pushing'.channels, instant' - c + 1, c)
        BY <1>4, <3>1, <3>2, <4>1
      <4>4. QED
        BY <1>4, <1>11, <3>1, <4>1, <4>2, <4>3
    <3>4. Waiting(c, q)'
      BY <3>3 DEF Waiting
    <3>5. SoundTypes'
      BY <1>3, <1>7, <3>1 DEF SoundTypes
    <3>6. QED
      BY <1>11, <3>4, <3>5
  <2>3. QED
    BY <2>1, <2>2
<1>14. (\E l \in 1 .. 2 : \A k \in DOMAIN frames : Whole(frames[k], l))'
  BY <1>8 DEF Whole
<1>15. QED
  BY <1>13, <1>14 DEF SoundInv

LEMMA QueueMonoKeeps == ASSUME SoundInv, Sound!QueueMono PROVE SoundInv'
<1>1. PICK c, p \in Nat : Waiting(c, p)
  BY DEF SoundInv
<1>2. /\ pushing.at = "queue"
      /\ sound' = Sound!Newest(sound \o Sound!Mixed(pushing.samples, pushing.channels), QueueSize)
      /\ pushing' = [at |-> "none", samples |-> <<>>, channels |-> 1]
      /\ UNCHANGED <<channels, pending, frames, heardRing, instant>>
  BY DEF Sound!QueueMono, Sound!NoPush
<1>3. instant \in Nat /\ pushing.channels \in 1 .. 2 /\ QueueSize \in Nat
  BY ServicesAssumption DEF SoundInv, SoundTypes
<1>4. /\ c \in 0 .. instant /\ p \in 0 .. instant /\ instant - c \in Nat /\ instant - c + c = instant
      /\ pushing.samples = Run(pushing.channels, instant - c + 1, c)
      /\ pending = Run(channels, instant - p + 1, p)
      /\ Ordered(heardRing, instant - p) /\ Ordered(sound, instant - c)
  BY <1>1, <1>2, <1>3 DEF Waiting
<1>5. Sound!Mixed(pushing.samples, pushing.channels) = Instants(instant - c + 1, c)
  BY <1>3, <1>4, RunMixed
<1>6. Ordered(sound \o Instants(instant - c + 1, c), instant - c + c)
  BY <1>4, InstantsFollow
<1>7. Ordered(sound', instant)
  BY <1>2, <1>3, <1>4, <1>5, <1>6, NewestOrdered
<1>8. Waiting(0, p)'
  BY <1>2, <1>3, <1>4, <1>7 DEF Waiting
<1>9. SoundTypes'
  BY <1>2 DEF SoundInv, SoundTypes
<1>10. (\E n \in 1 .. 2 : \A k \in DOMAIN frames : Whole(frames[k], n))'
  BY <1>2 DEF SoundInv, Whole
<1>11. QED
  BY <1>8, <1>9, <1>10 DEF SoundInv

LEMMA OutputKeeps ==
    ASSUME SoundInv, NEW count \in 1 .. MaxOutput, Sound!Output(count)
    PROVE  SoundInv'
<1>1. PICK c, p \in Nat : Waiting(c, p)
  BY DEF SoundInv
<1>2. /\ sound' = SubSeq(sound, count + 1, Len(sound))
      /\ UNCHANGED <<channels, pending, frames, heardRing, pushing, instant>>
  BY DEF Sound!Output
<1>3. Ordered(sound, instant - c) /\ instant - c \in Nat /\ count + 1 \in Nat \ {0}
  BY <1>1, ServicesAssumption DEF SoundInv, SoundTypes, Waiting
<1>4. Ordered(sound', instant - c)
  BY <1>2, <1>3, OrderedPart
<1>5. Waiting(c, p)'
  BY <1>1, <1>2, <1>4 DEF Waiting
<1>6. QED
  BY <1>2, <1>5 DEF SoundInv, SoundTypes, Whole

LEMMA ClearKeeps == ASSUME SoundInv, Sound!ClearQueue \/ Sound!ClearPending PROVE SoundInv'
<1>1. PICK c, p \in Nat : Waiting(c, p)
  BY DEF SoundInv
<1>2. /\ \/ sound' = <<>> /\ pending' = pending
         \/ sound' = sound /\ pending' = <<>>
      /\ UNCHANGED <<channels, frames, heardRing, pushing, instant>>
  BY DEF Sound!ClearQueue, Sound!ClearPending
<1> DEFINE cut == IF pushing.at \in {"check", "cut"} THEN instant - c ELSE instant
<1>3. /\ c \in 0 .. instant /\ p \in 0 .. cut /\ instant \in Nat /\ channels \in 1 .. 2
      /\ cut \in Nat /\ cut - p \in Nat /\ instant - c \in Nat
      /\ Ordered(heardRing, cut - p)
  BY <1>1 DEF SoundInv, SoundTypes, Waiting
<1>4. CASE sound' = <<>> /\ pending' = pending
  <2>1. Ordered(sound', instant - c)
    BY <1>3, <1>4, NothingOrdered
  <2>2. Waiting(c, p)'
    BY <1>1, <1>2, <1>4, <2>1 DEF Waiting
  <2>3. QED
    BY <1>2, <2>2 DEF SoundInv, SoundTypes, Whole
<1>5. CASE sound' = sound /\ pending' = <<>>
  <2>1. pending' = Run(channels, cut + 1, 0) /\ Ordered(heardRing, cut)
    BY <1>3, <1>5, EmptyRun, OrderedLater
  <2>2. cut - 0 = cut /\ 0 \in 0 .. cut
    BY <1>3
  <2>3. Waiting(c, 0)'
    BY <1>1, <1>2, <1>5, <2>1, <2>2 DEF Waiting
  <2>4. QED
    BY <1>2, <2>3 DEF SoundInv, SoundTypes, Whole
<1>6. QED
  BY <1>2, <1>4, <1>5

LEMMA SoundStepKeeps == SoundInv /\ Sound!AudioNext => SoundInv'
  BY PushKeeps, CheckChannelsKeeps, CutFramesKeeps, QueueMonoKeeps, OutputKeeps, ClearKeeps
  DEF Sound!AudioNext

LEMMA OrderedIsEach ==
    ASSUME NEW s, NEW m \in Nat, m <= MaxInstants, Ordered(s, m)
    PROVE  Sound!OneInstantEach(s)
<1>1. DOMAIN s = 1 .. Len(s)
  BY LenProperties DEF Ordered
<1>2. \A t \in 1 .. m : t \in 1 .. MaxInstants
  BY ServicesAssumption
<1>3. QED
  BY <1>1, <1>2 DEF Ordered, Sound!OneInstantEach

LEMMA WholeIsAligned ==
    ASSUME NEW n \in 1 .. 2, NEW frame, Whole(frame, n)
    PROVE  /\ Len(frame.samples) = FrameInstants * frame.channels
           /\ \A i \in DOMAIN frame.samples :
                 frame.samples[i] = <<frame.samples[1][1] + (i - 1) \div frame.channels,
                                      Sound!Stereo(frame.channels)[1 + ((i - 1) % frame.channels)]>>
<1>1. PICK f \in Nat : frame = [channels |-> n, samples |-> Run(n, f, FrameInstants)]
  BY DEF Whole
<1> DEFINE s == frame.samples
           size == n * FrameInstants
<1>2. FrameInstants \in Nat \ {0} /\ size \in Nat /\ size = FrameInstants * n
  BY ServicesAssumption
<1>3. /\ s \in Seq(Taken) /\ Len(s) = size /\ \A i \in 1 .. size : s[i] = At(n, f, i)
      /\ frame.channels = n
  BY <1>1, <1>2, RunIsSeq
<1>4. DOMAIN s = 1 .. size
  BY <1>3, LenProperties
<1>5. 1 \in 1 .. size
  <2>1. CASE n = 1
    BY <1>2, <2>1
  <2>2. CASE n = 2
    BY <1>2, <2>2
  <2>3. QED
    BY <2>1, <2>2
<1>6. s[1][1] = f
  <2>1. \A i \in Nat \ {0} : At(n, f, i)[1] = f + (i - 1) \div n
    BY AtTaken
  <2>2. At(n, f, 1)[1] = f
    <3>1. CASE n = 1
      BY <2>1, <3>1
    <3>2. CASE n = 2
      BY <2>1, <3>2
    <3>3. QED
      BY <3>1, <3>2
  <2> HIDE DEF s, size
  <2>3. QED
    BY <1>3, <1>5, <2>2
<1> HIDE DEF s, size
<1>7. \A i \in DOMAIN s :
        s[i] = <<s[1][1] + (i - 1) \div n, Sound!Stereo(n)[1 + ((i - 1) % n)]>>
  BY <1>3, <1>4, <1>6 DEF At
<1>8. QED
  BY <1>2, <1>3, <1>7 DEF s

\* However mono and stereo pushes, the sound card and clears take turns, a frame a
\* browser gets is aligned and without a gap, and what the transcriber and the
\* sound card get is in order, no value of it mixed from two instants.
THEOREM SoundStaysAligned == Spec => []FramesAligned
<1> DEFINE Inv == scene = "sound" => SoundInv
<1>1. Init => Inv
  BY SoundInitial DEF Init
<1>2. Inv /\ [Next]_vars => Inv'
  <2> SUFFICES ASSUME Inv, [Next]_vars PROVE Inv'
    OBVIOUS
  <2>1. CASE SoundStep
    BY <2>1, SoundStepKeeps DEF SoundStep
  <2>2. CASE BandsStep \/ WindowsStep \/ FeedStep \/ RecStep \/ TrunkStep \/ InstallStep
    BY <2>2 DEF BandsStep, WindowsStep, FeedStep, RecStep, TrunkStep, InstallStep
  <2>3. CASE UNCHANGED vars
    BY <2>3 DEF vars, soundVars, SoundInv, SoundTypes, Waiting, Whole
  <2>4. QED
    BY <2>1, <2>2, <2>3 DEF Next
<1>3. Inv => FramesAligned
  <2> SUFFICES ASSUME SoundInv PROVE Sound!FramesAligned
    BY DEF FramesAligned
  <2>1. PICK c, p \in Nat : Waiting(c, p)
    BY DEF SoundInv
  <2>2. PICK n \in 1 .. 2 : \A k \in DOMAIN frames : Whole(frames[k], n)
    BY DEF SoundInv
  <2>3. Sound!OneInstantEach(heardRing) /\ Sound!OneInstantEach(sound)
    <3>1. PICK a \in Nat : Ordered(heardRing, a) /\ a <= MaxInstants
      BY <2>1, ServicesAssumption DEF SoundInv, SoundTypes, Waiting
    <3>2. PICK b \in Nat : Ordered(sound, b) /\ b <= MaxInstants
      BY <2>1, ServicesAssumption DEF SoundInv, SoundTypes, Waiting
    <3>3. QED
      BY <3>1, <3>2, OrderedIsEach
  <2>4. QED
    BY <2>2, <2>3, WholeIsAligned DEF Sound!FramesAligned
<1>4. QED
  BY <1>1, <1>2, <1>3, PTL DEF Spec

----------------------------------------------------------------------------
(* Samples of IQ: sequences that rise, and what becomes of their parts *)

IqType == Nat \X Nat

\* Of samples captured so far, in the order they were captured, all older than
\* those of t.
Upto(s, n) == s \in Seq(IqType) /\ \A i \in 1 .. Len(s) : \E k \in 1 .. n : s[i] = Feed!Sample(k)
Rising(s) == \A i, j \in 1 .. Len(s) : i < j => s[i][1] < s[j][1]
Before(s, t) == \A i \in 1 .. Len(s), j \in 1 .. Len(t) : s[i][1] < t[j][1]

\* w is a part of s, without a gap.
Piece(w, s) ==
    /\ w \in Seq(IqType)
    /\ \E m \in Nat : Len(w) + m <= Len(s) /\ \A i \in 1 .. Len(w) : w[i] = s[m + i]

LEMMA WithoutIs ==
    ASSUME NEW S, NEW s \in Seq(S), NEW n \in 0 .. Len(s)
    PROVE  /\ Feed!Without(s, n) \in Seq(S) /\ Len(Feed!Without(s, n)) = Len(s) - n
           /\ \A i \in 1 .. Len(s) - n : Feed!Without(s, n)[i] = s[n + i]
<1> DEFINE z == Len(s)
<1>1. z \in Nat /\ n \in 0 .. z /\ \A i \in n + 1 .. z : s[i] \in S
  BY LenProperties, ElementOfSeq
<1> HIDE DEF z
<1>2. n + 1 \in Int /\ z \in Int
  BY <1>1
<1> DEFINE w == SubSeq(s, n + 1, z)
<1>3. /\ w \in Seq(S) /\ Len(w) = IF n + 1 <= z THEN z - (n + 1) + 1 ELSE 0
      /\ \A i \in 1 .. z - (n + 1) + 1 : w[i] = s[n + 1 + i - 1]
  BY <1>1, <1>2, SubSeqProperties
<1> HIDE DEF w
<1>4. Len(w) = z - n /\ \A i \in 1 .. z - n : w[i] = s[n + i]
  <2>1. z - (n + 1) + 1 = z - n
    BY <1>1
  <2>2. \A i \in 1 .. z - n : n + 1 + i - 1 = n + i
    BY <1>1
  <2>3. Len(w) = z - n
    BY <1>1, <1>3
  <2>4. QED
    BY <1>3, <2>1, <2>2, <2>3
<1>5. QED
  BY <1>3, <1>4 DEF Feed!Without, w, z

LEMMA LeadingIs ==
    ASSUME NEW S, NEW s \in Seq(S), NEW n \in 0 .. Len(s)
    PROVE  /\ Feed!Leading(s, n) \in Seq(S) /\ Len(Feed!Leading(s, n)) = n
           /\ \A i \in 1 .. n : Feed!Leading(s, n)[i] = s[i]
<1> DEFINE z == Len(s)
<1>1. z \in Nat /\ n \in 0 .. z /\ \A i \in 1 .. n : s[i] \in S
  BY LenProperties, ElementOfSeq
<1> HIDE DEF z
<1>2. 1 \in Int /\ n \in Int
  BY <1>1
<1> DEFINE w == SubSeq(s, 1, n)
<1>3. /\ w \in Seq(S) /\ Len(w) = IF 1 <= n THEN n - 1 + 1 ELSE 0
      /\ \A i \in 1 .. n - 1 + 1 : w[i] = s[1 + i - 1]
  BY <1>1, <1>2, SubSeqProperties
<1> HIDE DEF w
<1>4. Len(w) = n /\ \A i \in 1 .. n : w[i] = s[i]
  <2>1. n - 1 + 1 = n /\ \A i \in 1 .. n : 1 + i - 1 = i
    BY <1>1
  <2>2. Len(w) = n
    BY <1>1, <1>3
  <2>3. QED
    BY <1>3, <2>1, <2>2
<1>5. QED
  BY <1>3, <1>4 DEF Feed!Leading, w

LEMMA WithoutIsPiece ==
    ASSUME NEW s \in Seq(IqType), NEW n \in 0 .. Len(s)
    PROVE  Piece(Feed!Without(s, n), s)
<1> DEFINE w == Feed!Without(s, n)
<1>1. /\ w \in Seq(IqType) /\ Len(w) = Len(s) - n
      /\ \A i \in 1 .. Len(s) - n : w[i] = s[n + i]
  BY WithoutIs
<1>2. Len(s) \in Nat
  BY LenProperties
<1> HIDE DEF w
<1>3. n \in Nat /\ Len(w) + n <= Len(s) /\ \A i \in 1 .. Len(w) : w[i] = s[n + i]
  BY <1>1, <1>2
<1>4. QED
  BY <1>1, <1>3 DEF Piece, w

LEMMA LeadingIsPiece ==
    ASSUME NEW s \in Seq(IqType), NEW n \in 0 .. Len(s)
    PROVE  Piece(Feed!Leading(s, n), s)
<1> DEFINE w == Feed!Leading(s, n)
<1>1. w \in Seq(IqType) /\ Len(w) = n /\ \A i \in 1 .. n : w[i] = s[i]
  BY LeadingIs
<1>2. Len(s) \in Nat
  BY LenProperties
<1> HIDE DEF w
<1>3. 0 \in Nat /\ Len(w) + 0 <= Len(s) /\ \A i \in 1 .. Len(w) : w[i] = s[0 + i]
  BY <1>1, <1>2
<1>4. QED
  BY <1>1, <1>3 DEF Piece, w

\* What holds of a sequence holds of its parts.
LEMMA PieceKeeps ==
    ASSUME NEW s \in Seq(IqType), NEW w, Piece(w, s)
    PROVE  /\ \A n : Upto(s, n) => Upto(w, n)
           /\ Rising(s) => Rising(w)
           /\ \A t : Before(s, t) => Before(w, t)
           /\ \A t : Before(t, s) => Before(t, w)
<1>1. PICK m \in Nat : Len(w) + m <= Len(s) /\ \A i \in 1 .. Len(w) : w[i] = s[m + i]
  BY DEF Piece
<1>2. w \in Seq(IqType) /\ Len(w) \in Nat /\ Len(s) \in Nat
  BY LenProperties DEF Piece
<1>3. \A i \in 1 .. Len(w) : m + i \in 1 .. Len(s) /\ w[i] = s[m + i]
  BY <1>1, <1>2
<1>4. \A i, j \in 1 .. Len(w) : i < j => m + i < m + j
  BY <1>1, <1>2
<1>5. \A n : Upto(s, n) => Upto(w, n)
  BY <1>2, <1>3 DEF Upto
<1>6. Rising(s) => Rising(w)
  BY <1>3, <1>4 DEF Rising
<1>7. \A t : Before(s, t) => Before(w, t)
  BY <1>3 DEF Before
<1>8. \A t : Before(t, s) => Before(t, w)
  BY <1>3 DEF Before
<1>9. QED
  BY <1>5, <1>6, <1>7, <1>8

\* What holds of two sequences one of which follows the other.
LEMMA JoinKeeps ==
    ASSUME NEW s \in Seq(IqType), NEW t \in Seq(IqType)
    PROVE  /\ s \o t \in Seq(IqType)
           /\ \A n : Upto(s, n) /\ Upto(t, n) => Upto(s \o t, n)
           /\ Rising(s) /\ Rising(t) /\ Before(s, t) => Rising(s \o t)
           /\ \A u : Before(s, u) /\ Before(t, u) => Before(s \o t, u)
           /\ \A u : Before(u, s) /\ Before(u, t) => Before(u, s \o t)
<1> DEFINE j == s \o t
           a == Len(s)
           b == Len(t)
<1>1. /\ j \in Seq(IqType) /\ Len(j) = a + b /\ a \in Nat /\ b \in Nat
      /\ \A i \in 1 .. a + b : j[i] = IF i <= a THEN s[i] ELSE t[i - a]
  BY ConcatProperties, LenProperties
<1> HIDE DEF j, a, b
<1>2. \A i \in 1 .. a + b : \/ i \in 1 .. a /\ j[i] = s[i]
                            \/ i - a \in 1 .. b /\ j[i] = t[i - a]
  BY <1>1
<1>3. \A i, k \in 1 .. a + b : i < k =>
          \/ i \in 1 .. a /\ k \in 1 .. a /\ j[i] = s[i] /\ j[k] = s[k]
          \/ i \in 1 .. a /\ k - a \in 1 .. b /\ j[i] = s[i] /\ j[k] = t[k - a]
          \/ i - a \in 1 .. b /\ k - a \in 1 .. b /\ i - a < k - a
             /\ j[i] = t[i - a] /\ j[k] = t[k - a]
  BY <1>1
<1>4. \A n : Upto(s, n) /\ Upto(t, n) => Upto(j, n)
  BY <1>1, <1>2 DEF Upto, a, b
<1>5. ASSUME Rising(s), Rising(t), Before(s, t) PROVE Rising(j)
  <2>1. /\ \A i, k \in 1 .. a : i < k => s[i][1] < s[k][1]
        /\ \A i, k \in 1 .. b : i < k => t[i][1] < t[k][1]
        /\ \A i \in 1 .. a, k \in 1 .. b : s[i][1] < t[k][1]
    BY <1>5 DEF Rising, Before, a, b
  <2>2. \A i, k \in 1 .. a + b : i < k => j[i][1] < j[k][1]
    BY <1>3, <2>1
  <2>3. QED
    BY <1>1, <2>2 DEF Rising
<1>6. \A u : Before(s, u) /\ Before(t, u) => Before(j, u)
  BY <1>1, <1>2 DEF Before, a, b
<1>7. \A u : Before(u, s) /\ Before(u, t) => Before(u, j)
  BY <1>1, <1>2 DEF Before, a, b
<1>8. QED
  BY <1>1, <1>4, <1>5, <1>6, <1>7 DEF j

LEMMA UptoLater ==
    ASSUME NEW s, NEW m \in Nat, NEW n \in Nat, m <= n, Upto(s, m)
    PROVE  Upto(s, n)
<1>1. \A k \in 1 .. m : k \in 1 .. n
  OBVIOUS
<1>2. QED
  BY <1>1 DEF Upto

\* A queue that takes samples is a part of what it held and what came, and no
\* longer than its capacity.
LEMMA IngestTakes ==
    ASSUME NEW q \in Seq(IqType), NEW s \in Seq(IqType)
    PROVE  /\ Piece(Feed!IngestPush(q, s), q \o s)
           /\ Len(Feed!IngestPush(q, s)) <= Capacity
<1> DEFINE j  == q \o s
           a  == Len(q)
           b  == Len(s)
           ov == Feed!Overflow(a, b)
           w  == Feed!IngestPush(q, s)
<1>1. /\ j \in Seq(IqType) /\ Len(j) = a + b /\ a \in Nat /\ b \in Nat
      /\ \A i \in 1 .. a + b : j[i] = IF i <= a THEN q[i] ELSE s[i - a]
  BY ConcatProperties, LenProperties
<1>2. ov = (IF a + b > Capacity THEN a + b - Capacity ELSE 0) /\ Capacity \in Nat \ {0}
  BY ServicesAssumption DEF Feed!Overflow
<1>3. w = IF ov >= a THEN Feed!Without(s, Feed!Lesser(ov, b)) ELSE Feed!Without(j, ov)
  BY DEF Feed!IngestPush
<1> HIDE DEF j, ov, w, a
<1>4. CASE ov >= a
  <2> DEFINE n == Feed!Lesser(ov, b)
  <2>1. n \in 0 .. b /\ b - n <= Capacity
    BY <1>1, <1>2, <1>4 DEF Feed!Lesser
  <2> HIDE DEF n
  <2>2. w \in Seq(IqType) /\ Len(w) = b - n /\ \A i \in 1 .. b - n : w[i] = s[n + i]
    BY <1>3, <1>4, <2>1, WithoutIs DEF n
  <2>3. a + n \in Nat /\ Len(w) + (a + n) <= Len(j)
    BY <1>1, <2>1, <2>2
  <2>4. ASSUME NEW i \in 1 .. b - n PROVE w[i] = j[a + n + i]
    <3> DEFINE x == a + n + i
    <3>1. x \in 1 .. a + b /\ ~ (x <= a) /\ x - a = n + i
      BY <1>1, <2>1
    <3> HIDE DEF x
    <3>2. j[x] = s[n + i]
      BY <1>1, <3>1
    <3>3. QED
      BY <2>2, <3>2 DEF x
  <2> DEFINE k == a + n
  <2>5. k \in Nat /\ Len(w) + k <= Len(j) /\ \A i \in 1 .. Len(w) : w[i] = j[k + i]
    BY <2>2, <2>3, <2>4
  <2> HIDE DEF k
  <2>6. Piece(w, j)
    BY <2>2, <2>5 DEF Piece
  <2>7. Len(w) <= Capacity
    BY <2>1, <2>2
  <2>8. QED
    BY <2>6, <2>7 DEF j, w
<1>5. CASE ~ (ov >= a)
  <2>1. ov \in 0 .. Len(j) /\ Len(j) - ov <= Capacity
    BY <1>1, <1>2, <1>5
  <2>2. w = Feed!Without(j, ov)
    BY <1>3, <1>5
  <2>3. Len(w) = Len(j) - ov
    BY <1>1, <2>1, <2>2, WithoutIs
  <2>4. Piece(w, j)
    BY <1>1, <2>1, <2>2, WithoutIsPiece
  <2>5. Len(w) <= Capacity
    BY <2>1, <2>3
  <2>6. QED
    BY <2>4, <2>5 DEF j, w
<1>6. QED
  BY <1>4, <1>5

\* Samples of consecutive instants, from the one after a on.
Span(a, n) == [i \in 1 .. n |-> Feed!Sample(a + i)]

LEMMA SampleIs ==
    ASSUME NEW k \in Nat
    PROVE  Feed!Sample(k) \in IqType /\ Feed!Sample(k)[1] = 2 * k /\ Feed!Sample(k)[2] = 2 * k + 1
<1>1. Feed!Sample(k) = <<2 * k, 2 * k + 1>>
  BY DEF Feed!Sample, Feed!I, Feed!Q
<1>2. 2 * k \in Nat /\ 2 * k + 1 \in Nat
  OBVIOUS
<1>3. QED
  BY <1>1, <1>2 DEF IqType

LEMMA SpanIs ==
    ASSUME NEW a \in Nat, NEW n \in Nat
    PROVE  /\ Span(a, n) \in Seq(IqType) /\ Len(Span(a, n)) = n
           /\ \A i \in 1 .. n : /\ Span(a, n)[i] = Feed!Sample(a + i)
                                /\ Span(a, n)[i][1] = 2 * (a + i)
<1> DEFINE s == Span(a, n)
<1>1. \A i \in 1 .. n : a + i \in Nat
  OBVIOUS
<1>2. \A i \in 1 .. n : Feed!Sample(a + i) \in IqType /\ Feed!Sample(a + i)[1] = 2 * (a + i)
  BY <1>1, SampleIs
<1>3. s = [i \in 1 .. n |-> Feed!Sample(a + i)]
  BY DEF Span
<1>4. s \in Seq(IqType)
  BY <1>2, <1>3, IsASeq
<1>5. Len(s) = n
  BY <1>3, <1>4, LenProperties
<1>6. QED
  BY <1>2, <1>3, <1>4, <1>5

LEMMA SpanRises ==
    ASSUME NEW a \in Nat, NEW n \in Nat, NEW m \in Nat, a + n <= m
    PROVE  Upto(Span(a, n), m) /\ Rising(Span(a, n))
<1>1. /\ Span(a, n) \in Seq(IqType) /\ Len(Span(a, n)) = n
      /\ \A i \in 1 .. n : /\ Span(a, n)[i] = Feed!Sample(a + i)
                           /\ Span(a, n)[i][1] = 2 * (a + i)
  BY SpanIs
<1>2. \A i \in 1 .. n : a + i \in 1 .. m
  OBVIOUS
<1>3. \A i, j \in 1 .. n : i < j => 2 * (a + i) < 2 * (a + j)
  OBVIOUS
<1>4. Rising(Span(a, n))
  BY <1>1, <1>3 DEF Rising
<1>5. Upto(Span(a, n), m)
  BY <1>1, <1>2 DEF Upto
<1>6. QED
  BY <1>4, <1>5

\* Every sample captured by then comes before every later one.
LEMMA UptoBefore ==
    ASSUME NEW n \in Nat, NEW s, Upto(s, n), NEW t,
           \A i \in 1 .. Len(t) : t[i][1] \in Nat /\ t[i][1] > 2 * n
    PROVE  Before(s, t)
<1>1. ASSUME NEW i \in 1 .. Len(s) PROVE s[i][1] \in Nat /\ s[i][1] <= 2 * n
  <2>1. PICK k \in 1 .. n : s[i] = Feed!Sample(k)
    BY DEF Upto
  <2>2. s[i][1] = 2 * k
    BY <2>1, SampleIs
  <2>3. QED
    BY <2>2
<1>2. s \in Seq(IqType)
  BY DEF Upto
<1>3. ASSUME NEW i \in 1 .. Len(s), NEW j \in 1 .. Len(t) PROVE s[i][1] < t[j][1]
  BY <1>1
<1>4. QED
  BY <1>3 DEF Before

LEMMA SpansJoin ==
    ASSUME NEW a \in Nat, NEW n \in Nat, NEW m \in Nat
    PROVE  Span(a, n) \o Span(a + n, m) = Span(a, n + m)
<1> DEFINE s == Span(a, n)
           t == Span(a + n, m)
           u == Span(a, n + m)
<1>1. /\ s \in Seq(IqType) /\ Len(s) = n /\ \A i \in 1 .. n : s[i] = Feed!Sample(a + i)
      /\ u \in Seq(IqType) /\ Len(u) = n + m
      /\ \A i \in 1 .. n + m : u[i] = Feed!Sample(a + i)
  <2>1. n + m \in Nat
    OBVIOUS
  <2>2. QED
    BY <2>1, SpanIs
<1>2. /\ t \in Seq(IqType) /\ Len(t) = m
      /\ \A i \in 1 .. m : t[i] = Feed!Sample(a + n + i)
  <2>1. a + n \in Nat
    OBVIOUS
  <2>2. QED
    BY <2>1, SpanIs
<1> HIDE DEF s, t, u
<1>3. /\ s \o t \in Seq(IqType) /\ Len(s \o t) = n + m
      /\ \A i \in 1 .. n + m : (s \o t)[i] = IF i <= n THEN s[i] ELSE t[i - n]
  BY <1>1, <1>2, ConcatProperties
<1>4. ASSUME NEW i \in 1 .. n + m PROVE (s \o t)[i] = u[i]
  <2>1. CASE i <= n
    BY <1>1, <1>3, <2>1
  <2>2. CASE ~ (i <= n)
    <3>1. i - n \in 1 .. m /\ a + n + (i - n) = a + i
      BY <2>2
    <3>2. QED
      BY <1>1, <1>2, <1>3, <2>2, <3>1
  <2>3. QED
    BY <2>1, <2>2
<1>5. s \o t = u
  BY <1>1, <1>3, <1>4, SeqEqual
<1>6. QED
  BY <1>5 DEF s, t, u

LEMMA SpanCut ==
    ASSUME NEW a \in Nat, NEW n \in Nat, NEW m \in 0 .. n
    PROVE  /\ Feed!Without(Span(a, n), m) = Span(a + m, n - m)
           /\ Feed!Leading(Span(a, n), m) = Span(a, m)
<1> DEFINE s == Span(a, n)
           t == Span(a + m, n - m)
           l == Span(a, m)
           w == Feed!Without(s, m)
           h == Feed!Leading(s, m)
<1>1. /\ s \in Seq(IqType) /\ Len(s) = n /\ \A i \in 1 .. n : s[i] = Feed!Sample(a + i)
      /\ l \in Seq(IqType) /\ Len(l) = m /\ \A i \in 1 .. m : l[i] = Feed!Sample(a + i)
  <2>1. m \in Nat
    OBVIOUS
  <2>2. QED
    BY <2>1, SpanIs
<1>2. /\ t \in Seq(IqType) /\ Len(t) = n - m
      /\ \A i \in 1 .. n - m : t[i] = Feed!Sample(a + m + i)
  <2>1. a + m \in Nat /\ n - m \in Nat
    OBVIOUS
  <2>2. QED
    BY <2>1, SpanIs
<1> HIDE DEF s, t, l
<1>3. /\ w \in Seq(IqType) /\ Len(w) = n - m /\ \A i \in 1 .. n - m : w[i] = s[m + i]
      /\ h \in Seq(IqType) /\ Len(h) = m /\ \A i \in 1 .. m : h[i] = s[i]
  <2>1. s \in Seq(IqType) /\ m \in 0 .. Len(s)
    BY <1>1
  <2>2. /\ w \in Seq(IqType) /\ Len(w) = Len(s) - m
        /\ \A i \in 1 .. Len(s) - m : w[i] = s[m + i]
    BY <2>1, WithoutIs
  <2>3. h \in Seq(IqType) /\ Len(h) = m /\ \A i \in 1 .. m : h[i] = s[i]
    BY <2>1, LeadingIs
  <2> HIDE DEF w, h
  <2>4. QED
    BY <1>1, <2>2, <2>3
<1> HIDE DEF w, h
<1>4. \A i \in 1 .. n - m : m + i \in 1 .. n /\ a + (m + i) = a + m + i
  OBVIOUS
<1>5. w = t
  <2>1. \A i \in 1 .. n - m : w[i] = t[i]
    BY <1>1, <1>2, <1>3, <1>4
  <2>2. QED
    BY <1>2, <1>3, <2>1, SeqEqual
<1>6. h = l
  <2>1. \A i \in 1 .. m : h[i] = l[i]
    BY <1>1, <1>3
  <2>2. QED
    BY <1>1, <1>3, <2>1, SeqEqual
<1>7. QED
  BY <1>5, <1>6 DEF w, h, t, l, s

LEMMA SpanContiguous ==
    ASSUME NEW a \in Nat, NEW n \in Nat
    PROVE  Feed!Contiguous(Span(a, n))
<1> DEFINE s == Span(a, n)
<1>1. /\ DOMAIN s = 1 .. n
      /\ \A i \in 1 .. n : s[i] = Feed!Sample(a + i) /\ s[i][1] = 2 * (a + i)
  BY SpanIs, LenProperties
<1> HIDE DEF s
<1>2. ASSUME NEW i \in 1 .. n PROVE s[i] = Feed!Sample(s[1][1] \div 2 + i - 1)
  <2>1. 1 \in 1 .. n
    OBVIOUS
  <2>2. s[1][1] = 2 * (a + 1)
    BY <1>1, <2>1
  <2>3. s[1][1] \div 2 + i - 1 = a + i
    BY <2>2
  <2>4. QED
    BY <1>1, <2>3
<1>3. QED
  BY <1>1, <1>2 DEF Feed!Contiguous, s
----------------------------------------------------------------------------
(* What a feed keeps *)

\* A packet as it leaves or arrives; one that parses carries captured samples.
PacketType == [magic : {"PSIQ", "other"}, version : {1}, rate : {1}, center : {1},
               count : Nat, payload : Seq(IqType)]
Carries(p, n) ==
    Feed!ParsesPsiq(p) =>
        /\ p.count = Len(p.payload) /\ p.count > 0
        /\ Upto(p.payload, n) /\ Rising(p.payload)

\* What is under way was captured, and comes after what arrived and in order.
Underway(f, n) == f \in Seq(PacketType) /\ \A i \in 1 .. Len(f) : Carries(f[i], n)
Follows(f, s) == \A i \in 1 .. Len(f) : Feed!ParsesPsiq(f[i]) => Before(s, f[i].payload)
InTurn(f) ==
    \A i, j \in 1 .. Len(f) :
        i < j /\ Feed!ParsesPsiq(f[i]) /\ Feed!ParsesPsiq(f[j]) => Before(f[i].payload, f[j].payload)

\* The bytes of the samples after a, n of them.
Stream(a, n) ==
    [i \in 1 .. 2 * n |-> IF i % 2 = 1 THEN Feed!I(a + (i + 1) \div 2) ELSE Feed!Q(a + i \div 2)]

\* The odd byte and what is under way are the stream of the samples after a,
\* and all that was decoded is older.
Streams(a) ==
    /\ bytes \in Seq(Nat) /\ flight \in Seq(Nat) /\ Len(bytes) <= 1
    /\ bytes \o flight = Stream(a, made - a)
    /\ Upto(got, a) /\ Upto(ingest, a)

\* The ring ends with the newest sample; the block handed out has no gap and, from
\* a ring that hands out the oldest, is older than what the ring holds.
RingType == [queue : Seq(IqType), pushed : Nat, taken : Nat, dropped : Nat, skipped : Nat]
Rings(k, a, n) ==
    /\ ring \in RingType
    /\ ring.pushed = ring.taken + ring.dropped + ring.skipped + k
    /\ k <= made /\ k <= Capacity /\ ring.queue = Span(made - k, k)
    /\ a + n <= made /\ got = Span(a, n)
    /\ feed = "ring" => a + n <= made - k

FeedTypes ==
    /\ made \in Nat /\ swapped \in BOOLEAN
    /\ Upto(got, made) /\ Upto(ingest, made) /\ Len(ingest) <= Capacity

FeedInv ==
    /\ FeedTypes
    /\ swapped => feed = "psiq"
    /\ ~ swapped => Rising(got) /\ Rising(ingest) /\ Before(got, ingest)
    /\ feed = "psiq" => Underway(flight, made)
    /\ feed = "psiq" /\ ~ swapped => Follows(flight, got) /\ Follows(flight, ingest) /\ InTurn(flight)
    /\ feed = "rtl_tcp" => \E a \in 0 .. made : Streams(a)
    /\ IF feed \in {"ring", "latest"}
       THEN ingest = <<>> /\ \E k, a, n \in 0 .. made : Rings(k, a, n)
       ELSE ring = Feed!NewRing

LEMMA FeedConstants ==
    /\ Capacity \in Nat \ {0} /\ MaxPayload \in Nat \ {0} /\ BlockSize \in Nat /\ ReadSize \in Nat
  BY ServicesAssumption

LEMMA BlockIs == Feed!Block = Span(made, BlockSize)
  BY DEF Feed!Block, Span

LEMMA NothingHeard ==
    ASSUME NEW n \in Nat
    PROVE  /\ Upto(<<>>, n) /\ Rising(<<>>)
           /\ \A t : Before(<<>>, t) /\ Before(t, <<>>)
  BY EmptySeq DEF Upto, Rising, Before

LEMMA FeedInitial == Feed!FeedInit => FeedInv
<1> SUFFICES ASSUME Feed!FeedInit PROVE FeedInv
  OBVIOUS
<1>1. /\ made = 0 /\ flight = <<>> /\ ingest = <<>> /\ bytes = <<>>
      /\ ring = Feed!NewRing /\ got = <<>> /\ swapped = FALSE
  BY DEF Feed!FeedInit
<1>2. FeedTypes
  <2>1. Len(<<>>) = 0 /\ 0 <= Capacity
    BY FeedConstants, EmptySeq
  <2>2. QED
    BY <1>1, <2>1, NothingHeard DEF FeedTypes
<1>3. Rising(got) /\ Rising(ingest) /\ Before(got, ingest)
  BY <1>1, NothingHeard
<1>4. Underway(flight, made) /\ Follows(flight, got) /\ Follows(flight, ingest) /\ InTurn(flight)
  <2>1. <<>> \in Seq(PacketType) /\ Len(<<>>) = 0
    BY EmptySeq
  <2>2. QED
    BY <1>1, <2>1 DEF Underway, Follows, InTurn
<1>5. Streams(0)
  <2>1. <<>> \in Seq(Nat) /\ Len(<<>>) = 0
    BY EmptySeq
  <2>2. Stream(0, made - 0) = <<>>
    BY <1>1 DEF Stream
  <2>3. <<>> \o <<>> = <<>>
    BY <2>1
  <2>4. QED
    BY <1>1, <2>1, <2>2, <2>3, NothingHeard DEF Streams
<1>6. Rings(0, 0, 0)
  <2>1. Span(0, 0) = <<>> /\ <<>> \in Seq(IqType)
    BY EmptySeq DEF Span
  <2>2. /\ ring = [queue |-> <<>>, pushed |-> 0, taken |-> 0, dropped |-> 0, skipped |-> 0]
    BY <1>1 DEF Feed!NewRing
  <2>3. QED
    BY <1>1, <2>1, <2>2, FeedConstants DEF Rings, RingType
<1>7. 0 \in 0 .. made
  BY <1>1
<1>8. QED
  BY <1>1, <1>2, <1>3, <1>4, <1>5, <1>6, <1>7 DEF FeedInv

----------------------------------------------------------------------------
(* The ring *)

LEMMA SumIsNat == \A x, y \in Nat : x + y \in Nat
  OBVIOUS

LEMMA NothingSpans == ASSUME NEW a PROVE Span(a, 0) = <<>>
  BY DEF Span

\* The books of a ring that takes samples.
LEMMA PushBooks ==
    ASSUME NEW r \in RingType, NEW s \in Seq(IqType), NEW latest \in BOOLEAN,
           NEW ov \in Nat, ov = Feed!Overflow(Len(r.queue), Len(s)),
           NEW q \in Seq(IqType), q = Feed!Without(r.queue \o s, ov)
    PROVE  LET p == Feed!Push(r, s, latest)
           IN  /\ p \in RingType /\ p.queue = q
               /\ p.pushed = r.pushed + Len(s) /\ p.taken = r.taken
               /\ p.dropped + p.skipped = r.dropped + r.skipped + ov
<1> DEFINE p == Feed!Push(r, s, latest)
           b == Len(s)
<1>1. b \in Nat
  BY LenProperties
<1>2. p = [r EXCEPT !.queue = q, !.pushed = r.pushed + b,
                    !.skipped = IF latest THEN r.skipped + ov ELSE r.skipped,
                    !.dropped = IF latest THEN r.dropped ELSE r.dropped + ov]
  BY DEF Feed!Push
<1>3. /\ r.pushed \in Nat /\ r.taken \in Nat /\ r.dropped \in Nat /\ r.skipped \in Nat
  BY DEF RingType
<1> HIDE DEF p, b
<1>4. CASE latest
  <2>1. p = [r EXCEPT !.queue = q, !.pushed = r.pushed + b,
                      !.skipped = r.skipped + ov, !.dropped = r.dropped]
    BY <1>2, <1>4
  <2>2. /\ p.queue = q /\ p.pushed = r.pushed + b /\ p.taken = r.taken
        /\ p.skipped = r.skipped + ov /\ p.dropped = r.dropped
    BY <2>1 DEF RingType
  <2>3. p \in RingType
    <3>1. r.pushed + b \in Nat /\ r.skipped + ov \in Nat
      BY <1>1, <1>3, SumIsNat, Zenon
    <3>2. QED
      BY <1>3, <2>1, <3>1 DEF RingType
  <2>4. p.dropped + p.skipped = r.dropped + r.skipped + ov
    BY <1>3, <2>2
  <2>5. QED
    BY <2>2, <2>3, <2>4 DEF p, b
<1>5. CASE ~ latest
  <2>1. p = [r EXCEPT !.queue = q, !.pushed = r.pushed + b,
                      !.skipped = r.skipped, !.dropped = r.dropped + ov]
    BY <1>2, <1>5
  <2>2. /\ p.queue = q /\ p.pushed = r.pushed + b /\ p.taken = r.taken
        /\ p.skipped = r.skipped /\ p.dropped = r.dropped + ov
    BY <2>1 DEF RingType
  <2>3. p \in RingType
    <3>1. r.pushed + b \in Nat /\ r.dropped + ov \in Nat
      BY <1>1, <1>3, SumIsNat, Zenon
    <3>2. QED
      BY <1>3, <2>1, <3>1 DEF RingType
  <2>4. p.dropped + p.skipped = r.dropped + r.skipped + ov
    BY <1>3, <2>2
  <2>5. QED
    BY <2>2, <2>3, <2>4 DEF p, b
<1>6. QED
  BY <1>4, <1>5

LEMMA BooksBalance ==
    ASSUME NEW p \in Nat, NEW t \in Nat, NEW d \in Nat, NEW s \in Nat, NEW k \in Nat,
           NEW d2 \in Nat, NEW s2 \in Nat, NEW b \in Nat, NEW ov \in Nat, NEW m \in Nat,
           p = t + d + s + k, d2 + s2 = d + s + ov, m = k + b - ov
    PROVE  p + b = t + d2 + s2 + m
  OBVIOUS

LEMMA BooksMove ==
    ASSUME NEW p \in Nat, NEW t \in Nat, NEW d \in Nat, NEW s \in Nat, NEW k \in Nat,
           NEW x \in Nat, x <= k, p = t + d + s + k
    PROVE  p = (t + x) + d + (s + (k - x)) + 0
  OBVIOUS

LEMMA RingTakes ==
    ASSUME FeedInv, Feed!Captures, feed \in {"ring", "latest"}
    PROVE  FeedInv'
<1>1. PICK k, a, n \in 0 .. made : Rings(k, a, n)
  BY DEF FeedInv
<1> DEFINE ov == Feed!Overflow(k, BlockSize)
           m  == k + BlockSize - ov
<1>2. /\ made' = made + BlockSize
      /\ ring' = Feed!Push(ring, Feed!Block, feed = "latest")
      /\ UNCHANGED <<feed, ingest, got, swapped>>
  BY DEF Feed!Captures
<1>3. made \in Nat /\ BlockSize \in Nat /\ Capacity \in Nat /\ k \in Nat /\ k <= made /\ k <= Capacity
  BY <1>1, FeedConstants DEF FeedInv, FeedTypes, Rings
<1>4. /\ ov \in 0 .. k + BlockSize /\ m \in Nat /\ m <= Capacity
      /\ ov = Feed!Overflow(k, BlockSize) /\ m = k + BlockSize - ov
  BY <1>3 DEF Feed!Overflow
<1> HIDE DEF ov, m
<1>5. Len(ring.queue) = k /\ Len(Feed!Block) = BlockSize
  <2>1. made - k \in Nat
    BY <1>3
  <2>2. QED
    BY <1>1, <1>3, <2>1, SpanIs, BlockIs DEF Rings
<1>6. Feed!Without(ring.queue \o Feed!Block, ov) = Span(made' - m, m)
  <2> DEFINE b == made - k
             e == k + BlockSize
  <2>1. b \in Nat /\ b + k = made /\ e \in Nat
    BY <1>3
  <2>2. Span(b, k) \o Span(made, BlockSize) = Span(b, e)
    <3> HIDE DEF b
    <3>1. b \in Nat /\ k \in Nat /\ BlockSize \in Nat
      BY <1>3, <2>1
    <3>2. Span(b, k) \o Span(b + k, BlockSize) = Span(b, k + BlockSize)
      BY <3>1, SpansJoin
    <3>3. QED
      BY <2>1, <3>2
  <2>3. ring.queue \o Feed!Block = Span(b, e)
    BY <1>1, <2>2, BlockIs DEF Rings
  <2>4. /\ b \in Nat /\ e \in Nat /\ ov \in 0 .. e /\ ring.queue \o Feed!Block = Span(b, e)
        /\ b + ov = made' - m /\ e - ov = m
    <3>1. b + ov = made' - m /\ e - ov = m
      BY <1>2, <1>3, <1>4
    <3>2. b \in Nat /\ e \in Nat /\ ov \in 0 .. e
      BY <1>4, <2>1
    <3>3. ring.queue \o Feed!Block = Span(b, e)
      BY <2>3
    <3>4. QED
      BY <3>1, <3>2, <3>3
  <2> HIDE DEF b, e
  <2>5. Feed!Without(Span(b, e), ov) = Span(b + ov, e - ov)
    BY <2>4, SpanCut
  <2>6. QED
    BY <2>4, <2>5
<1>7. /\ ring' \in RingType /\ ring'.queue = Span(made' - m, m)
      /\ ring'.pushed = ring'.taken + ring'.dropped + ring'.skipped + m
  <2> DEFINE q == Feed!Without(ring.queue \o Feed!Block, ov)
             r == ring'
  <2>1. q = Span(made' - m, m) /\ q \in Seq(IqType)
    <3>1. made' - m \in Nat
      BY <1>2, <1>3, <1>4
    <3>2. QED
      BY <1>4, <1>6, <3>1, SpanIs
  <2>2. /\ ring \in RingType /\ ring.pushed = ring.taken + ring.dropped + ring.skipped + k
        /\ ring.pushed \in Nat /\ ring.taken \in Nat /\ ring.dropped \in Nat
        /\ ring.skipped \in Nat
    BY <1>1 DEF Rings, RingType
  <2>3. ov \in Nat /\ m = k + BlockSize - ov /\ Feed!Block \in Seq(IqType)
    <3>1. Span(made, BlockSize) \in Seq(IqType)
      BY <1>3, SpanIs
    <3>2. ov \in Nat
      BY <1>3, <1>4
    <3>3. QED
      BY <1>4, <3>1, <3>2, BlockIs
  <2>4. /\ r \in RingType /\ r.queue = q
        /\ r.pushed = ring.pushed + BlockSize /\ r.taken = ring.taken
        /\ r.dropped + r.skipped = ring.dropped + ring.skipped + ov
    <3> DEFINE latest == feed = "latest"
               block  == Feed!Block
    <3>1. latest \in BOOLEAN /\ r = Feed!Push(ring, block, latest)
      BY <1>2
    <3>2. block \in Seq(IqType) /\ Len(block) = BlockSize /\ Len(ring.queue) = k
      BY <1>5, <2>3
    <3>3. ov = Feed!Overflow(Len(ring.queue), Len(block)) /\ q = Feed!Without(ring.queue \o block, ov)
      BY <1>4, <3>2
    <3>4. q \in Seq(IqType) /\ ring \in RingType /\ ov \in Nat
      BY <2>1, <2>2, <2>3
    <3> HIDE DEF latest, block, q, r
    <3>5. /\ r \in RingType /\ r.queue = q
          /\ r.pushed = ring.pushed + Len(block) /\ r.taken = ring.taken
          /\ r.dropped + r.skipped = ring.dropped + ring.skipped + ov
      BY <3>1, <3>2, <3>3, <3>4, PushBooks
    <3>6. QED
      BY <3>2, <3>5
  <2> HIDE DEF q, r
  <2>5. r.pushed \in Nat /\ r.taken \in Nat /\ r.dropped \in Nat /\ r.skipped \in Nat
    BY <2>4 DEF RingType
  <2>6. r.pushed = r.taken + r.dropped + r.skipped + m
    <3> DEFINE p == ring.pushed
               d == ring.dropped
               s == ring.skipped
               t == ring.taken
               d2 == r.dropped
               s2 == r.skipped
    <3>1. /\ p \in Nat /\ t \in Nat /\ d \in Nat /\ s \in Nat /\ d2 \in Nat /\ s2 \in Nat
          /\ p = t + d + s + k /\ d2 + s2 = d + s + ov
          /\ r.pushed = p + BlockSize /\ r.taken = t
      BY <2>2, <2>4, <2>5
    <3>2. m \in Nat /\ k \in Nat /\ BlockSize \in Nat /\ ov \in Nat /\ m = k + BlockSize - ov
      BY <1>3, <1>4, <2>3
    <3> HIDE DEF p, d, s, t, d2, s2
    <3>3. p + BlockSize = t + d2 + s2 + m
      BY <3>1, <3>2, BooksBalance
    <3>4. QED
      BY <3>1, <3>3 DEF d2, s2
  <2>7. QED
    BY <2>1, <2>4, <2>6 DEF r
<1>8. m \in 0 .. made' /\ a \in 0 .. made' /\ n \in 0 .. made' /\ made' \in Nat
  BY <1>2, <1>3, <1>4
<1>9. Rings(m, a, n)'
  <2>1. a + n <= made' /\ m <= made' /\ (feed = "ring" => a + n <= made' - m)
    BY <1>1, <1>2, <1>3, <1>4 DEF Rings
  <2>2. got' = Span(a, n)
    BY <1>1, <1>2 DEF Rings
  <2>3. QED
    BY <1>2, <1>4, <1>7, <2>1, <2>2 DEF Rings, RingType, Span, IqType, Feed!Sample, Feed!I, Feed!Q
<1>10. FeedTypes'
  <2>1. Upto(got, made') /\ Upto(ingest, made')
    BY <1>2, <1>3, <1>8, UptoLater DEF FeedInv, FeedTypes
  <2>2. QED
    BY <1>2, <1>8, <2>1 DEF FeedInv, FeedTypes, Upto
<1>11. (\E h, b, c \in 0 .. made : Rings(h, b, c))'
  BY <1>8, <1>9
<1>12. QED
  BY <1>2, <1>10, <1>11 DEF FeedInv, Rising, Before

\* A step of the ring's reader keeps the rest.
LEMMA RingReaderKeeps ==
    ASSUME FeedInv, feed \in {"ring", "latest"}, UNCHANGED <<feed, made, ingest, swapped>>,
           NEW k \in 0 .. made, NEW a \in 0 .. made, NEW n \in 0 .. made,
           ring' \in RingType, ring'.queue = Span(made - k, k),
           ring'.pushed = ring'.taken + ring'.dropped + ring'.skipped + k, k <= Capacity,
           got' = Span(a, n), a + n <= made, feed = "ring" => a + n <= made - k
    PROVE  FeedInv'
<1>1. made \in Nat /\ a \in Nat /\ n \in Nat /\ ingest = <<>> /\ ~ swapped
  BY DEF FeedInv, FeedTypes
<1>2. Rings(k, a, n)'
  BY DEF Rings, RingType, Span, IqType, Feed!Sample, Feed!I, Feed!Q
<1>3. Upto(got', made) /\ Rising(got')
  BY <1>1, SpanRises
<1>4. (\E h, b, c \in 0 .. made : Rings(h, b, c))'
  BY <1>2
<1>5. FeedTypes'
  BY <1>1, <1>3 DEF FeedInv, FeedTypes, Upto
<1>6. Before(got', <<>>) /\ Rising(<<>>)
  BY <1>1, NothingHeard
<1>7. QED
  BY <1>1, <1>3, <1>4, <1>5, <1>6 DEF FeedInv, Rising, Before

LEMMA RingGives == ASSUME FeedInv, Feed!Takes \/ Feed!Looks PROVE FeedInv'
<1>1. feed \in {"ring", "latest"} /\ UNCHANGED <<feed, made, ingest, swapped>>
  BY DEF Feed!Takes, Feed!Looks
<1>2. PICK k, a, n \in 0 .. made : Rings(k, a, n)
  BY <1>1 DEF FeedInv
<1> DEFINE b == made - k
<1>3. /\ made \in Nat /\ k \in Nat /\ k <= made /\ k <= Capacity /\ b \in Nat /\ b + k = made
      /\ ReadSize \in Nat /\ Capacity \in Nat
  BY <1>2, FeedConstants DEF FeedInv, FeedTypes, Rings
<1>4. /\ ring \in RingType /\ ring.queue = Span(b, k) /\ Len(ring.queue) = k
      /\ ring.pushed = ring.taken + ring.dropped + ring.skipped + k
  <2>1. /\ ring \in RingType /\ ring.queue = Span(b, k)
        /\ ring.pushed = ring.taken + ring.dropped + ring.skipped + k
    BY <1>2 DEF Rings
  <2>2. Len(Span(b, k)) = k
    BY <1>3, SpanIs
  <2>3. QED
    BY <2>1, <2>2
<1>5. /\ ring.pushed \in Nat /\ ring.taken \in Nat /\ ring.dropped \in Nat /\ ring.skipped \in Nat
  BY <1>4 DEF RingType
<1> HIDE DEF b
<1>6. CASE Feed!Takes /\ feed = "ring"
  <2>1. /\ ReadSize <= k /\ got' = Feed!Leading(ring.queue, ReadSize)
        /\ ring' = Feed!TakeExact(ring, ReadSize)
    BY <1>4, <1>6 DEF Feed!Takes, Feed!ExactFrame
  <2> DEFINE q == Feed!Without(ring.queue, ReadSize)
             h == k - ReadSize
             c == b + ReadSize
  <2>2. h \in 0 .. made /\ b \in 0 .. made /\ ReadSize \in 0 .. made /\ c \in Nat /\ h \in Nat
        /\ c = made - h /\ ReadSize \in 0 .. k
    BY <1>3, <2>1
  <2>3. q = Span(c, h) /\ got' = Span(b, ReadSize)
    BY <1>3, <1>4, <2>1, <2>2, SpanCut
  <2>4. ring' = [ring EXCEPT !.queue = q, !.taken = ring.taken + ReadSize]
    <3>1. ~ (Len(ring.queue) < ReadSize)
      BY <1>3, <1>4, <2>1
    <3>2. QED
      BY <2>1, <3>1 DEF Feed!TakeExact
  <2>5. Span(c, h) \in Seq(IqType)
    BY <2>2, SpanIs
  <2>6. ring.pushed = ring.taken + ReadSize + ring.dropped + ring.skipped + h
    BY <1>3, <1>4, <1>5, <2>1
  <2>7. ring.taken + ReadSize \in Nat /\ h <= Capacity /\ b + ReadSize <= made
    BY <1>3, <1>5, <2>1
  <2> HIDE DEF q, h, c
  <2>8. /\ ring'.queue = q /\ ring'.taken = ring.taken + ReadSize /\ ring'.pushed = ring.pushed
        /\ ring'.dropped = ring.dropped /\ ring'.skipped = ring.skipped /\ ring' \in RingType
    BY <1>4, <2>3, <2>4, <2>5, <2>7 DEF RingType
  <2>9. /\ ring'.queue = Span(made - h, h)
        /\ ring'.pushed = ring'.taken + ring'.dropped + ring'.skipped + h
    BY <1>3, <1>5, <2>2, <2>3, <2>6, <2>7, <2>8
  <2>10. b + ReadSize <= made - h
    BY <1>3, <2>2 DEF c
  <2>11. QED
    BY <1>1, <2>2, <2>3, <2>7, <2>8, <2>9, <2>10, RingReaderKeeps
<1>7. CASE Feed!Takes /\ feed = "latest"
  <2>1. /\ ReadSize <= k /\ got' = Feed!Without(ring.queue, k - ReadSize)
        /\ ring' = Feed!TakeLatestExact(ring, ReadSize)
    BY <1>4, <1>7 DEF Feed!Takes, Feed!LatestFrame
  <2> DEFINE h == k - ReadSize
             c == b + h
  <2>2. h \in 0 .. k /\ h \in Nat /\ c \in 0 .. made /\ ReadSize \in 0 .. made /\ k - h = ReadSize
        /\ c + ReadSize <= made
    BY <1>3, <2>1
  <2>3. got' = Span(c, ReadSize)
    BY <1>3, <1>4, <2>1, <2>2, SpanCut
  <2>4. ring' = [ring EXCEPT !.queue = <<>>, !.taken = ring.taken + ReadSize,
                             !.skipped = ring.skipped + h]
    <3>1. ~ (Len(ring.queue) < ReadSize) /\ Len(ring.queue) - ReadSize = h
      BY <1>3, <1>4, <2>1
    <3> HIDE DEF h
    <3>2. QED
      BY <2>1, <3>1 DEF Feed!TakeLatestExact
  <2>5. <<>> \in Seq(IqType) /\ <<>> = Span(made - 0, 0)
    BY EmptySeq, NothingSpans
  <2>6. ring.pushed = (ring.taken + ReadSize) + ring.dropped + (ring.skipped + h) + 0
    <3>1. k \in Nat /\ ReadSize \in Nat /\ ReadSize <= k
      BY <1>3, <2>1
    <3>2. ring.pushed = ring.taken + ring.dropped + ring.skipped + k
      BY <1>4
    <3>3. QED
      BY <1>5, <3>1, <3>2, BooksMove
  <2>7. ring.taken + ReadSize \in Nat /\ ring.skipped + h \in Nat
    BY <1>3, <1>5, <2>2
  <2> HIDE DEF h, c
  <2>8. /\ ring'.queue = <<>> /\ ring'.taken = ring.taken + ReadSize /\ ring'.pushed = ring.pushed
        /\ ring'.dropped = ring.dropped /\ ring'.skipped = ring.skipped + h /\ ring' \in RingType
    BY <1>4, <2>4, <2>5, <2>7 DEF RingType
  <2>9. 0 \in 0 .. made /\ 0 <= Capacity /\ feed # "ring"
    BY <1>3, <1>7
  <2>10. /\ ring'.queue = Span(made - 0, 0)
         /\ ring'.pushed = ring'.taken + ring'.dropped + ring'.skipped + 0
    BY <2>5, <2>6, <2>8
  <2>11. QED
    BY <1>1, <2>2, <2>3, <2>8, <2>9, <2>10, RingReaderKeeps
<1>8. CASE Feed!Looks
  <2> DEFINE n2 == Feed!Lesser(ReadSize, k)
             h  == k - n2
             c  == b + h
  <2>1. got' = Feed!Without(ring.queue, h) /\ UNCHANGED ring /\ feed = "latest"
    BY <1>4, <1>8 DEF Feed!Looks, Feed!CopyLatest
  <2>2. n2 \in 0 .. k
    BY <1>3 DEF Feed!Lesser
  <2>3. h \in 0 .. k /\ c \in 0 .. made /\ n2 \in 0 .. made /\ k - h = n2 /\ c + n2 <= made
    <3> HIDE DEF n2
    <3>1. QED
      BY <1>3, <2>2
  <2> HIDE DEF n2, h, c
  <2>4. got' = Span(c, n2)
    <3>1. c = b + h
      BY DEF c
    <3>2. QED
      BY <1>3, <1>4, <2>1, <2>3, <3>1, SpanCut
  <2>5. k \in 0 .. made /\ ring' = ring /\ feed # "ring"
    BY <1>3, <2>1
  <2>6. ring.queue = Span(made - k, k)
    BY <1>4 DEF b
  <2>7. /\ ring' \in RingType /\ ring'.queue = Span(made - k, k)
        /\ ring'.pushed = ring'.taken + ring'.dropped + ring'.skipped + k
    BY <1>4, <2>5, <2>6
  <2>8. QED
    BY <1>1, <1>3, <2>3, <2>4, <2>5, <2>7, RingReaderKeeps
<1>9. QED
  BY <1>1, <1>6, <1>7, <1>8
----------------------------------------------------------------------------
(* The packets *)

LEMMA PacketsFit ==
    ASSUME NEW b \in Nat, NEW m \in Nat \ {0}, NEW n \in Nat, m * n <= b + m - 1
    PROVE  /\ \A p \in 1 .. n : (p - 1) * m \in Nat /\ (p - 1) * m < b
           /\ \A p, r \in 1 .. n : p < r => (p - 1) * m + m <= (r - 1) * m
<1>1. ASSUME NEW p \in Nat, NEW r \in Nat, p < r PROVE p * m \in Nat /\ p * m + m <= r * m
  <2> DEFINE k == r - p - 1
  <2>1. k \in Nat /\ r = p + 1 + k
    BY <1>1
  <2> HIDE DEF k
  <2>2. r * m = p * m + m + k * m
    BY <2>1
  <2>3. p * m \in Nat /\ k * m \in Nat /\ r * m \in Nat
    BY <2>1
  <2>4. QED
    BY <2>2, <2>3
<1>2. n * m = m * n /\ n * m \in Nat
  OBVIOUS
<1>3. ASSUME NEW p \in 1 .. n PROVE (p - 1) * m \in Nat /\ (p - 1) * m < b
  <2> DEFINE o == p - 1
  <2>1. o \in Nat /\ o < n
    OBVIOUS
  <2> HIDE DEF o
  <2>2. o * m \in Nat /\ o * m + m <= n * m
    BY <1>1, <2>1
  <2> DEFINE x == o * m
             y == n * m
  <2>3. x \in Nat /\ y \in Nat /\ x + m <= y /\ y <= b + m - 1
    BY <1>2, <2>2
  <2> HIDE DEF x, y
  <2>4. x \in Nat /\ x < b
    BY <2>3
  <2>5. QED
    BY <2>4 DEF x, o
<1>4. ASSUME NEW p \in 1 .. n, NEW r \in 1 .. n, p < r PROVE (p - 1) * m + m <= (r - 1) * m
  <2> DEFINE o == p - 1
             u == r - 1
  <2>1. o \in Nat /\ u \in Nat /\ o < u
    BY <1>4
  <2> HIDE DEF o, u
  <2>2. o * m + m <= u * m
    BY <1>1, <2>1
  <2>3. QED
    BY <2>2 DEF o, u
<1>5. QED
  BY <1>3, <1>4

LEMMA QuotientFits ==
    ASSUME NEW x \in Nat, NEW y \in Nat \ {0}
    PROVE  x \div y \in Nat /\ y * (x \div y) <= x
  OBVIOUS

LEMMA SpanPart ==
    ASSUME NEW a \in Nat, NEW n \in Nat, NEW f \in Nat, NEW m \in Nat, f + m <= n
    PROVE  SubSeq(Span(a, n), f + 1, f + m) = Span(a + f, m)
<1> DEFINE s == Span(a, n)
           t == Span(a + f, m)
           w == SubSeq(s, f + 1, f + m)
<1>1. /\ s \in Seq(IqType) /\ Len(s) = n /\ \A i \in 1 .. n : s[i] = Feed!Sample(a + i)
  BY SpanIs
<1>2. /\ t \in Seq(IqType) /\ Len(t) = m /\ \A i \in 1 .. m : t[i] = Feed!Sample(a + f + i)
  <2>1. a + f \in Nat
    OBVIOUS
  <2>2. QED
    BY <2>1, SpanIs
<1> HIDE DEF s, t
<1>3. /\ f + 1 \in Int /\ f + m \in Int /\ \A i \in f + 1 .. f + m : i \in 1 .. n
      /\ (f + m) - (f + 1) + 1 = m /\ (f + 1 <= f + m <=> m > 0)
  OBVIOUS
<1>4. \A i \in f + 1 .. f + m : s[i] \in IqType
  BY <1>1, <1>3, ElementOfSeq
<1>5. /\ w \in Seq(IqType)
      /\ Len(w) = IF f + 1 <= f + m THEN (f + m) - (f + 1) + 1 ELSE 0
      /\ \A i \in 1 .. (f + m) - (f + 1) + 1 : w[i] = s[f + 1 + i - 1]
  BY <1>3, <1>4, SubSeqProperties
<1> HIDE DEF w
<1>6. Len(w) = m
  BY <1>3, <1>5
<1>7. ASSUME NEW i \in 1 .. m PROVE w[i] = t[i]
  <2>1. f + 1 + i - 1 = f + i /\ f + i \in 1 .. n /\ a + (f + i) = a + f + i
    OBVIOUS
  <2>2. w[i] = s[f + i]
    BY <1>3, <1>5, <2>1
  <2>3. QED
    BY <1>1, <1>2, <2>1, <2>2
<1>8. QED
  BY <1>2, <1>5, <1>6, <1>7, SeqEqual DEF w, s, t

LEMMA PartOfBlock ==
    ASSUME made \in Nat, BlockSize \in Nat, NEW x \in Nat, NEW y \in Nat, x + y <= BlockSize
    PROVE  SubSeq(Feed!Block, x + 1, x + y) = Span(made + x, y)
<1>1. SubSeq(Span(made, BlockSize), x + 1, x + y) = Span(made + x, y)
  BY SpanPart
<1>2. QED
  BY <1>1, BlockIs

\* What leaves: packets of the next samples, one after the other.
LEMMA PacketsAre ==
    ASSUME made \in Nat, NEW f, f = Feed!Packets(Feed!Block, 1, 1)
    PROVE  /\ Underway(f, made + BlockSize) /\ InTurn(f)
           /\ \A s : Upto(s, made) => Follows(f, s)
<1> DEFINE n == (BlockSize + MaxPayload - 1) \div MaxPayload
           first(p) == (p - 1) * MaxPayload
           size(p) == Feed!Lesser(BlockSize - first(p), MaxPayload)
           content(p) == Span(made + first(p), size(p))
<1>1. BlockSize \in Nat /\ MaxPayload \in Nat \ {0}
  BY FeedConstants
<1>2. n \in Nat /\ MaxPayload * n <= BlockSize + MaxPayload - 1
  <2>1. BlockSize + MaxPayload - 1 \in Nat
    BY <1>1
  <2>2. QED
    BY <1>1, <2>1, QuotientFits
<1> HIDE DEF n
<1>3. /\ \A p \in 1 .. n : first(p) \in Nat /\ first(p) < BlockSize
      /\ \A p, r \in 1 .. n : p < r => first(p) + MaxPayload <= first(r)
  BY <1>1, <1>2, PacketsFit
<1> HIDE DEF first
<1>4. ASSUME NEW p \in 1 .. n
      PROVE  size(p) \in Nat /\ size(p) > 0 /\ size(p) <= MaxPayload /\ first(p) + size(p) <= BlockSize
  <2>1. first(p) \in Nat /\ first(p) < BlockSize
    BY <1>3
  <2>2. QED
    BY <1>1, <2>1 DEF Feed!Lesser
<1> HIDE DEF size
<1>5. ASSUME NEW p \in 1 .. n
      PROVE  /\ content(p) \in Seq(IqType) /\ Len(content(p)) = size(p)
             /\ Upto(content(p), made + BlockSize) /\ Rising(content(p))
             /\ \A i \in 1 .. size(p) : content(p)[i][1] = 2 * (made + first(p) + i)
  <2> DEFINE a == made + first(p)
  <2>1. first(p) \in Nat
    BY <1>3
  <2>2. size(p) \in Nat /\ first(p) + size(p) <= BlockSize
    BY <1>4
  <2>3. a \in Nat /\ a + size(p) <= made + BlockSize /\ made + BlockSize \in Nat
    BY <1>1, <2>1, <2>2
  <2> HIDE DEF a
  <2>4. /\ Span(a, size(p)) \in Seq(IqType) /\ Len(Span(a, size(p))) = size(p)
        /\ \A i \in 1 .. size(p) : Span(a, size(p))[i][1] = 2 * (a + i)
    BY <2>2, <2>3, SpanIs
  <2>5. Upto(Span(a, size(p)), made + BlockSize) /\ Rising(Span(a, size(p)))
    BY <2>2, <2>3, SpanRises
  <2>6. QED
    BY <2>4, <2>5 DEF a
<1>6. f = [p \in 1 .. n |->
             [magic |-> "PSIQ", version |-> 1, rate |-> 1, center |-> 1,
              count |-> size(p), payload |-> content(p)]]
  <2>1. Len(Feed!Block) = BlockSize
    BY <1>1, BlockIs, SpanIs
  <2>2. ASSUME NEW p \in 1 .. n
        PROVE  SubSeq(Feed!Block, first(p) + 1, first(p) + size(p)) = content(p)
    <3> DEFINE x == first(p)
               y == size(p)
    <3>1. x \in Nat /\ y \in Nat /\ x + y <= BlockSize
      BY <1>3, <1>4
    <3> HIDE DEF x, y
    <3>2. SubSeq(Feed!Block, x + 1, x + y) = Span(made + x, y)
      BY <1>1, <3>1, PartOfBlock
    <3>3. QED
      BY <3>2 DEF x, y, content
  <2>3. f = [p \in 1 .. n |->
               [magic |-> "PSIQ", version |-> 1, rate |-> 1, center |-> 1, count |-> size(p),
                payload |-> SubSeq(Feed!Block, first(p) + 1, first(p) + size(p))]]
    BY <2>1 DEF Feed!Packets, n, first, size
  <2>4. QED
    BY <2>2, <2>3
<1> HIDE DEF content
<1> DEFINE packet(p) == [magic |-> "PSIQ", version |-> 1, rate |-> 1, center |-> 1,
                         count |-> size(p), payload |-> content(p)]
<1>7. \A p \in 1 .. n : packet(p) \in PacketType
  <2>1. \A p \in 1 .. n : size(p) \in Nat /\ content(p) \in Seq(IqType)
    BY <1>4, <1>5
  <2>2. QED
    BY <2>1 DEF PacketType
<1>8. f = [p \in 1 .. n |-> packet(p)]
  BY <1>6
<1> HIDE DEF packet
<1>9. f \in Seq(PacketType) /\ Len(f) = n /\ \A p \in 1 .. n : f[p] = packet(p)
  <2>1. f \in Seq(PacketType)
    BY <1>2, <1>7, <1>8, IsASeq
  <2>2. Len(f) = n
    BY <1>2, <1>8, <2>1, LenProperties
  <2>3. \A p \in 1 .. n : f[p] = packet(p)
    BY <1>2, <1>8, Zenon
  <2>4. QED
    BY <2>1, <2>2, <2>3
<1>10. ASSUME NEW p \in 1 .. n PROVE f[p].payload = content(p) /\ f[p].count = size(p)
  <2>1. f[p] = packet(p)
    BY <1>9
  <2>2. packet(p).payload = content(p) /\ packet(p).count = size(p)
    BY DEF packet
  <2>3. QED
    BY <2>1, <2>2
<1>11. Underway(f, made + BlockSize)
  <2>1. ASSUME NEW p \in 1 .. n PROVE Carries(f[p], made + BlockSize)
    <3>1. f[p].count = Len(f[p].payload) /\ f[p].count > 0
      BY <1>4, <1>5, <1>10
    <3>2. Upto(f[p].payload, made + BlockSize) /\ Rising(f[p].payload)
      BY <1>5, <1>10
    <3>3. QED
      BY <3>1, <3>2 DEF Carries
  <2>2. QED
    BY <1>9, <2>1 DEF Underway
<1>12. ASSUME NEW p \in 1 .. n, NEW r \in 1 .. n, p < r PROVE Before(content(p), content(r))
  <2>1. /\ first(p) \in Nat /\ first(r) \in Nat /\ first(p) + MaxPayload <= first(r)
    BY <1>3, <1>12
  <2>2. size(p) \in Nat /\ size(p) <= MaxPayload /\ size(r) \in Nat
    BY <1>4
  <2>3. \A i \in 1 .. size(p), j \in 1 .. size(r) :
           2 * (made + first(p) + i) < 2 * (made + first(r) + j)
    BY <1>1, <2>1, <2>2
  <2>4. QED
    BY <1>5, <2>3 DEF Before
<1>13. InTurn(f)
  BY <1>9, <1>10, <1>12 DEF InTurn
<1>14. ASSUME NEW s, Upto(s, made) PROVE Follows(f, s)
  <2>1. ASSUME NEW p \in 1 .. n PROVE Before(s, content(p))
    <3>1. first(p) \in Nat /\ size(p) \in Nat
      BY <1>3, <1>4
    <3>2. \A i \in 1 .. size(p) : 2 * (made + first(p) + i) \in Nat
                                  /\ 2 * (made + first(p) + i) > 2 * made
      BY <3>1
    <3>3. \A i \in 1 .. Len(content(p)) : content(p)[i][1] \in Nat /\ content(p)[i][1] > 2 * made
      BY <1>5, <3>2
    <3>4. QED
      BY <1>14, <3>3, UptoBefore
  <2>2. QED
    BY <1>9, <1>10, <2>1 DEF Follows
<1>15. QED
  BY <1>11, <1>13, <1>14

\* A step of the packets' way keeps the rest.
LEMMA PsiqKeeps ==
    ASSUME FeedInv, feed = "psiq", UNCHANGED <<feed, ring>>,
           made' \in Nat, swapped' \in BOOLEAN,
           Upto(got', made'), Upto(ingest', made'), Len(ingest') <= Capacity,
           Underway(flight', made'),
           ~ swapped' =>
               /\ Rising(got') /\ Rising(ingest') /\ Before(got', ingest')
               /\ Follows(flight', got') /\ Follows(flight', ingest') /\ InTurn(flight')
    PROVE  FeedInv'
<1>1. ring' = Feed!NewRing /\ feed' = "psiq"
  BY DEF FeedInv
<1>2. FeedTypes'
  <2>1. Upto(got, made)' /\ Upto(ingest, made)'
    BY DEF Upto, Feed!Sample, Feed!I, Feed!Q, IqType
  <2>2. QED
    BY <2>1 DEF FeedTypes
<1>3. Underway(flight, made)'
  BY DEF Underway, Carries, PacketType, IqType, Upto, Rising, Feed!Sample, Feed!I, Feed!Q, Feed!ParsesPsiq
<1>4. ~ swapped' => (Rising(got) /\ Rising(ingest) /\ Before(got, ingest))'
  BY DEF Rising, Before
<1>5. ~ swapped' => (Follows(flight, got) /\ Follows(flight, ingest) /\ InTurn(flight))'
  BY DEF Follows, InTurn, Before, Feed!ParsesPsiq
<1>6. (ring = Feed!NewRing)'
  BY <1>1 DEF Feed!NewRing
<1>7. QED
  BY <1>1, <1>2, <1>3, <1>4, <1>5, <1>6 DEF FeedInv

\* Two trains of packets, one behind the other.
LEMMA TrainsJoin ==
    ASSUME NEW f \in Seq(PacketType), NEW g \in Seq(PacketType)
    PROVE  /\ f \o g \in Seq(PacketType)
           /\ \A n : Underway(f, n) /\ Underway(g, n) => Underway(f \o g, n)
           /\ \A s : Follows(f, s) /\ Follows(g, s) => Follows(f \o g, s)
           /\ (/\ InTurn(f) /\ InTurn(g)
               /\ \A i \in 1 .. Len(f) : Feed!ParsesPsiq(f[i]) => Follows(g, f[i].payload))
              => InTurn(f \o g)
<1> DEFINE j == f \o g
           a == Len(f)
           b == Len(g)
<1>1. /\ j \in Seq(PacketType) /\ Len(j) = a + b /\ a \in Nat /\ b \in Nat
      /\ \A i \in 1 .. a + b : j[i] = IF i <= a THEN f[i] ELSE g[i - a]
  BY ConcatProperties, LenProperties
<1> HIDE DEF j, a, b
<1>2. \A i \in 1 .. a + b : \/ i \in 1 .. a /\ j[i] = f[i]
                            \/ i - a \in 1 .. b /\ j[i] = g[i - a]
  BY <1>1
<1>3. \A i, k \in 1 .. a + b : i < k =>
          \/ i \in 1 .. a /\ k \in 1 .. a /\ j[i] = f[i] /\ j[k] = f[k]
          \/ i \in 1 .. a /\ k - a \in 1 .. b /\ j[i] = f[i] /\ j[k] = g[k - a]
          \/ i - a \in 1 .. b /\ k - a \in 1 .. b /\ i - a < k - a
             /\ j[i] = g[i - a] /\ j[k] = g[k - a]
  BY <1>1
<1>4. \A n : Underway(f, n) /\ Underway(g, n) => Underway(j, n)
  BY <1>1, <1>2 DEF Underway, a, b
<1>5. \A s : Follows(f, s) /\ Follows(g, s) => Follows(j, s)
  BY <1>1, <1>2 DEF Follows, a, b
<1>6. ASSUME InTurn(f), InTurn(g),
             \A i \in 1 .. a : Feed!ParsesPsiq(f[i]) => Follows(g, f[i].payload)
      PROVE  InTurn(j)
  <2> SUFFICES ASSUME NEW i \in 1 .. a + b, NEW k \in 1 .. a + b, i < k,
                      Feed!ParsesPsiq(j[i]), Feed!ParsesPsiq(j[k])
               PROVE  Before(j[i].payload, j[k].payload)
    BY <1>1 DEF InTurn
  <2>1. CASE i \in 1 .. a /\ k \in 1 .. a /\ j[i] = f[i] /\ j[k] = f[k]
    BY <1>6, <2>1 DEF InTurn, a
  <2>2. CASE i \in 1 .. a /\ k - a \in 1 .. b /\ j[i] = f[i] /\ j[k] = g[k - a]
    BY <1>6, <2>2 DEF Follows, b
  <2>3. CASE /\ i - a \in 1 .. b /\ k - a \in 1 .. b /\ i - a < k - a
             /\ j[i] = g[i - a] /\ j[k] = g[k - a]
    BY <1>6, <2>3 DEF InTurn, b
  <2>4. QED
    BY <1>3, <2>1, <2>2, <2>3
<1>7. QED
  BY <1>1, <1>4, <1>5, <1>6 DEF j, a

\* A train without its first packet.
LEMMA TrainMoves ==
    ASSUME NEW f \in Seq(PacketType), f # <<>>
    PROVE  /\ Head(f) = f[1] /\ 1 \in 1 .. Len(f) /\ Tail(f) \in Seq(PacketType)
           /\ \A n : Underway(f, n) => Underway(Tail(f), n)
           /\ \A s : Follows(f, s) => Follows(Tail(f), s)
           /\ InTurn(f) => InTurn(Tail(f))
           /\ InTurn(f) /\ Feed!ParsesPsiq(f[1]) => Follows(Tail(f), f[1].payload)
<1> DEFINE t == Tail(f)
           a == Len(f)
<1>1. /\ Head(f) = f[1] /\ t \in Seq(PacketType) /\ Len(t) = a - 1
      /\ \A i \in 1 .. Len(t) : t[i] = f[i + 1]
  BY HeadTailProperties
<1>2. a \in Nat /\ a > 0
  BY LenProperties, EmptySeq
<1> HIDE DEF t, a
<1>3. /\ 1 \in 1 .. a
      /\ \A i \in 1 .. Len(t) : i + 1 \in 1 .. a /\ 1 < i + 1 /\ t[i] = f[i + 1]
      /\ \A i, k \in 1 .. Len(t) : i < k => i + 1 < k + 1
  BY <1>1, <1>2
<1>4. \A n : Underway(f, n) => Underway(t, n)
  BY <1>1, <1>3 DEF Underway, a
<1>5. \A s : Follows(f, s) => Follows(t, s)
  BY <1>3 DEF Follows, a
<1>6. InTurn(f) => InTurn(t)
  BY <1>3 DEF InTurn, a
<1>7. InTurn(f) /\ Feed!ParsesPsiq(f[1]) => Follows(t, f[1].payload)
  BY <1>3 DEF InTurn, Follows, a
<1>8. QED
  BY <1>1, <1>3, <1>4, <1>5, <1>6, <1>7 DEF t, a

\* A train of one.
LEMMA OnePacket ==
    ASSUME NEW p \in PacketType
    PROVE  /\ <<p>> \in Seq(PacketType) /\ InTurn(<<p>>)
           /\ \A n : Carries(p, n) => Underway(<<p>>, n)
           /\ ~ Feed!ParsesPsiq(p) => \A s : Follows(<<p>>, s)
<1> DEFINE f == <<p>>
<1>1. f \in Seq(PacketType) /\ Len(f) = 1 /\ f[1] = p
  OBVIOUS
<1> HIDE DEF f
<1>2. \A i \in 1 .. Len(f) : i = 1
  BY <1>1
<1>3. InTurn(f)
  BY <1>2 DEF InTurn
<1>4. \A n : Carries(p, n) => Underway(f, n)
  BY <1>1, <1>2 DEF Underway
<1>5. ~ Feed!ParsesPsiq(p) => \A s : Follows(f, s)
  BY <1>1, <1>2 DEF Follows
<1>6. QED
  BY <1>1, <1>3, <1>4, <1>5 DEF f

\* What a parsed packet hands over is a part of its payload.
LEMMA HandedOver ==
    ASSUME NEW p \in PacketType, NEW n, Carries(p, n), Feed!ParsesPsiq(p)
    PROVE  Piece(Feed!PsiqSamples(p), p.payload) /\ p.payload \in Seq(IqType)
<1>1. p.payload \in Seq(IqType) /\ p.count \in Nat /\ p.count = Len(p.payload)
  BY DEF Carries, PacketType
<1>2. p.count \in 0 .. Len(p.payload)
  BY <1>1
<1>3. QED
  BY <1>1, <1>2, LeadingIsPiece DEF Feed!PsiqSamples

LEMMA PacketsLeave ==
    ASSUME FeedInv, Feed!Captures, feed = "psiq" PROVE FeedInv'
<1> DEFINE f == Feed!Packets(Feed!Block, 1, 1)
           n == made + BlockSize
<1>1. /\ made' = n /\ flight' = flight \o f
      /\ UNCHANGED <<feed, ring, ingest, got, swapped>>
  BY DEF Feed!Captures
<1>2. /\ made \in Nat /\ BlockSize \in Nat /\ Underway(flight, made)
      /\ Upto(got, made) /\ Upto(ingest, made) /\ swapped \in BOOLEAN
  BY FeedConstants DEF FeedInv, FeedTypes
<1>3. Underway(f, n) /\ InTurn(f) /\ \A s : Upto(s, made) => Follows(f, s)
  BY <1>2, PacketsAre
<1> HIDE DEF f
<1>4. n \in Nat /\ made <= n
  BY <1>2
<1> HIDE DEF n
<1>5. Upto(got, n) /\ Upto(ingest, n)
  BY <1>2, <1>4, UptoLater
<1>6. flight \in Seq(PacketType) /\ f \in Seq(PacketType)
  BY <1>2, <1>3 DEF Underway
<1>7. Underway(flight, n)
  <2>1. ASSUME NEW i \in 1 .. Len(flight) PROVE Carries(flight[i], n)
    <3>1. Carries(flight[i], made)
      BY <1>2 DEF Underway
    <3>2. Upto(flight[i].payload, made) => Upto(flight[i].payload, n)
      BY <1>2, <1>4, UptoLater
    <3>3. QED
      BY <3>1, <3>2 DEF Carries
  <2>2. QED
    BY <1>6, <2>1 DEF Underway
<1>8. Underway(flight', n)
  BY <1>1, <1>3, <1>6, <1>7, TrainsJoin
<1>9. ASSUME NEW i \in 1 .. Len(flight), Feed!ParsesPsiq(flight[i])
      PROVE  Follows(f, flight[i].payload)
  <2>1. Upto(flight[i].payload, made)
    BY <1>2, <1>9 DEF Underway, Carries
  <2>2. QED
    BY <1>3, <2>1
<1>10. ASSUME ~ swapped
       PROVE  Follows(flight', got) /\ Follows(flight', ingest) /\ InTurn(flight')
  <2>1. Follows(flight, got) /\ Follows(flight, ingest) /\ InTurn(flight)
    BY <1>10 DEF FeedInv
  <2>2. Follows(f, got) /\ Follows(f, ingest)
    BY <1>2, <1>3
  <2>3. Follows(flight \o f, got) /\ Follows(flight \o f, ingest)
    BY <1>6, <2>1, <2>2, TrainsJoin
  <2>4. InTurn(flight \o f)
    BY <1>3, <1>6, <1>9, <2>1, TrainsJoin
  <2>5. QED
    BY <1>1, <2>3, <2>4
<1>11. ~ swapped => Rising(got) /\ Rising(ingest) /\ Before(got, ingest)
  BY DEF FeedInv
<1>12. Len(ingest') <= Capacity /\ UNCHANGED <<feed, ring>> /\ made' \in Nat /\ swapped' \in BOOLEAN
  BY <1>1, <1>2, <1>4 DEF FeedInv, FeedTypes
<1>13. /\ Upto(got', made') /\ Upto(ingest', made') /\ Underway(flight', made')
  BY <1>1, <1>5, <1>8
<1>14. ~ swapped' =>
          /\ Rising(got') /\ Rising(ingest') /\ Before(got', ingest')
          /\ Follows(flight', got') /\ Follows(flight', ingest') /\ InTurn(flight')
  BY <1>1, <1>10, <1>11
<1>15. QED
  BY <1>12, <1>13, <1>14, PsiqKeeps

\* The network loses, repeats, swaps and adds.
LEMMA PacketsSuffer ==
    ASSUME FeedInv,
           Feed!PacketLost \/ Feed!PacketTwice \/ Feed!PacketsSwapped \/ Feed!ForeignDatagram
    PROVE  FeedInv'
<1>1. feed = "psiq" /\ UNCHANGED <<feed, made, ingest, bytes, ring, got>> /\ swapped' \in {swapped, TRUE}
  BY DEF Feed!PacketLost, Feed!PacketTwice, Feed!PacketsSwapped, Feed!ForeignDatagram
<1>2. /\ made \in Nat /\ Upto(got, made) /\ Upto(ingest, made) /\ swapped \in BOOLEAN
      /\ Len(ingest) <= Capacity /\ Underway(flight, made) /\ flight \in Seq(PacketType)
      /\ Len(flight) \in Nat
  BY <1>1, LenProperties DEF FeedInv, FeedTypes, Underway
<1>3. ~ swapped => /\ Rising(got) /\ Rising(ingest) /\ Before(got, ingest)
                   /\ Follows(flight, got) /\ Follows(flight, ingest) /\ InTurn(flight)
  BY <1>1 DEF FeedInv
<1>4. SUFFICES /\ Underway(flight', made)
               /\ ~ swapped' => Follows(flight', got) /\ Follows(flight', ingest) /\ InTurn(flight')
  <2>1. /\ UNCHANGED <<feed, ring>> /\ made' \in Nat /\ swapped' \in BOOLEAN
        /\ Upto(got', made') /\ Upto(ingest', made') /\ Len(ingest') <= Capacity
    BY <1>1, <1>2
  <2>2. Underway(flight', made')
    BY <1>1, <1>4
  <2>3. ~ swapped' => ~ swapped
    BY <1>1, <1>2
  <2>4. ~ swapped' =>
          /\ Rising(got') /\ Rising(ingest') /\ Before(got', ingest')
          /\ Follows(flight', got') /\ Follows(flight', ingest') /\ InTurn(flight')
    BY <1>1, <1>3, <1>4, <2>3
  <2>5. QED
    BY <1>1, <2>1, <2>2, <2>4, PsiqKeeps
<1>5. CASE Feed!PacketLost
  <2>1. flight # <<>> /\ flight' = Tail(flight) /\ swapped' = swapped
    BY <1>5 DEF Feed!PacketLost
  <2>2. QED
    BY <1>2, <1>3, <2>1, TrainMoves
<1>6. CASE Feed!PacketTwice
  <2>1. flight # <<>> /\ flight' = <<Head(flight)>> \o flight /\ swapped' = TRUE
    BY <1>6 DEF Feed!PacketTwice
  <2>2. Head(flight) = flight[1] /\ 1 \in 1 .. Len(flight)
    BY <1>2, <2>1, TrainMoves
  <2>3. flight[1] \in PacketType /\ Carries(flight[1], made)
    BY <1>2, <2>2, ElementOfSeq DEF Underway
  <2>4. <<flight[1]>> \in Seq(PacketType) /\ Underway(<<flight[1]>>, made)
    BY <2>3, OnePacket
  <2>5. Underway(<<flight[1]>> \o flight, made)
    BY <1>2, <2>4, TrainsJoin
  <2>6. QED
    BY <2>1, <2>2, <2>5
<1>7. CASE Feed!PacketsSwapped
  <2> DEFINE a == flight[1]
             b == flight[2]
             w == Feed!Without(flight, 2)
  <2>1. /\ Len(flight) > 1 /\ flight' = <<b, a>> \o w /\ swapped' = TRUE
    BY <1>7 DEF Feed!PacketsSwapped
  <2>2. 1 \in 1 .. Len(flight) /\ 2 \in 1 .. Len(flight) /\ 2 \in 0 .. Len(flight)
    BY <1>2, <2>1
  <2>3. /\ a \in PacketType /\ Carries(a, made) /\ b \in PacketType /\ Carries(b, made)
    BY <1>2, <2>2, ElementOfSeq DEF Underway
  <2>4. /\ w \in Seq(PacketType) /\ Len(w) = Len(flight) - 2
        /\ \A i \in 1 .. Len(flight) - 2 : w[i] = flight[2 + i]
    BY <1>2, <2>2, WithoutIs
  <2> HIDE DEF a, b, w
  <2>5. Underway(w, made)
    <3>1. \A i \in 1 .. Len(w) : 2 + i \in 1 .. Len(flight) /\ w[i] = flight[2 + i]
      BY <1>2, <2>4
    <3>2. QED
      BY <1>2, <2>4, <3>1 DEF Underway
  <2>6. Underway(<<b, a>>, made)
    <3>1. <<b, a>> \in Seq(PacketType) /\ Len(<<b, a>>) = 2 /\ <<b, a>>[1] = b /\ <<b, a>>[2] = a
      BY <2>3
    <3>2. \A i \in 1 .. 2 : i = 1 \/ i = 2
      OBVIOUS
    <3>3. QED
      BY <2>3, <3>1, <3>2 DEF Underway
  <2>7. Underway(<<b, a>> \o w, made)
    <3>1. <<b, a>> \in Seq(PacketType)
      BY <2>6 DEF Underway
    <3>2. QED
      BY <2>4, <2>5, <2>6, <3>1, TrainsJoin
  <2>8. QED
    BY <2>1, <2>7
<1>8. CASE Feed!ForeignDatagram
  <2>1. PICK d \in {Feed!Foreign} \cup
            {[flight[i] EXCEPT !.payload = Feed!Leading(@, Len(@) - 1)] : i \in DOMAIN flight} :
          flight' = <<d>> \o flight /\ swapped' = swapped
    BY <1>8 DEF Feed!ForeignDatagram
  <2>2. d \in PacketType /\ ~ Feed!ParsesPsiq(d)
    <3>1. CASE d = Feed!Foreign
      <4>1. <<>> \in Seq(IqType)
        BY EmptySeq
      <4>2. QED
        BY <3>1, <4>1 DEF Feed!Foreign, PacketType, Feed!ParsesPsiq
    <3>2. ASSUME NEW i \in DOMAIN flight,
                 d = [flight[i] EXCEPT !.payload = Feed!Leading(@, Len(@) - 1)]
          PROVE  d \in PacketType /\ ~ Feed!ParsesPsiq(d)
      <4> DEFINE p == flight[i]
                 s == p.payload
                 w == Feed!Leading(s, Len(s) - 1)
      <4>1. p \in PacketType /\ Carries(p, made)
        BY <1>2, ElementOfSeq, LenProperties DEF Underway
      <4>2. s \in Seq(IqType) /\ p.count \in Nat /\ Len(s) \in Nat
        BY <4>1, LenProperties DEF PacketType
      <4>3. d = [p EXCEPT !.payload = w]
        BY <3>2
      <4>4. /\ w \in Seq(IqType) /\ Len(w) <= Len(s)
            /\ Len(s) > 0 => Len(w) = Len(s) - 1
        <5>1. CASE Len(s) = 0
          <6> DEFINE n == Len(s) - 1
          <6>1. n \in Int /\ 1 \in Int /\ ~ (1 <= n) /\ \A k \in 1 .. n : s[k] \in IqType
            BY <5>1
          <6> HIDE DEF n
          <6>2. SubSeq(s, 1, n) \in Seq(IqType) /\ Len(SubSeq(s, 1, n)) = 0
            BY <6>1, SubSeqProperties
          <6>3. QED
            BY <5>1, <6>2 DEF n, Feed!Leading
        <5>2. CASE Len(s) > 0
          <6> DEFINE n == Len(s) - 1
          <6>1. n \in 0 .. Len(s) /\ n <= Len(s)
            BY <4>2, <5>2
          <6> HIDE DEF n
          <6>2. Feed!Leading(s, n) \in Seq(IqType) /\ Len(Feed!Leading(s, n)) = n
            BY <4>2, <6>1, LeadingIs
          <6>3. QED
            BY <6>1, <6>2 DEF n
        <5>3. QED
          BY <4>2, <5>1, <5>2
      <4> HIDE DEF w
      <4>5. d \in PacketType /\ d.magic = p.magic /\ d.version = p.version
            /\ d.count = p.count /\ d.payload = w
        BY <4>1, <4>3, <4>4 DEF PacketType
      <4>6. ASSUME Feed!ParsesPsiq(d) PROVE FALSE
        <5>1. d.magic = "PSIQ" /\ d.version = 1 /\ d.count <= Len(w)
          BY <4>5, <4>6 DEF Feed!ParsesPsiq
        <5>2. Len(w) \in Nat
          BY <4>4, LenProperties
        <5>3. p.magic = "PSIQ" /\ p.version = 1 /\ p.count <= Len(s)
          BY <4>2, <4>4, <4>5, <5>1, <5>2
        <5>4. p.count = Len(s) /\ p.count > 0
          BY <4>1, <5>3 DEF Carries, Feed!ParsesPsiq
        <5>5. QED
          BY <4>2, <4>4, <4>5, <5>1, <5>4
      <4>7. QED
        BY <4>5, <4>6
    <3>3. QED
      BY <3>1, <3>2
  <2>3. Carries(d, made)
    BY <2>2 DEF Carries
  <2>4. /\ <<d>> \in Seq(PacketType) /\ InTurn(<<d>>) /\ Underway(<<d>>, made)
        /\ \A s : Follows(<<d>>, s)
    BY <2>2, <2>3, OnePacket
  <2>5. Underway(<<d>> \o flight, made)
    BY <1>2, <2>4, TrainsJoin
  <2>6. \A i \in 1 .. Len(<<d>>) : ~ Feed!ParsesPsiq(<<d>>[i])
    BY <2>2
  <2>7. ASSUME ~ swapped
        PROVE  /\ Follows(<<d>> \o flight, got) /\ Follows(<<d>> \o flight, ingest)
               /\ InTurn(<<d>> \o flight)
    BY <1>2, <1>3, <2>4, <2>6, <2>7, TrainsJoin
  <2>8. QED
    BY <2>1, <2>5, <2>7
<1>9. QED
  BY <1>5, <1>6, <1>7, <1>8

\* A packet that arrives.
LEMMA PacketArrives == ASSUME FeedInv, Feed!DatagramArrives PROVE FeedInv'
<1> DEFINE p == flight[1]
           s == Feed!PsiqSamples(p)
           j == ingest \o s
           t == Tail(flight)
<1>1. /\ feed = "psiq" /\ flight # <<>> /\ flight' = t
      /\ ingest' = Feed!ReceivePacket(ingest, Head(flight))
      /\ UNCHANGED <<feed, made, ring, got, swapped>>
  BY DEF Feed!DatagramArrives
<1>2. /\ made \in Nat /\ Upto(got, made) /\ Upto(ingest, made) /\ swapped \in BOOLEAN
      /\ Len(ingest) <= Capacity /\ Underway(flight, made) /\ flight \in Seq(PacketType)
      /\ ingest \in Seq(IqType)
  BY <1>1 DEF FeedInv, FeedTypes, Underway, Upto
<1>3. ~ swapped => /\ Rising(got) /\ Rising(ingest) /\ Before(got, ingest)
                   /\ Follows(flight, got) /\ Follows(flight, ingest) /\ InTurn(flight)
  BY <1>1 DEF FeedInv
<1>4. /\ Head(flight) = p /\ 1 \in 1 .. Len(flight) /\ t \in Seq(PacketType) /\ Underway(t, made)
      /\ ~ swapped => Follows(t, got) /\ Follows(t, ingest)
      /\ ~ swapped /\ Feed!ParsesPsiq(p) => Follows(t, p.payload)
  BY <1>1, <1>2, <1>3, TrainMoves
<1>5. p \in PacketType /\ Carries(p, made)
  BY <1>2, <1>4, ElementOfSeq DEF Underway
<1>6. /\ Feed!ParsesPsiq(p) => ingest' = Feed!IngestPush(ingest, s)
      /\ ~ Feed!ParsesPsiq(p) => ingest' = ingest
  BY <1>1, <1>4 DEF Feed!ReceivePacket
<1>7. ~ swapped => InTurn(t)
  BY <1>1, <1>2, <1>3, TrainMoves
<1>8. /\ UNCHANGED <<feed, ring>> /\ made' \in Nat /\ swapped' \in BOOLEAN
      /\ Upto(got', made') /\ Underway(flight', made')
  BY <1>1, <1>2, <1>4
<1>9. CASE ~ Feed!ParsesPsiq(p)
  <2>1. ingest' = ingest
    BY <1>6, <1>9
  <2>2. Upto(ingest', made') /\ Len(ingest') <= Capacity
    BY <1>1, <1>2, <2>1
  <2>3. ~ swapped' =>
          /\ Rising(got') /\ Rising(ingest') /\ Before(got', ingest')
          /\ Follows(flight', got') /\ Follows(flight', ingest') /\ InTurn(flight')
    BY <1>1, <1>3, <1>4, <1>7, <2>1
  <2>4. QED
    BY <1>1, <1>8, <2>2, <2>3, PsiqKeeps
<1>10. CASE Feed!ParsesPsiq(p)
  <2>1. Piece(s, p.payload) /\ p.payload \in Seq(IqType)
    BY <1>5, <1>10, HandedOver
  <2>2. s \in Seq(IqType)
    BY <2>1 DEF Piece
  <2>3. Upto(p.payload, made) /\ Rising(p.payload)
    BY <1>5, <1>10 DEF Carries
  <2>4. Upto(s, made) /\ Rising(s)
    BY <2>1, <2>3, PieceKeeps
  <2>5. ingest' = Feed!IngestPush(ingest, s)
    BY <1>6, <1>10
  <2> HIDE DEF s
  <2>6. /\ j \in Seq(IqType) /\ Upto(j, made) /\ Piece(ingest', j) /\ Len(ingest') <= Capacity
    BY <1>2, <2>2, <2>4, <2>5, JoinKeeps, IngestTakes
  <2>12. \A u : Before(j, u) => Before(ingest', u)
    BY <2>6, PieceKeeps
  <2>7. ASSUME ~ swapped
        PROVE  /\ Rising(ingest') /\ Before(got, ingest') /\ Follows(t, ingest')
    <3>1. /\ Rising(ingest) /\ Before(got, ingest) /\ Follows(flight, got)
          /\ Follows(flight, ingest) /\ Follows(t, ingest) /\ Follows(t, p.payload)
      BY <1>3, <1>4, <1>10, <2>7
    <3>2. Before(ingest, p.payload) /\ Before(got, p.payload)
      BY <1>4, <1>10, <3>1 DEF Follows
    <3>3. Before(ingest, s) /\ Before(got, s)
      BY <2>1, <3>2, PieceKeeps
    <3>4. Rising(j) /\ Before(got, j)
      BY <1>2, <2>2, <2>4, <3>1, <3>3, JoinKeeps
    <3>5. Rising(ingest') /\ Before(got, ingest')
      BY <2>6, <3>4, PieceKeeps
    <3>6. ASSUME NEW i \in 1 .. Len(t), Feed!ParsesPsiq(t[i]) PROVE Before(ingest', t[i].payload)
      <4>1. Before(ingest, t[i].payload) /\ Before(p.payload, t[i].payload)
        BY <3>1, <3>6 DEF Follows
      <4>2. Before(s, t[i].payload)
        BY <2>1, <4>1, PieceKeeps
      <4>3. Before(j, t[i].payload)
        BY <1>2, <2>2, <4>1, <4>2, JoinKeeps
      <4>4. QED
        BY <2>12, <4>3
    <3>7. Follows(t, ingest')
      BY <3>6 DEF Follows
    <3>8. QED
      BY <3>5, <3>7
  <2>8. Upto(ingest', made)
    BY <2>6, PieceKeeps
  <2>9. Upto(ingest', made')
    BY <1>1, <2>8
  <2>10. ~ swapped' =>
          /\ Rising(got') /\ Rising(ingest') /\ Before(got', ingest')
          /\ Follows(flight', got') /\ Follows(flight', ingest') /\ InTurn(flight')
    BY <1>1, <1>3, <1>4, <1>7, <2>7
  <2>11. QED
    BY <1>1, <1>8, <2>6, <2>9, <2>10, PsiqKeeps
<1>11. QED
  BY <1>9, <1>10

----------------------------------------------------------------------------
(* The stream of bytes *)

\* Byte j of the samples after a is 2 a + j + 1, be it an I or a Q.
LEMMA StreamIs ==
    ASSUME NEW a \in Nat, NEW n \in Nat
    PROVE  /\ Stream(a, n) \in Seq(Nat) /\ Len(Stream(a, n)) = 2 * n
           /\ \A j \in 1 .. 2 * n : Stream(a, n)[j] = 2 * a + j + 1
<1> DEFINE s == Stream(a, n)
<1>1. s = [j \in 1 .. 2 * n |->
             IF j % 2 = 1 THEN 2 * (a + (j + 1) \div 2) ELSE 2 * (a + j \div 2) + 1]
  BY DEF Stream, Feed!I, Feed!Q
<1>2. ASSUME NEW j \in 1 .. 2 * n PROVE s[j] = 2 * a + j + 1 /\ s[j] \in Nat
  <2>1. CASE j % 2 = 1
    <3>1. 2 * (a + (j + 1) \div 2) = 2 * a + j + 1
      BY <2>1
    <3>2. QED
      BY <1>1, <2>1, <3>1
  <2>2. CASE j % 2 # 1
    <3>1. 2 * (a + j \div 2) + 1 = 2 * a + j + 1
      BY <2>2
    <3>2. QED
      BY <1>1, <2>2, <3>1
  <2>3. QED
    BY <2>1, <2>2
<1>3. s = [j \in 1 .. 2 * n |-> s[j]]
  BY <1>1
<1> DEFINE z == 2 * n
<1>4. z \in Nat /\ s = [j \in 1 .. z |-> s[j]] /\ \A j \in 1 .. z : s[j] \in Nat
  BY <1>2, <1>3
<1> HIDE DEF s, z
<1>5. s \in Seq(Nat)
  BY <1>4, IsASeq
<1>6. Len(s) = z
  BY <1>4, <1>5, LenProperties
<1>7. QED
  BY <1>2, <1>5, <1>6 DEF s, z

LEMMA StreamsJoin ==
    ASSUME NEW a \in Nat, NEW n \in Nat, NEW m \in Nat
    PROVE  Stream(a, n) \o Stream(a + n, m) = Stream(a, n + m)
<1> DEFINE b == a + n
           c == n + m
           s == Stream(a, n)
           t == Stream(b, m)
           w == Stream(a, c)
           j == s \o t
           x == 2 * n
           y == 2 * m
           z == 2 * c
<1>1. /\ b \in Nat /\ c \in Nat /\ x \in Nat /\ y \in Nat /\ z = x + y /\ 2 * b = 2 * a + x
  OBVIOUS
<1> HIDE DEF b, c
<1>2. s \in Seq(Nat) /\ Len(s) = x /\ \A i \in 1 .. x : s[i] = 2 * a + i + 1
  BY StreamIs
<1>3. t \in Seq(Nat) /\ Len(t) = y /\ \A i \in 1 .. y : t[i] = 2 * b + i + 1
  BY <1>1, StreamIs
<1>4. w \in Seq(Nat) /\ Len(w) = z /\ \A i \in 1 .. z : w[i] = 2 * a + i + 1
  BY <1>1, StreamIs
<1> HIDE DEF s, t, w, x, y, z
<1>5. /\ j \in Seq(Nat) /\ Len(j) = x + y
      /\ \A i \in 1 .. x + y : j[i] = IF i <= x THEN s[i] ELSE t[i - x]
  <2>1. s \in Seq(Nat) /\ Len(s) = x /\ t \in Seq(Nat) /\ Len(t) = y
    BY <1>2, <1>3
  <2>2. QED
    BY <2>1, ConcatProperties
<1> HIDE DEF j
<1>6. ASSUME NEW i \in 1 .. x + y PROVE j[i] = w[i]
  <2>1. w[i] = 2 * a + i + 1
    BY <1>1, <1>4
  <2>2. CASE i <= x
    BY <1>1, <1>2, <1>5, <2>1, <2>2
  <2>3. CASE ~ (i <= x)
    <3>1. i - x \in 1 .. y /\ 2 * b + (i - x) + 1 = 2 * a + i + 1
      BY <1>1, <2>3
    <3>2. j[i] = t[i - x]
      BY <1>1, <1>5, <2>3
    <3>3. t[i - x] = 2 * b + (i - x) + 1
      BY <1>3, <3>1
    <3>4. QED
      BY <2>1, <3>1, <3>2, <3>3
  <2>4. QED
    BY <2>2, <2>3
<1>7. j = w
  BY <1>1, <1>4, <1>5, <1>6, SeqEqual
<1>8. QED
  BY <1>7 DEF b, c, j, s, t, w

\* A step of the bytes' way keeps the rest.
LEMMA BytesKeep ==
    ASSUME FeedInv, feed = "rtl_tcp", UNCHANGED <<feed, ring, swapped>>,
           made' \in Nat, NEW a \in 0 .. made',
           bytes' \in Seq(Nat), flight' \in Seq(Nat), Len(bytes') <= 1,
           bytes' \o flight' = Stream(a, made' - a),
           Upto(got', a), Upto(ingest', a), Len(ingest') <= Capacity,
           Rising(got'), Rising(ingest'), Before(got', ingest')
    PROVE  FeedInv'
<1>1. ring' = Feed!NewRing /\ feed' = "rtl_tcp" /\ swapped' = FALSE
  BY DEF FeedInv, FeedTypes
<1>2. Upto(got', made') /\ Upto(ingest', made')
  BY UptoLater
<1>3. FeedTypes'
  <2>1. Upto(got, made)' /\ Upto(ingest, made)'
    BY <1>2 DEF Upto, Feed!Sample, Feed!I, Feed!Q, IqType
  <2>2. QED
    BY <1>1, <2>1 DEF FeedTypes
<1>4. (\E b \in 0 .. made : Streams(b))'
  <2>1. Upto(got, a)' /\ Upto(ingest, a)'
    BY DEF Upto, Feed!Sample, Feed!I, Feed!Q, IqType
  <2>2. (bytes \o flight = Stream(a, made - a))'
    BY DEF Stream, Feed!I, Feed!Q
  <2>3. Streams(a)'
    BY <2>1, <2>2 DEF Streams
  <2>4. QED
    BY <2>3
<1>5. (Rising(got) /\ Rising(ingest) /\ Before(got, ingest))'
  BY DEF Rising, Before
<1>6. (ring = Feed!NewRing)'
  BY <1>1 DEF Feed!NewRing
<1>7. QED
  BY <1>1, <1>3, <1>4, <1>5, <1>6 DEF FeedInv

LEMMA BytesAssociate ==
    ASSUME NEW s \in Seq(Nat), NEW t \in Seq(Nat), NEW u \in Seq(Nat)
    PROVE  (s \o t) \o u = s \o (t \o u)
  BY ConcatAssociative, SMTT(30)

LEMMA BytesLeave ==
    ASSUME FeedInv, Feed!Captures, feed = "rtl_tcp" PROVE FeedInv'
<1> DEFINE n == made + BlockSize
           f == Feed!Bytes
<1>1. /\ made' = n /\ flight' = flight \o f
      /\ UNCHANGED <<feed, ring, ingest, bytes, got, swapped>>
  BY DEF Feed!Captures
<1>2. PICK a \in 0 .. made : Streams(a)
  BY DEF FeedInv
<1>3. /\ made \in Nat /\ BlockSize \in Nat /\ Len(ingest) <= Capacity
      /\ Rising(got) /\ Rising(ingest) /\ Before(got, ingest)
  BY FeedConstants DEF FeedInv, FeedTypes
<1>4. /\ bytes \in Seq(Nat) /\ flight \in Seq(Nat) /\ Len(bytes) <= 1
      /\ bytes \o flight = Stream(a, made - a) /\ Upto(got, a) /\ Upto(ingest, a)
  BY <1>2 DEF Streams
<1> DEFINE k == made - a
<1>5. a \in Nat /\ k \in Nat /\ a + k = made /\ k + BlockSize = n - a /\ n \in Nat /\ a \in 0 .. n
  BY <1>3
<1>6. f = Stream(made, BlockSize)
  BY DEF Feed!Bytes, Stream
<1>7. f \in Seq(Nat)
  BY <1>3, <1>6, StreamIs
<1> HIDE DEF f, n
<1>8. flight' \in Seq(Nat) /\ bytes \o flight' = (bytes \o flight) \o f
  <2>1. flight \o f \in Seq(Nat)
    BY <1>4, <1>7, ConcatProperties
  <2>2. (bytes \o flight) \o f = bytes \o (flight \o f)
    BY <1>4, <1>7, BytesAssociate
  <2>3. QED
    BY <1>1, <2>1, <2>2
<1>9. (bytes \o flight) \o f = Stream(a, n - a)
  <2>1. bytes \o flight = Stream(a, k)
    BY <1>4
  <2> HIDE DEF k
  <2>2. a \in Nat /\ k \in Nat /\ BlockSize \in Nat
    BY <1>3, <1>5
  <2>4. Stream(a, k) \o Stream(a + k, BlockSize) = Stream(a, k + BlockSize)
    BY <2>2, StreamsJoin
  <2>3. QED
    BY <1>5, <1>6, <2>1, <2>4
<1>10. /\ bytes' \in Seq(Nat) /\ flight' \in Seq(Nat) /\ Len(bytes') <= 1
       /\ bytes' \o flight' = Stream(a, made' - a) /\ made' \in Nat /\ a \in 0 .. made'
  BY <1>1, <1>4, <1>5, <1>8, <1>9
<1>11. /\ UNCHANGED <<feed, ring, swapped>> /\ Upto(got', a) /\ Upto(ingest', a)
       /\ Len(ingest') <= Capacity /\ Rising(got') /\ Rising(ingest') /\ Before(got', ingest')
  BY <1>1, <1>3, <1>4
<1>12. QED
  BY <1>10, <1>11, BytesKeep

LEMMA BytesLost == ASSUME FeedInv, Feed!Reconnects PROVE FeedInv'
<1>1. /\ feed = "rtl_tcp" /\ flight' = <<>> /\ bytes' = <<>>
      /\ UNCHANGED <<feed, made, ingest, ring, got, swapped>>
  BY DEF Feed!Reconnects
<1>2. /\ made \in Nat /\ Len(ingest) <= Capacity /\ Upto(got, made) /\ Upto(ingest, made)
      /\ Rising(got) /\ Rising(ingest) /\ Before(got, ingest)
  BY <1>1 DEF FeedInv, FeedTypes
<1>3. <<>> \in Seq(Nat) /\ Len(<<>>) <= 1 /\ <<>> \o <<>> = <<>>
  BY EmptySeq, ConcatEmptySeq
<1>4. Stream(made, made - made) = <<>>
  BY <1>2 DEF Stream
<1>5. /\ made' \in Nat /\ made \in 0 .. made'
      /\ bytes' \in Seq(Nat) /\ flight' \in Seq(Nat) /\ Len(bytes') <= 1
      /\ bytes' \o flight' = Stream(made, made' - made)
  BY <1>1, <1>2, <1>3, <1>4
<1>6. /\ UNCHANGED <<feed, ring, swapped>> /\ Upto(got', made) /\ Upto(ingest', made)
      /\ Len(ingest') <= Capacity /\ Rising(got') /\ Rising(ingest') /\ Before(got', ingest')
  BY <1>1, <1>2
<1>7. QED
  BY <1>1, <1>5, <1>6, BytesKeep

LEMMA WholeSamples ==
    ASSUME NEW l \in Nat, NEW k \in Nat, l = 2 * k \/ l = 2 * k + 1
    PROVE  l - (l % 2) = 2 * k
  OBVIOUS

\* Whole samples are decoded, k of them; an odd byte waits, with what is under way
\* behind it.
Decoded(p, g, a, m, k) ==
    /\ k \in 0 .. m
    /\ Feed!DecodeRtlTcp(Feed!Leading(p, Feed!RtlTcpUsable(p))) = Span(a, k)
    /\ Feed!RtlTcpPending(p) \in Seq(Nat) /\ Len(Feed!RtlTcpPending(p)) <= 1
    /\ Feed!RtlTcpPending(p) \o g = Stream(a + k, m - k)

LEMMA BytesDecode ==
    ASSUME NEW a \in Nat, NEW m \in Nat, NEW p \in Seq(Nat), NEW g \in Seq(Nat),
           p \o g = Stream(a, m), NEW k \in Nat, Len(p) = 2 * k \/ Len(p) = 2 * k + 1
    PROVE  Decoded(p, g, a, m, k)
<1> DEFINE l == Len(p)
           b == Len(g)
           u == Feed!RtlTcpUsable(p)
           h == Feed!Leading(p, u)
           d == Feed!DecodeRtlTcp(h)
           w == Feed!RtlTcpPending(p)
           j == p \o g
<1>1. /\ l \in Nat /\ b \in Nat /\ Len(j) = l + b
      /\ \A i \in 1 .. l + b : j[i] = IF i <= l THEN p[i] ELSE g[i - l]
  BY LenProperties, ConcatProperties
<1>2. j = Stream(a, m)
  OBVIOUS
<1>3. u = l - (l % 2)
  BY DEF Feed!RtlTcpUsable
<1>4. w = Feed!Without(p, u) /\ d = [i \in 1 .. Len(h) \div 2 |-> <<h[2 * i - 1], h[2 * i]>>]
  BY DEF Feed!RtlTcpPending, Feed!DecodeRtlTcp
<1>5. l = 2 * k \/ l = 2 * k + 1
  OBVIOUS
<1> HIDE DEF l, b, u, d, w, j
<1>15. Len(j) = 2 * m /\ \A i \in 1 .. 2 * m : j[i] = 2 * a + i + 1
  BY <1>2, StreamIs
<1>6. l + b = 2 * m
  BY <1>1, <1>15
<1>7. ASSUME NEW i \in 1 .. l PROVE p[i] = 2 * a + i + 1
  <2>1. i \in 1 .. l + b /\ i <= l
    BY <1>1
  <2>2. QED
    BY <1>1, <1>15, <1>6, <2>1
<1>8. ASSUME NEW i \in 1 .. b PROVE g[i] = 2 * a + (l + i) + 1
  <2> DEFINE e == l + i
  <2>1. e \in 1 .. l + b /\ ~ (e <= l) /\ e - l = i
    BY <1>1
  <2> HIDE DEF e
  <2>2. j[e] = g[i] /\ j[e] = 2 * a + e + 1
    BY <1>1, <1>15, <1>6, <2>1
  <2>3. QED
    BY <2>2 DEF e
<1>9. u = 2 * k /\ k \in Nat /\ u \in 0 .. l /\ l - u <= 1 /\ u \div 2 = k /\ k \in 0 .. m
  <2>1. u = 2 * k
    BY <1>1, <1>3, <1>5, WholeSamples
  <2>2. QED
    BY <1>1, <1>5, <1>6, <2>1
<1>10. /\ h \in Seq(Nat) /\ Len(h) = u /\ \A i \in 1 .. u : h[i] = p[i]
  BY <1>9, LeadingIs DEF l
<1> HIDE DEF h
<1>11. d = Span(a, k)
  <2>1. d = [i \in 1 .. k |-> <<h[2 * i - 1], h[2 * i]>>]
    BY <1>4, <1>9, <1>10
  <2>2. ASSUME NEW i \in 1 .. k PROVE <<h[2 * i - 1], h[2 * i]>> = Feed!Sample(a + i)
    <3> DEFINE x == 2 * i - 1
               y == 2 * i
    <3>1. /\ x \in 1 .. u /\ x \in 1 .. l /\ 2 * a + x + 1 = 2 * (a + i)
          /\ y \in 1 .. u /\ y \in 1 .. l /\ 2 * a + y + 1 = 2 * (a + i) + 1
      BY <1>1, <1>9
    <3> HIDE DEF x, y
    <3>2. h[x] = 2 * (a + i)
      BY <1>7, <1>10, <3>1
    <3>3. h[y] = 2 * (a + i) + 1
      BY <1>7, <1>10, <3>1
    <3>4. QED
      BY <3>2, <3>3 DEF x, y, Feed!Sample, Feed!I, Feed!Q
  <2>3. QED
    BY <2>1, <2>2 DEF Span
<1>12. /\ w \in Seq(Nat) /\ Len(w) = l - u /\ \A i \in 1 .. l - u : w[i] = p[u + i]
  <2>1. u \in 0 .. Len(p)
    BY <1>9 DEF l
  <2>2. /\ Feed!Without(p, u) \in Seq(Nat) /\ Len(Feed!Without(p, u)) = Len(p) - u
        /\ \A i \in 1 .. Len(p) - u : Feed!Without(p, u)[i] = p[u + i]
    BY <2>1, WithoutIs
  <2>3. QED
    BY <1>4, <2>2 DEF l
<1>13. w \o g = Stream(a + k, m - k)
  <2> DEFINE c == a + k
             n == m - k
             r == l - u
             s == Stream(c, n)
             v == w \o g
  <2>1. c \in Nat /\ n \in Nat /\ r \in Nat /\ r + b = 2 * n /\ 2 * c = 2 * a + u /\ r = l - u
    BY <1>1, <1>6, <1>9
  <2>2. Len(w) = r /\ \A i \in 1 .. r : w[i] = p[u + i]
    BY <1>12
  <2> HIDE DEF c, n, r
  <2>3. s \in Seq(Nat) /\ Len(s) = 2 * n /\ \A i \in 1 .. 2 * n : s[i] = 2 * c + i + 1
    BY <2>1, StreamIs
  <2>4. /\ v \in Seq(Nat) /\ Len(v) = r + b
        /\ \A i \in 1 .. r + b : v[i] = IF i <= r THEN w[i] ELSE g[i - r]
    BY <1>12, <2>2, ConcatProperties DEF b
  <2> HIDE DEF s, v
  <2>5. ASSUME NEW i \in 1 .. r + b PROVE v[i] = s[i]
    <3>1. s[i] = 2 * c + i + 1
      BY <2>1, <2>3
    <3>2. CASE i <= r
      <4> DEFINE e == u + i
      <4>1. i \in 1 .. r /\ e \in 1 .. l /\ 2 * a + e + 1 = 2 * c + i + 1
        BY <1>1, <1>9, <2>1, <3>2
      <4>2. v[i] = p[e]
        BY <2>2, <2>4, <3>2, <4>1
      <4> HIDE DEF e
      <4>3. QED
        BY <1>7, <3>1, <4>1, <4>2
    <3>3. CASE ~ (i <= r)
      <4> DEFINE e == i - r
      <4>1. e \in 1 .. b /\ 2 * a + (l + e) + 1 = 2 * c + i + 1
        BY <1>1, <1>9, <2>1, <3>3
      <4>2. v[i] = g[e]
        BY <2>4, <3>3
      <4> HIDE DEF e
      <4>3. QED
        BY <1>8, <3>1, <4>1, <4>2
    <3>4. QED
      BY <3>2, <3>3
  <2>6. v = s
    BY <2>1, <2>3, <2>4, <2>5, SeqEqual
  <2>7. QED
    BY <2>6 DEF c, n, s, v
<1>14. QED
  BY <1>9, <1>11, <1>12, <1>13 DEF d, h, u, w, Decoded

LEMMA BytesAreRead == ASSUME FeedInv, Feed!BytesArrive PROVE FeedInv'
<1>1. feed = "rtl_tcp" /\ UNCHANGED <<feed, made, ring, got, swapped>>
  BY DEF Feed!BytesArrive
<1>2. PICK n \in 1 .. Len(flight) :
        LET now == Feed!ReceiveBytes([queue |-> ingest, pending |-> bytes], Feed!Leading(flight, n))
        IN  ingest' = now.queue /\ bytes' = now.pending /\ flight' = Feed!Without(flight, n)
  BY DEF Feed!BytesArrive
<1>3. PICK a \in 0 .. made : Streams(a)
  BY <1>1 DEF FeedInv
<1>4. /\ made \in Nat /\ ingest \in Seq(IqType)
      /\ Rising(got) /\ Rising(ingest) /\ Before(got, ingest)
  BY <1>1 DEF FeedInv, FeedTypes, Upto
<1>5. /\ bytes \in Seq(Nat) /\ flight \in Seq(Nat)
      /\ bytes \o flight = Stream(a, made - a) /\ Upto(got, a) /\ Upto(ingest, a)
  BY <1>3 DEF Streams
<1> DEFINE h == Feed!Leading(flight, n)
           g == Feed!Without(flight, n)
           p == bytes \o h
           m == made - a
           k == Len(p) \div 2
           s == Span(a, k)
           c == a + k
           j == ingest \o s
<1>6. h \in Seq(Nat) /\ g \in Seq(Nat) /\ flight = h \o g
  <2>1. n \in 0 .. Len(flight) /\ Len(flight) \in Nat
    BY <1>5, LenProperties
  <2>2. /\ h \in Seq(Nat) /\ Len(h) = n /\ \A i \in 1 .. n : h[i] = flight[i]
    BY <1>5, <2>1, LeadingIs
  <2>3. /\ g \in Seq(Nat) /\ Len(g) = Len(flight) - n
        /\ \A i \in 1 .. Len(flight) - n : g[i] = flight[n + i]
    BY <1>5, <2>1, WithoutIs
  <2> DEFINE v == h \o g
  <2> HIDE DEF h, g
  <2>4. /\ v \in Seq(Nat) /\ Len(v) = Len(h) + Len(g)
        /\ \A i \in 1 .. Len(h) + Len(g) : v[i] = IF i <= Len(h) THEN h[i] ELSE g[i - Len(h)]
    BY <2>2, <2>3, ConcatProperties
  <2> HIDE DEF v
  <2>5. Len(v) = Len(flight) /\ \A i \in 1 .. Len(flight) : v[i] = flight[i]
    <3>1. Len(v) = Len(flight)
      BY <2>1, <2>2, <2>3, <2>4
    <3>2. ASSUME NEW i \in 1 .. Len(flight) PROVE v[i] = flight[i]
      <4>1. v[i] = IF i <= n THEN h[i] ELSE g[i - n]
        BY <2>1, <2>2, <2>3, <2>4
      <4>2. CASE i <= n
        BY <2>1, <2>2, <4>1, <4>2
      <4>3. CASE ~ (i <= n)
        <5>1. i - n \in 1 .. Len(flight) - n /\ n + (i - n) = i
          BY <2>1, <4>3
        <5>2. g[i - n] = flight[n + (i - n)]
          BY <2>3, <5>1
        <5>3. QED
          BY <4>1, <4>3, <5>1, <5>2
      <4>4. QED
        BY <4>2, <4>3
    <3>3. QED
      BY <3>1, <3>2
  <2>6. v = flight
    BY <1>5, <2>4, <2>5, SeqEqual
  <2>7. QED
    BY <2>2, <2>3, <2>6 DEF v
<1>7. /\ ingest' = Feed!IngestPush(ingest, Feed!DecodeRtlTcp(Feed!Leading(p, Feed!RtlTcpUsable(p))))
      /\ bytes' = Feed!RtlTcpPending(p) /\ flight' = g
  BY <1>2 DEF Feed!ReceiveBytes
<1> HIDE DEF h, g
<1>8. p \in Seq(Nat)
  BY <1>5, <1>6, ConcatProperties
<1>9. p \o g = Stream(a, m)
  <2>1. bytes \in Seq(Nat) /\ h \in Seq(Nat) /\ g \in Seq(Nat)
    BY <1>5, <1>6
  <2>2. (bytes \o h) \o g = bytes \o (h \o g)
    BY <2>1, BytesAssociate
  <2>3. QED
    BY <1>5, <1>6, <2>2
<1>10. a \in Nat /\ m \in Nat
  BY <1>4
<1> HIDE DEF p, m
<1>11. /\ k \in 0 .. m /\ ingest' = Feed!IngestPush(ingest, s)
       /\ bytes' \in Seq(Nat) /\ Len(bytes') <= 1 /\ bytes' \o g = Stream(a + k, m - k)
  <2>1. k \in Nat /\ (Len(p) = 2 * k \/ Len(p) = 2 * k + 1)
    BY <1>8, LenProperties
  <2> HIDE DEF k
  <2>2. /\ k \in 0 .. m
        /\ Feed!DecodeRtlTcp(Feed!Leading(p, Feed!RtlTcpUsable(p))) = Span(a, k)
        /\ Feed!RtlTcpPending(p) \in Seq(Nat) /\ Len(Feed!RtlTcpPending(p)) <= 1
        /\ Feed!RtlTcpPending(p) \o g = Stream(a + k, m - k)
    <3>1. g \in Seq(Nat)
      BY <1>6
    <3>2. Decoded(p, g, a, m, k)
      BY <1>8, <1>9, <1>10, <2>1, <3>1, BytesDecode
    <3>3. QED
      BY <3>2 DEF Decoded
  <2>3. QED
    BY <1>7, <2>2
<1> HIDE DEF k
<1>12. c \in 0 .. made /\ m - k = made - c /\ k \in Nat /\ c \in Nat /\ a <= c
  BY <1>4, <1>10, <1>11 DEF m
<1>13. /\ s \in Seq(IqType) /\ Len(s) = k /\ Upto(s, c) /\ Rising(s)
       /\ \A i \in 1 .. k : s[i][1] = 2 * (a + i)
  <2>1. a + k <= c
    BY <1>10, <1>12
  <2>2. Upto(s, c) /\ Rising(s)
    BY <1>10, <1>12, <2>1, SpanRises
  <2>3. /\ s \in Seq(IqType) /\ Len(s) = k /\ \A i \in 1 .. k : s[i][1] = 2 * (a + i)
    BY <1>10, <1>12, SpanIs
  <2>4. QED
    BY <2>2, <2>3
<1> HIDE DEF s
<1>14. Before(got, s) /\ Before(ingest, s)
  <2>1. \A i \in 1 .. k : 2 * (a + i) \in Nat /\ 2 * (a + i) > 2 * a
    BY <1>10, <1>12
  <2>2. \A i \in 1 .. Len(s) : s[i][1] \in Nat /\ s[i][1] > 2 * a
    BY <1>13, <2>1
  <2>3. QED
    BY <1>5, <1>10, <2>2, UptoBefore
<1> HIDE DEF c
<1>15. Upto(got, c) /\ Upto(ingest, c)
  BY <1>5, <1>10, <1>12, UptoLater
<1>16. j \in Seq(IqType) /\ Upto(j, c) /\ Rising(j) /\ Before(got, j)
  BY <1>4, <1>13, <1>14, <1>15, JoinKeeps
<1>17. Piece(ingest', j) /\ Len(ingest') <= Capacity
  BY <1>4, <1>11, <1>13, IngestTakes
<1> HIDE DEF j
<1>18. Upto(ingest', c) /\ Rising(ingest') /\ Before(got, ingest')
  BY <1>16, <1>17, PieceKeeps
<1>19. bytes' \o flight' = Stream(c, made' - c)
  BY <1>1, <1>7, <1>11, <1>12 DEF c
<1>20. /\ made' \in Nat /\ c \in 0 .. made' /\ bytes' \in Seq(Nat) /\ flight' \in Seq(Nat)
       /\ Len(bytes') <= 1
  BY <1>1, <1>4, <1>6, <1>7, <1>11, <1>12
<1>21. Upto(got', c) /\ Before(got', ingest') /\ Rising(got')
  BY <1>1, <1>4, <1>15, <1>18
<1>22. QED
  BY <1>1, <1>17, <1>18, <1>19, <1>20, <1>21, BytesKeep

----------------------------------------------------------------------------
(* The reader of a network source, and every step *)

\* A block off the front of a queue comes before what stays.
LEMMA BlockTaken ==
    ASSUME NEW q \in Seq(IqType), NEW n \in 0 .. Len(q)
    PROVE  /\ Piece(Feed!Leading(q, n), q) /\ Piece(Feed!Without(q, n), q)
           /\ Len(Feed!Without(q, n)) <= Len(q)
           /\ Rising(q) => Before(Feed!Leading(q, n), Feed!Without(q, n))
<1> DEFINE h == Feed!Leading(q, n)
           t == Feed!Without(q, n)
           l == Len(q)
<1>1. l \in Nat /\ n \in 0 .. l
  BY LenProperties
<1>2. Len(h) = n /\ \A i \in 1 .. n : h[i] = q[i]
  BY LeadingIs
<1>3. Len(t) = l - n /\ \A i \in 1 .. l - n : t[i] = q[n + i]
  BY WithoutIs
<1>4. Piece(h, q) /\ Piece(t, q)
  BY LeadingIsPiece, WithoutIsPiece
<1> HIDE DEF h, t, l
<1>5. \A i \in 1 .. n, j \in 1 .. l - n : i \in 1 .. l /\ n + j \in 1 .. l /\ i < n + j
  BY <1>1
<1>6. Rising(q) => Before(h, t)
  BY <1>2, <1>3, <1>5 DEF Rising, Before, l
<1>7. Len(t) <= l
  BY <1>1, <1>3
<1>8. QED
  BY <1>4, <1>6, <1>7 DEF h, t, l

LEMMA BlockIsRead == ASSUME FeedInv, Feed!Reads PROVE FeedInv'
<1>1. /\ feed \in {"psiq", "rtl_tcp"} /\ ReadSize <= Len(ingest)
      /\ got' = Feed!Leading(ingest, ReadSize) /\ ingest' = Feed!Without(ingest, ReadSize)
      /\ UNCHANGED <<feed, made, flight, bytes, ring, swapped>>
  BY DEF Feed!Reads, Feed!IngestReady, Feed!IngestRead
<1>2. /\ made \in Nat /\ swapped \in BOOLEAN /\ Upto(ingest, made) /\ Len(ingest) <= Capacity
      /\ ingest \in Seq(IqType) /\ Len(ingest) \in Nat /\ Capacity \in Nat /\ ReadSize \in Nat
  BY FeedConstants, LenProperties DEF FeedInv, FeedTypes, Upto
<1>3. ReadSize \in 0 .. Len(ingest)
  BY <1>1, <1>2
<1>4. /\ Piece(got', ingest) /\ Piece(ingest', ingest) /\ Len(ingest') <= Len(ingest)
      /\ Rising(ingest) => Before(got', ingest')
  BY <1>1, <1>2, <1>3, BlockTaken
<1>5. Len(ingest') <= Capacity
  <2>1. Len(ingest') \in Nat
    BY <1>4, LenProperties DEF Piece
  <2>2. QED
    BY <1>2, <1>4, <2>1
<1>6. Rising(ingest) => Rising(got') /\ Rising(ingest')
  BY <1>2, <1>4, PieceKeeps
<1>7. \A n : Upto(ingest, n) => Upto(got', n) /\ Upto(ingest', n)
  BY <1>2, <1>4, PieceKeeps
<1>8. \A t : Before(ingest, t) => Before(got', t) /\ Before(ingest', t)
  BY <1>2, <1>4, PieceKeeps
<1>9. CASE feed = "psiq"
  <2>1. Underway(flight, made)
    BY <1>9 DEF FeedInv
  <2>2. /\ made' \in Nat /\ swapped' \in BOOLEAN /\ Upto(got', made') /\ Upto(ingest', made')
        /\ UNCHANGED <<feed, ring>> /\ Underway(flight', made')
    BY <1>1, <1>2, <1>7, <2>1
  <2>3. ASSUME ~ swapped
        PROVE  /\ Rising(got') /\ Rising(ingest') /\ Before(got', ingest')
               /\ Follows(flight, got') /\ Follows(flight, ingest') /\ InTurn(flight)
    <3>1. Rising(ingest) /\ Follows(flight, ingest) /\ InTurn(flight)
      BY <1>9, <2>3 DEF FeedInv
    <3>2. Follows(flight, got') /\ Follows(flight, ingest')
      BY <1>8, <3>1 DEF Follows
    <3>3. QED
      BY <1>4, <1>6, <3>1, <3>2
  <2>4. ~ swapped' =>
          /\ Rising(got') /\ Rising(ingest') /\ Before(got', ingest')
          /\ Follows(flight', got') /\ Follows(flight', ingest') /\ InTurn(flight')
    BY <1>1, <2>3
  <2>5. QED
    BY <1>5, <1>9, <2>2, <2>4, PsiqKeeps
<1>10. CASE feed = "rtl_tcp"
  <2>1. PICK a \in 0 .. made : Streams(a)
    BY <1>10 DEF FeedInv
  <2>2. /\ bytes \in Seq(Nat) /\ flight \in Seq(Nat) /\ Len(bytes) <= 1
        /\ bytes \o flight = Stream(a, made - a) /\ Upto(ingest, a)
    BY <2>1 DEF Streams
  <2>3. Rising(ingest)
    BY <1>10 DEF FeedInv
  <2>4. /\ made' \in Nat /\ a \in 0 .. made' /\ UNCHANGED <<feed, ring, swapped>>
        /\ bytes' \in Seq(Nat) /\ flight' \in Seq(Nat) /\ Len(bytes') <= 1
        /\ bytes' \o flight' = Stream(a, made' - a)
    BY <1>1, <1>2, <2>2
  <2>5. /\ Upto(got', a) /\ Upto(ingest', a)
        /\ Rising(got') /\ Rising(ingest') /\ Before(got', ingest')
    BY <1>4, <1>6, <1>7, <2>2, <2>3
  <2>6. QED
    BY <1>5, <1>10, <2>4, <2>5, BytesKeep
<1>11. QED
  BY <1>1, <1>9, <1>10

LEMMA FeedStands == ASSUME FeedInv, UNCHANGED feedVars PROVE FeedInv'
<1>1. UNCHANGED <<feed, made, flight, ingest, bytes, ring, got, swapped>>
  BY DEF feedVars
<1>2. /\ made \in Nat /\ swapped \in BOOLEAN /\ Upto(got, made) /\ Upto(ingest, made)
      /\ Len(ingest) <= Capacity
      /\ ~ swapped => Rising(got) /\ Rising(ingest) /\ Before(got, ingest)
  BY DEF FeedInv, FeedTypes
<1>3. CASE feed = "psiq"
  <2>1. /\ Underway(flight, made)
        /\ ~ swapped => Follows(flight, got) /\ Follows(flight, ingest) /\ InTurn(flight)
    BY <1>3 DEF FeedInv
  <2>2. QED
    BY <1>1, <1>2, <1>3, <2>1, PsiqKeeps
<1>4. CASE feed = "rtl_tcp"
  <2>1. PICK a \in 0 .. made : Streams(a)
    BY <1>4 DEF FeedInv
  <2>2. ~ swapped
    BY <1>4 DEF FeedInv
  <2>3. /\ bytes \in Seq(Nat) /\ flight \in Seq(Nat) /\ Len(bytes) <= 1
        /\ bytes \o flight = Stream(a, made - a) /\ Upto(got, a) /\ Upto(ingest, a)
    BY <2>1 DEF Streams
  <2>4. QED
    BY <1>1, <1>2, <1>4, <2>2, <2>3, BytesKeep
<1>5. CASE feed \in {"ring", "latest"}
  <2>1. PICK k, a, n \in 0 .. made : Rings(k, a, n)
    BY <1>5 DEF FeedInv
  <2>2. /\ ring \in RingType /\ ring.queue = Span(made - k, k) /\ k <= Capacity
        /\ ring.pushed = ring.taken + ring.dropped + ring.skipped + k
        /\ got = Span(a, n) /\ a + n <= made
        /\ feed = "ring" => a + n <= made - k
    BY <2>1 DEF Rings
  <2>3. QED
    BY <1>1, <1>5, <2>2, RingReaderKeeps
<1>6. CASE feed \notin {"psiq", "rtl_tcp", "ring", "latest"}
  <2>1. ~ swapped /\ ring = Feed!NewRing
    BY <1>6 DEF FeedInv
  <2>2. FeedTypes'
    BY <1>1, <1>2 DEF FeedTypes, Upto, Feed!Sample, Feed!I, Feed!Q, IqType
  <2>3. (Rising(got) /\ Rising(ingest) /\ Before(got, ingest))'
    BY <1>1, <1>2, <2>1 DEF Rising, Before
  <2>4. (ring = Feed!NewRing)' /\ ~ swapped' /\ feed' = feed
    BY <1>1, <2>1 DEF Feed!NewRing
  <2>5. QED
    BY <1>6, <2>2, <2>3, <2>4 DEF FeedInv
<1>7. QED
  BY <1>3, <1>4, <1>5, <1>6

LEMMA FeedStepKeeps == ASSUME FeedInv, Feed!FeedNext PROVE FeedInv'
<1>1. CASE Feed!Captures
  <2>1. feed \in {"psiq", "rtl_tcp", "ring", "latest"}
    BY <1>1 DEF Feed!Captures
  <2>2. QED
    BY <1>1, <2>1, PacketsLeave, BytesLeave, RingTakes
<1>2. CASE Feed!PacketLost \/ Feed!PacketTwice \/ Feed!PacketsSwapped \/ Feed!ForeignDatagram
  BY <1>2, PacketsSuffer
<1>3. CASE Feed!DatagramArrives
  BY <1>3, PacketArrives
<1>4. CASE Feed!BytesArrive
  BY <1>4, BytesAreRead
<1>5. CASE Feed!Reconnects
  BY <1>5, BytesLost
<1>6. CASE Feed!Reads
  BY <1>6, BlockIsRead
<1>7. CASE Feed!Takes \/ Feed!Looks
  BY <1>7, RingGives
<1>8. QED
  BY <1>1, <1>2, <1>3, <1>4, <1>5, <1>6, <1>7 DEF Feed!FeedNext

LEMMA RisingIsInOrder == ASSUME NEW s \in Seq(IqType), Rising(s) PROVE Feed!InOrder(s)
  BY LenProperties DEF Rising, Feed!InOrder

LEMMA UptoIsCaptured ==
    ASSUME NEW s, NEW n, Upto(s, n)
    PROVE  \A i \in DOMAIN s : \E k \in 1 .. n : s[i] = Feed!Sample(k)
  BY LenProperties DEF Upto

\* What the invariant says of the blocks a reader gets.
LEMMA FeedIsIntact == ASSUME FeedInv PROVE Feed!IqIntact
<1>1. /\ made \in Nat /\ Upto(got, made) /\ Upto(ingest, made) /\ Len(ingest) <= Capacity
      /\ got \in Seq(IqType) /\ ingest \in Seq(IqType) /\ Capacity \in Nat
  BY FeedConstants DEF FeedInv, FeedTypes, Upto
<1>2. ~ swapped => Feed!InOrder(got \o ingest)
  <2>1. SUFFICES ASSUME ~ swapped PROVE Feed!InOrder(got \o ingest)
    OBVIOUS
  <2>2. Rising(got) /\ Rising(ingest) /\ Before(got, ingest)
    BY <2>1 DEF FeedInv
  <2>3. got \o ingest \in Seq(IqType) /\ Rising(got \o ingest)
    BY <1>1, <2>2, JoinKeeps
  <2>4. QED
    BY <2>3, RisingIsInOrder
<1>3. ASSUME feed \in {"ring", "latest"}
      PROVE  /\ Upto(ring.queue, made) /\ Len(ring.queue) <= Capacity
             /\ ring.pushed = ring.taken + ring.dropped + ring.skipped + Len(ring.queue)
             /\ Feed!Contiguous(got) /\ Feed!Contiguous(ring.queue)
             /\ feed = "ring" => Feed!InOrder(got \o ring.queue)
  <2>1. PICK k, a, n \in 0 .. made : Rings(k, a, n)
    BY <1>3 DEF FeedInv
  <2> DEFINE b == made - k
  <2>2. k \in Nat /\ a \in Nat /\ n \in Nat /\ b \in Nat /\ b + k = made
    BY <1>1, <2>1 DEF Rings
  <2>3. /\ ring.queue = Span(b, k) /\ got = Span(a, n) /\ k <= Capacity /\ a + n <= made
        /\ ring.pushed = ring.taken + ring.dropped + ring.skipped + k
        /\ feed = "ring" => a + n <= b
    BY <2>1 DEF Rings
  <2> HIDE DEF b
  <2>4. /\ Span(b, k) \in Seq(IqType) /\ Len(Span(b, k)) = k
        /\ \A i \in 1 .. k : Span(b, k)[i][1] = 2 * (b + i)
    BY <2>2, SpanIs
  <2>5. Upto(Span(b, k), made) /\ Rising(Span(b, k))
    BY <1>1, <2>2, SpanRises
  <2>6. Feed!Contiguous(Span(b, k)) /\ Feed!Contiguous(Span(a, n))
    BY <2>2, SpanContiguous
  <2>7. ASSUME feed = "ring" PROVE Feed!InOrder(got \o Span(b, k))
    <3>1. a + n \in Nat /\ a + n <= b
      BY <2>2, <2>3, <2>7
    <3>2. Upto(Span(a, n), b) /\ Rising(Span(a, n))
      BY <2>2, <3>1, SpanRises
    <3>3. \A i \in 1 .. k : 2 * (b + i) \in Nat /\ 2 * (b + i) > 2 * b
      BY <2>2
    <3>4. \A i \in 1 .. Len(Span(b, k)) : Span(b, k)[i][1] \in Nat /\ Span(b, k)[i][1] > 2 * b
      BY <2>4, <3>3
    <3>5. Before(Span(a, n), Span(b, k))
      BY <2>2, <3>2, <3>4, UptoBefore
    <3>6. got \o Span(b, k) \in Seq(IqType) /\ Rising(got \o Span(b, k))
      BY <1>1, <2>3, <2>4, <2>5, <3>2, <3>5, JoinKeeps
    <3>7. QED
      BY <3>6, RisingIsInOrder
  <2>8. QED
    BY <2>3, <2>4, <2>5, <2>6, <2>7
<1>4. ASSUME feed \notin {"ring", "latest"}
      PROVE  /\ Upto(ring.queue, made) /\ Len(ring.queue) <= Capacity
             /\ ring.pushed = ring.taken + ring.dropped + ring.skipped + Len(ring.queue)
  <2>1. /\ ring.queue = <<>> /\ ring.pushed = 0 /\ ring.taken = 0 /\ ring.dropped = 0
        /\ ring.skipped = 0
    BY <1>4 DEF FeedInv, Feed!NewRing
  <2>2. Len(<<>>) = 0 /\ Upto(<<>>, made)
    BY <1>1, NothingHeard, EmptySeq
  <2>3. QED
    BY <1>1, <2>1, <2>2
<1>5. /\ Upto(ring.queue, made) /\ Len(ring.queue) <= Capacity
      /\ ring.pushed = ring.taken + ring.dropped + ring.skipped + Len(ring.queue)
      /\ feed \in {"ring", "latest"} => Feed!Contiguous(got) /\ Feed!Contiguous(ring.queue)
      /\ feed = "ring" => Feed!InOrder(got \o ring.queue)
  BY <1>3, <1>4
<1>6. \A s \in {got, ingest, ring.queue} :
        \A i \in DOMAIN s : \E k \in 1 .. made : s[i] = Feed!Sample(k)
  BY <1>1, <1>5, UptoIsCaptured
<1>7. QED
  BY <1>1, <1>2, <1>5, <1>6 DEF Feed!IqIntact

\* However packets are cut, lost, repeated and swapped, bytes grouped and connections
\* lost, a sample keeps its I and its Q, nothing is read that was not sent, what the
\* network kept in order is read in order, a block off a ring has no gap and the
\* books of a ring account for every sample.
THEOREM IqStaysIntact == Spec => []IqIntact
<1> DEFINE Inv == scene = "feed" => FeedInv
<1>1. Init => Inv
  BY FeedInitial DEF Init
<1>2. Inv /\ [Next]_vars => Inv'
  <2> SUFFICES ASSUME Inv, [Next]_vars PROVE Inv'
    OBVIOUS
  <2>1. CASE FeedStep
    BY <2>1, FeedStepKeeps DEF FeedStep
  <2>2. CASE BandsStep \/ WindowsStep \/ SoundStep \/ RecStep \/ TrunkStep \/ InstallStep
    BY <2>2 DEF BandsStep, WindowsStep, SoundStep, RecStep, TrunkStep, InstallStep
  <2>3. CASE UNCHANGED vars
    <3>1. scene' = scene /\ UNCHANGED feedVars
      BY <2>3 DEF vars
    <3>2. QED
      BY <3>1, FeedStands
  <2>4. QED
    BY <2>1, <2>2, <2>3 DEF Next
<1>3. Inv => IqIntact
  BY FeedIsIntact DEF IqIntact
<1>4. QED
  BY <1>1, <1>2, <1>3, PTL DEF Spec

----------------------------------------------------------------------------
(* The framing of AIS, for frames of any length.  BitFraming's machines run   *)
(* in blocks; first that this is to take one element after the other.  The    *)
(* lemmas on it (Runs, InBlock, After, Grows) are stated for each machine by  *)
(* itself: the provers cannot give a lemma an operator for a parameter.       *)

CONSTANTS
    MaxFrameBits,  \* bits a deframer keeps without a flag
    MaxBodyBytes   \* octets of an ACARS block

Framing == INSTANCE BitFraming

\* A set of numbers that holds zero and with each its successor holds all.
LEMMA UpTo ==
    ASSUME NEW n \in Nat, NEW A, 0 \in A, \A i \in 1 .. n : i - 1 \in A => i \in A
    PROVE  0 .. n \subseteq A
<1> DEFINE missing == {i \in Nat : i <= n /\ i \notin A}
<1> SUFFICES ASSUME missing # {} PROVE FALSE
  OBVIOUS
<1>1. missing \subseteq Nat
  OBVIOUS
<1>2. PICK m \in missing : \A k \in missing : <<k, m>> \notin OpToRel(<, Nat)
  <2> HIDE DEF missing
  <2>1. QED
    BY <1>1, NatLessThanWellFounded, WFMin, Zenon
<1>3. m \in 1 .. n /\ m - 1 \in Nat
  OBVIOUS
<1>4. m - 1 \notin A
  BY <1>3
<1>5. <<m - 1, m>> \in OpToRel(<, Nat)
  BY <1>3 DEF OpToRel
<1>6. m - 1 \in missing
  BY <1>3, <1>4
<1>7. QED
  BY <1>2, <1>5, <1>6

BlockEnd(b, s) == IF b * Framing!BLOCK < Len(s) THEN b * Framing!BLOCK ELSE Len(s)

LEMMA BlockEnds ==
    ASSUME NEW s, Len(s) \in Nat
    PROVE  LET final == Len(s) \div Framing!BLOCK + 1
           IN  /\ final \in Nat /\ BlockEnd(0, s) = 0 /\ BlockEnd(final, s) = Len(s)
               /\ \A b \in 1 .. final :
                     /\ BlockEnd(b - 1, s) \in Nat /\ BlockEnd(b, s) \in Nat
                     /\ BlockEnd(b - 1, s) <= BlockEnd(b, s) /\ BlockEnd(b, s) <= Len(s)
  BY DEF BlockEnd, Framing!BLOCK

\* StuffStep, one bit after the other.
StuffRun(r, start, s) == r[0] = start /\ \A i \in 1 .. Len(s) : r[i] = Framing!StuffStep(r[i - 1], s[i])
StuffBlock(x, from, to, s) ==
    CHOOSE at : at = [i \in from .. to |-> IF i = from THEN x ELSE Framing!StuffStep(at[i - 1], s[i])]
StuffBlocks(start, s) ==
    CHOOSE block : block = [b \in 0 .. Len(s) \div Framing!BLOCK + 1 |->
        IF b = 0 THEN start
        ELSE CHOOSE y \in { StuffBlock(x, BlockEnd(b - 1, s), BlockEnd(b, s), s)[BlockEnd(b, s)] :
                              x \in {block[b - 1]} } : TRUE]

LEMMA StuffRuns ==
    ASSUME NEW start, NEW s, Len(s) \in Nat
    PROVE  \E r : StuffRun(r, start, s)
<1> DEFINE runs(r, n) == r[0] = start /\ \A i \in 1 .. n : r[i] = Framing!StuffStep(r[i - 1], s[i])
           A == {n \in 0 .. Len(s) : \E r : runs(r, n)}
<1>1. 0 \in A
  <2>1. runs([i \in {0} |-> start], 0)
    OBVIOUS
  <2> HIDE DEF runs
  <2>2. QED
    BY <2>1
<1>2. ASSUME NEW n \in 1 .. Len(s), n - 1 \in A PROVE n \in A
  <2>1. PICK r : runs(r, n - 1)
    BY <1>2
  <2> DEFINE final == Framing!StuffStep(r[n - 1], s[n])
             q == [i \in 0 .. n |-> IF i = n THEN final ELSE r[i]]
  <2>2. n \in Nat /\ q[0] = start /\ q[n] = final /\ \A i \in 0 .. n - 1 : q[i] = r[i]
    <3> HIDE DEF final
    <3>1. QED
      BY <2>1
  <2>3. ASSUME NEW i \in 1 .. n PROVE q[i] = Framing!StuffStep(q[i - 1], s[i])
    <3> HIDE DEF q
    <3>1. i - 1 \in 0 .. n - 1 /\ (i = n \/ (i \in 1 .. n - 1 /\ i \in 0 .. n - 1))
      BY <2>2
    <3>2. q[i - 1] = r[i - 1]
      BY <2>2, <3>1
    <3>3. CASE i = n
      BY <2>2, <3>2, <3>3
    <3>4. CASE i \in 1 .. n - 1 /\ i \in 0 .. n - 1
      <4>1. r[i] = Framing!StuffStep(r[i - 1], s[i])
        BY <2>1, <3>4
      <4>2. QED
        BY <2>2, <3>2, <3>4, <4>1
    <3>5. QED
      BY <3>1, <3>3, <3>4
  <2>4. runs(q, n)
    <3> HIDE DEF q
    <3>1. QED
      BY <2>2, <2>3
  <2> HIDE DEF runs
  <2>5. QED
    BY <1>2, <2>4
<1>3. Len(s) \in A
  <2> HIDE DEF A
  <2>1. 0 .. Len(s) \subseteq A
    BY <1>1, <1>2, UpTo
  <2>2. QED
    BY <2>1
<1>4. QED
  BY <1>3 DEF StuffRun

LEMMA StuffInBlock ==
    ASSUME NEW r, NEW start, NEW s, Len(s) \in Nat, StuffRun(r, start, s),
           NEW from \in Nat, NEW to \in Nat, from <= to, to <= Len(s)
    PROVE  StuffBlock(r[from], from, to, s)[to] = r[to]
<1> DEFINE solves(at) ==
      at = [i \in from .. to |-> IF i = from THEN r[from] ELSE Framing!StuffStep(at[i - 1], s[i])]
           g == [i \in from .. to |-> r[i]]
<1>1. solves(g)
  <2>1. ASSUME NEW i \in from .. to
        PROVE  r[i] = IF i = from THEN r[from] ELSE Framing!StuffStep(g[i - 1], s[i])
    <3>1. CASE i = from
      BY <3>1
    <3>2. CASE i # from
      <4>1. i \in 1 .. Len(s) /\ i - 1 \in from .. to
        BY <3>2
      <4>2. g[i - 1] = r[i - 1]
        BY <4>1
      <4>3. QED
        BY <3>2, <4>1, <4>2 DEF StuffRun
    <3>3. QED
      BY <3>1, <3>2
  <2>2. QED
    BY <2>1
<1> DEFINE at == StuffBlock(r[from], from, to, s)
<1>2. solves(at)
  BY <1>1, Zenon DEF StuffBlock
<1> HIDE DEF at, g
<1>3. \A i \in from .. to : at[i] = IF i = from THEN r[from] ELSE Framing!StuffStep(at[i - 1], s[i])
  BY <1>2
<1> DEFINE A == {n \in Nat : from + n <= to => at[from + n] = r[from + n]}
<1>4. 0 \in A
  BY <1>3
<1>5. ASSUME NEW n \in 1 .. to - from, n - 1 \in A PROVE n \in A
  <2>1. /\ from + n \in from .. to /\ from + n # from /\ from + n \in 1 .. Len(s)
        /\ from + (n - 1) = from + n - 1 /\ n \in Nat /\ from + (n - 1) <= to
    OBVIOUS
  <2>2. at[from + n] = Framing!StuffStep(at[from + n - 1], s[from + n])
    BY <1>3, <2>1
  <2>3. r[from + n] = Framing!StuffStep(r[from + n - 1], s[from + n])
    BY <2>1 DEF StuffRun
  <2>4. at[from + n - 1] = r[from + n - 1]
    BY <1>5, <2>1
  <2>5. QED
    BY <2>1, <2>2, <2>3, <2>4
<1>6. 0 .. to - from \subseteq A
  <2>1. to - from \in Nat
    OBVIOUS
  <2> HIDE DEF A
  <2>2. QED
    BY <1>4, <1>5, <2>1, UpTo
<1>7. to - from \in A /\ from + (to - from) = to
  BY <1>6
<1>8. QED
  BY <1>7 DEF at

LEMMA StuffAfter ==
    ASSUME NEW r, NEW start, NEW s, Len(s) \in Nat, StuffRun(r, start, s)
    PROVE  Framing!After(Framing!StuffStep, start, s) = r[Len(s)]
<1> DEFINE final == Len(s) \div Framing!BLOCK + 1
           solves(block) ==
             block = [b \in 0 .. final |->
                IF b = 0 THEN start
                ELSE CHOOSE y \in { StuffBlock(x, BlockEnd(b - 1, s), BlockEnd(b, s), s)[BlockEnd(b, s)] :
                                      x \in {block[b - 1]} } : TRUE]
           g == [b \in 0 .. final |-> r[BlockEnd(b, s)]]
           block == StuffBlocks(start, s)
<1>1. /\ final \in Nat /\ BlockEnd(0, s) = 0 /\ BlockEnd(final, s) = Len(s)
      /\ \A b \in 1 .. final : /\ BlockEnd(b - 1, s) \in Nat /\ BlockEnd(b, s) \in Nat
                               /\ BlockEnd(b - 1, s) <= BlockEnd(b, s) /\ BlockEnd(b, s) <= Len(s)
  BY BlockEnds
<1> HIDE DEF final
<1>2. ASSUME NEW b \in 1 .. final, NEW x, x = r[BlockEnd(b - 1, s)]
      PROVE  (CHOOSE y \in { StuffBlock(z, BlockEnd(b - 1, s), BlockEnd(b, s), s)[BlockEnd(b, s)] :
                               z \in {x} } : TRUE) = r[BlockEnd(b, s)]
  <2>1. StuffBlock(x, BlockEnd(b - 1, s), BlockEnd(b, s), s)[BlockEnd(b, s)] = r[BlockEnd(b, s)]
    BY <1>1, <1>2, StuffInBlock
  <2>2. QED
    BY <1>2, <2>1, Zenon
<1>3. solves(g)
  <2>1. ASSUME NEW b \in 0 .. final
        PROVE  r[BlockEnd(b, s)] =
                 IF b = 0 THEN start
                 ELSE CHOOSE y \in { StuffBlock(x, BlockEnd(b - 1, s), BlockEnd(b, s), s)[BlockEnd(b, s)] :
                                       x \in {g[b - 1]} } : TRUE
    <3>1. CASE b = 0
      BY <1>1, <3>1 DEF StuffRun
    <3>2. CASE b # 0
      <4>1. b \in 1 .. final /\ b - 1 \in 0 .. final
        BY <1>1, <3>2
      <4>2. g[b - 1] = r[BlockEnd(b - 1, s)]
        BY <4>1
      <4> HIDE DEF g
      <4>3. QED
        BY <1>2, <3>2, <4>1, <4>2
    <3>3. QED
      BY <3>1, <3>2
  <2>2. QED
    BY <2>1, Zenon
<1>4. solves(block)
  BY <1>3, Zenon DEF StuffBlocks, final
<1> HIDE DEF block, g
<1> DEFINE A == {b \in 0 .. final : block[b] = r[BlockEnd(b, s)]}
<1>5. 0 \in A
  <2>1. block[0] = start
    BY <1>1, <1>4
  <2>2. QED
    BY <1>1, <2>1 DEF StuffRun
<1>6. ASSUME NEW b \in 1 .. final, b - 1 \in A PROVE b \in A
  <2>1. b \in 0 .. final /\ b # 0
    BY <1>1
  <2>2. block[b] = CHOOSE y \in { StuffBlock(x, BlockEnd(b - 1, s), BlockEnd(b, s), s)[BlockEnd(b, s)] :
                                    x \in {block[b - 1]} } : TRUE
    BY <1>4, <2>1, Zenon
  <2>3. block[b - 1] = r[BlockEnd(b - 1, s)]
    BY <1>6
  <2>4. QED
    BY <1>2, <2>1, <2>2, <2>3
<1>7. final \in A
  <2> HIDE DEF A
  <2>1. 0 .. final \subseteq A
    BY <1>1, <1>5, <1>6, UpTo
  <2>2. QED
    BY <1>1, <2>1
<1>8. block[final] = r[Len(s)]
  BY <1>1, <1>7
<1>9. Framing!After(Framing!StuffStep, start, s) = block[final]
  BY Zenon DEF Framing!After, StuffBlocks, StuffBlock, BlockEnd, block, final
<1>10. QED
  BY <1>8, <1>9

StuffEnd(start, s) == Framing!After(Framing!StuffStep, start, s)

LEMMA StuffGrows ==
    ASSUME NEW start, NEW T, NEW s \in Seq(T), NEW x \in T
    PROVE  /\ StuffEnd(start, <<>>) = start
           /\ StuffEnd(start, Append(s, x))
                = Framing!StuffStep(StuffEnd(start, s), x)
<1> DEFINE t == Append(s, x)
<1>1. /\ Len(s) \in Nat /\ Len(t) = Len(s) + 1 /\ t[Len(s) + 1] = x
      /\ \A i \in 1 .. Len(s) : t[i] = s[i]
  BY LenProperties, AppendProperties
<1> HIDE DEF t
<1>2. PICK r : StuffRun(r, start, t)
  <2>1. Len(t) \in Nat
    BY <1>1
  <2>2. QED
    BY <2>1, StuffRuns, Zenon
<1>3. StuffRun(r, start, s)
  BY <1>1, <1>2 DEF StuffRun
<1>4. StuffEnd(start, t) = r[Len(t)]
  BY <1>1, <1>2, StuffAfter DEF StuffEnd
<1>5. StuffEnd(start, s) = r[Len(s)]
  BY <1>1, <1>3, StuffAfter DEF StuffEnd
<1>6. r[Len(t)] = Framing!StuffStep(r[Len(s)], x)
  <2>1. Len(t) \in 1 .. Len(t) /\ Len(t) - 1 = Len(s) /\ t[Len(t)] = x
    BY <1>1
  <2>2. QED
    BY <1>2, <2>1 DEF StuffRun
<1>7. StuffEnd(start, <<>>) = start
  <2>1. Len(<<>>) = 0
    OBVIOUS
  <2>2. PICK q : StuffRun(q, start, <<>>)
    BY <2>1, StuffRuns
  <2>3. StuffEnd(start, <<>>) = q[0]
    BY <2>1, <2>2, StuffAfter DEF StuffEnd
  <2>4. QED
    BY <2>2, <2>3 DEF StuffRun
<1>8. QED
  BY <1>4, <1>5, <1>6, <1>7 DEF t

\* AisUnstuffStep, one bit after the other.
UnstuffRun(r, start, s) == r[0] = start /\ \A i \in 1 .. Len(s) : r[i] = Framing!AisUnstuffStep(r[i - 1], s[i])
UnstuffBlock(x, from, to, s) ==
    CHOOSE at : at = [i \in from .. to |-> IF i = from THEN x ELSE Framing!AisUnstuffStep(at[i - 1], s[i])]
UnstuffBlocks(start, s) ==
    CHOOSE block : block = [b \in 0 .. Len(s) \div Framing!BLOCK + 1 |->
        IF b = 0 THEN start
        ELSE CHOOSE y \in { UnstuffBlock(x, BlockEnd(b - 1, s), BlockEnd(b, s), s)[BlockEnd(b, s)] :
                              x \in {block[b - 1]} } : TRUE]

LEMMA UnstuffRuns ==
    ASSUME NEW start, NEW s, Len(s) \in Nat
    PROVE  \E r : UnstuffRun(r, start, s)
<1> DEFINE runs(r, n) == r[0] = start /\ \A i \in 1 .. n : r[i] = Framing!AisUnstuffStep(r[i - 1], s[i])
           A == {n \in 0 .. Len(s) : \E r : runs(r, n)}
<1>1. 0 \in A
  <2>1. runs([i \in {0} |-> start], 0)
    OBVIOUS
  <2> HIDE DEF runs
  <2>2. QED
    BY <2>1
<1>2. ASSUME NEW n \in 1 .. Len(s), n - 1 \in A PROVE n \in A
  <2>1. PICK r : runs(r, n - 1)
    BY <1>2
  <2> DEFINE final == Framing!AisUnstuffStep(r[n - 1], s[n])
             q == [i \in 0 .. n |-> IF i = n THEN final ELSE r[i]]
  <2>2. n \in Nat /\ q[0] = start /\ q[n] = final /\ \A i \in 0 .. n - 1 : q[i] = r[i]
    <3> HIDE DEF final
    <3>1. QED
      BY <2>1
  <2>3. ASSUME NEW i \in 1 .. n PROVE q[i] = Framing!AisUnstuffStep(q[i - 1], s[i])
    <3> HIDE DEF q
    <3>1. i - 1 \in 0 .. n - 1 /\ (i = n \/ (i \in 1 .. n - 1 /\ i \in 0 .. n - 1))
      BY <2>2
    <3>2. q[i - 1] = r[i - 1]
      BY <2>2, <3>1
    <3>3. CASE i = n
      BY <2>2, <3>2, <3>3
    <3>4. CASE i \in 1 .. n - 1 /\ i \in 0 .. n - 1
      <4>1. r[i] = Framing!AisUnstuffStep(r[i - 1], s[i])
        BY <2>1, <3>4
      <4>2. QED
        BY <2>2, <3>2, <3>4, <4>1
    <3>5. QED
      BY <3>1, <3>3, <3>4
  <2>4. runs(q, n)
    <3> HIDE DEF q
    <3>1. QED
      BY <2>2, <2>3
  <2> HIDE DEF runs
  <2>5. QED
    BY <1>2, <2>4
<1>3. Len(s) \in A
  <2> HIDE DEF A
  <2>1. 0 .. Len(s) \subseteq A
    BY <1>1, <1>2, UpTo
  <2>2. QED
    BY <2>1
<1>4. QED
  BY <1>3 DEF UnstuffRun

LEMMA UnstuffInBlock ==
    ASSUME NEW r, NEW start, NEW s, Len(s) \in Nat, UnstuffRun(r, start, s),
           NEW from \in Nat, NEW to \in Nat, from <= to, to <= Len(s)
    PROVE  UnstuffBlock(r[from], from, to, s)[to] = r[to]
<1> DEFINE solves(at) ==
      at = [i \in from .. to |-> IF i = from THEN r[from] ELSE Framing!AisUnstuffStep(at[i - 1], s[i])]
           g == [i \in from .. to |-> r[i]]
<1>1. solves(g)
  <2>1. ASSUME NEW i \in from .. to
        PROVE  r[i] = IF i = from THEN r[from] ELSE Framing!AisUnstuffStep(g[i - 1], s[i])
    <3>1. CASE i = from
      BY <3>1
    <3>2. CASE i # from
      <4>1. i \in 1 .. Len(s) /\ i - 1 \in from .. to
        BY <3>2
      <4>2. g[i - 1] = r[i - 1]
        BY <4>1
      <4>3. QED
        BY <3>2, <4>1, <4>2 DEF UnstuffRun
    <3>3. QED
      BY <3>1, <3>2
  <2>2. QED
    BY <2>1
<1> DEFINE at == UnstuffBlock(r[from], from, to, s)
<1>2. solves(at)
  BY <1>1, Zenon DEF UnstuffBlock
<1> HIDE DEF at, g
<1>3. \A i \in from .. to : at[i] = IF i = from THEN r[from] ELSE Framing!AisUnstuffStep(at[i - 1], s[i])
  BY <1>2
<1> DEFINE A == {n \in Nat : from + n <= to => at[from + n] = r[from + n]}
<1>4. 0 \in A
  BY <1>3
<1>5. ASSUME NEW n \in 1 .. to - from, n - 1 \in A PROVE n \in A
  <2>1. /\ from + n \in from .. to /\ from + n # from /\ from + n \in 1 .. Len(s)
        /\ from + (n - 1) = from + n - 1 /\ n \in Nat /\ from + (n - 1) <= to
    OBVIOUS
  <2>2. at[from + n] = Framing!AisUnstuffStep(at[from + n - 1], s[from + n])
    BY <1>3, <2>1
  <2>3. r[from + n] = Framing!AisUnstuffStep(r[from + n - 1], s[from + n])
    BY <2>1 DEF UnstuffRun
  <2>4. at[from + n - 1] = r[from + n - 1]
    BY <1>5, <2>1
  <2>5. QED
    BY <2>1, <2>2, <2>3, <2>4
<1>6. 0 .. to - from \subseteq A
  <2>1. to - from \in Nat
    OBVIOUS
  <2> HIDE DEF A
  <2>2. QED
    BY <1>4, <1>5, <2>1, UpTo
<1>7. to - from \in A /\ from + (to - from) = to
  BY <1>6
<1>8. QED
  BY <1>7 DEF at

LEMMA UnstuffAfter ==
    ASSUME NEW r, NEW start, NEW s, Len(s) \in Nat, UnstuffRun(r, start, s)
    PROVE  Framing!After(Framing!AisUnstuffStep, start, s) = r[Len(s)]
<1> DEFINE final == Len(s) \div Framing!BLOCK + 1
           solves(block) ==
             block = [b \in 0 .. final |->
                IF b = 0 THEN start
                ELSE CHOOSE y \in { UnstuffBlock(x, BlockEnd(b - 1, s), BlockEnd(b, s), s)[BlockEnd(b, s)] :
                                      x \in {block[b - 1]} } : TRUE]
           g == [b \in 0 .. final |-> r[BlockEnd(b, s)]]
           block == UnstuffBlocks(start, s)
<1>1. /\ final \in Nat /\ BlockEnd(0, s) = 0 /\ BlockEnd(final, s) = Len(s)
      /\ \A b \in 1 .. final : /\ BlockEnd(b - 1, s) \in Nat /\ BlockEnd(b, s) \in Nat
                               /\ BlockEnd(b - 1, s) <= BlockEnd(b, s) /\ BlockEnd(b, s) <= Len(s)
  BY BlockEnds
<1> HIDE DEF final
<1>2. ASSUME NEW b \in 1 .. final, NEW x, x = r[BlockEnd(b - 1, s)]
      PROVE  (CHOOSE y \in { UnstuffBlock(z, BlockEnd(b - 1, s), BlockEnd(b, s), s)[BlockEnd(b, s)] :
                               z \in {x} } : TRUE) = r[BlockEnd(b, s)]
  <2>1. UnstuffBlock(x, BlockEnd(b - 1, s), BlockEnd(b, s), s)[BlockEnd(b, s)] = r[BlockEnd(b, s)]
    BY <1>1, <1>2, UnstuffInBlock
  <2>2. QED
    BY <1>2, <2>1, Zenon
<1>3. solves(g)
  <2>1. ASSUME NEW b \in 0 .. final
        PROVE  r[BlockEnd(b, s)] =
                 IF b = 0 THEN start
                 ELSE CHOOSE y \in { UnstuffBlock(x, BlockEnd(b - 1, s), BlockEnd(b, s), s)[BlockEnd(b, s)] :
                                       x \in {g[b - 1]} } : TRUE
    <3>1. CASE b = 0
      BY <1>1, <3>1 DEF UnstuffRun
    <3>2. CASE b # 0
      <4>1. b \in 1 .. final /\ b - 1 \in 0 .. final
        BY <1>1, <3>2
      <4>2. g[b - 1] = r[BlockEnd(b - 1, s)]
        BY <4>1
      <4> HIDE DEF g
      <4>3. QED
        BY <1>2, <3>2, <4>1, <4>2
    <3>3. QED
      BY <3>1, <3>2
  <2>2. QED
    BY <2>1, Zenon
<1>4. solves(block)
  BY <1>3, Zenon DEF UnstuffBlocks, final
<1> HIDE DEF block, g
<1> DEFINE A == {b \in 0 .. final : block[b] = r[BlockEnd(b, s)]}
<1>5. 0 \in A
  <2>1. block[0] = start
    BY <1>1, <1>4
  <2>2. QED
    BY <1>1, <2>1 DEF UnstuffRun
<1>6. ASSUME NEW b \in 1 .. final, b - 1 \in A PROVE b \in A
  <2>1. b \in 0 .. final /\ b # 0
    BY <1>1
  <2>2. block[b] = CHOOSE y \in { UnstuffBlock(x, BlockEnd(b - 1, s), BlockEnd(b, s), s)[BlockEnd(b, s)] :
                                    x \in {block[b - 1]} } : TRUE
    BY <1>4, <2>1, Zenon
  <2>3. block[b - 1] = r[BlockEnd(b - 1, s)]
    BY <1>6
  <2>4. QED
    BY <1>2, <2>1, <2>2, <2>3
<1>7. final \in A
  <2> HIDE DEF A
  <2>1. 0 .. final \subseteq A
    BY <1>1, <1>5, <1>6, UpTo
  <2>2. QED
    BY <1>1, <2>1
<1>8. block[final] = r[Len(s)]
  BY <1>1, <1>7
<1>9. Framing!After(Framing!AisUnstuffStep, start, s) = block[final]
  BY Zenon DEF Framing!After, UnstuffBlocks, UnstuffBlock, BlockEnd, block, final
<1>10. QED
  BY <1>8, <1>9

UnstuffEnd(start, s) == Framing!After(Framing!AisUnstuffStep, start, s)

LEMMA UnstuffGrows ==
    ASSUME NEW start, NEW T, NEW s \in Seq(T), NEW x \in T
    PROVE  /\ UnstuffEnd(start, <<>>) = start
           /\ UnstuffEnd(start, Append(s, x))
                = Framing!AisUnstuffStep(UnstuffEnd(start, s), x)
<1> DEFINE t == Append(s, x)
<1>1. /\ Len(s) \in Nat /\ Len(t) = Len(s) + 1 /\ t[Len(s) + 1] = x
      /\ \A i \in 1 .. Len(s) : t[i] = s[i]
  BY LenProperties, AppendProperties
<1> HIDE DEF t
<1>2. PICK r : UnstuffRun(r, start, t)
  <2>1. Len(t) \in Nat
    BY <1>1
  <2>2. QED
    BY <2>1, UnstuffRuns, Zenon
<1>3. UnstuffRun(r, start, s)
  BY <1>1, <1>2 DEF UnstuffRun
<1>4. UnstuffEnd(start, t) = r[Len(t)]
  BY <1>1, <1>2, UnstuffAfter DEF UnstuffEnd
<1>5. UnstuffEnd(start, s) = r[Len(s)]
  BY <1>1, <1>3, UnstuffAfter DEF UnstuffEnd
<1>6. r[Len(t)] = Framing!AisUnstuffStep(r[Len(s)], x)
  <2>1. Len(t) \in 1 .. Len(t) /\ Len(t) - 1 = Len(s) /\ t[Len(t)] = x
    BY <1>1
  <2>2. QED
    BY <1>2, <2>1 DEF UnstuffRun
<1>7. UnstuffEnd(start, <<>>) = start
  <2>1. Len(<<>>) = 0
    OBVIOUS
  <2>2. PICK q : UnstuffRun(q, start, <<>>)
    BY <2>1, UnstuffRuns
  <2>3. UnstuffEnd(start, <<>>) = q[0]
    BY <2>1, <2>2, UnstuffAfter DEF UnstuffEnd
  <2>4. QED
    BY <2>2, <2>3 DEF UnstuffRun
<1>8. QED
  BY <1>4, <1>5, <1>6, <1>7 DEF t

\* CrcStep, one bit after the other.
CrcRun(r, start, s) == r[0] = start /\ \A i \in 1 .. Len(s) : r[i] = Framing!CrcStep(r[i - 1], s[i])
CrcBlock(x, from, to, s) ==
    CHOOSE at : at = [i \in from .. to |-> IF i = from THEN x ELSE Framing!CrcStep(at[i - 1], s[i])]
CrcBlocks(start, s) ==
    CHOOSE block : block = [b \in 0 .. Len(s) \div Framing!BLOCK + 1 |->
        IF b = 0 THEN start
        ELSE CHOOSE y \in { CrcBlock(x, BlockEnd(b - 1, s), BlockEnd(b, s), s)[BlockEnd(b, s)] :
                              x \in {block[b - 1]} } : TRUE]

LEMMA CrcRuns ==
    ASSUME NEW start, NEW s, Len(s) \in Nat
    PROVE  \E r : CrcRun(r, start, s)
<1> DEFINE runs(r, n) == r[0] = start /\ \A i \in 1 .. n : r[i] = Framing!CrcStep(r[i - 1], s[i])
           A == {n \in 0 .. Len(s) : \E r : runs(r, n)}
<1>1. 0 \in A
  <2>1. runs([i \in {0} |-> start], 0)
    OBVIOUS
  <2> HIDE DEF runs
  <2>2. QED
    BY <2>1
<1>2. ASSUME NEW n \in 1 .. Len(s), n - 1 \in A PROVE n \in A
  <2>1. PICK r : runs(r, n - 1)
    BY <1>2
  <2> DEFINE final == Framing!CrcStep(r[n - 1], s[n])
             q == [i \in 0 .. n |-> IF i = n THEN final ELSE r[i]]
  <2>2. n \in Nat /\ q[0] = start /\ q[n] = final /\ \A i \in 0 .. n - 1 : q[i] = r[i]
    <3> HIDE DEF final
    <3>1. QED
      BY <2>1
  <2>3. ASSUME NEW i \in 1 .. n PROVE q[i] = Framing!CrcStep(q[i - 1], s[i])
    <3> HIDE DEF q
    <3>1. i - 1 \in 0 .. n - 1 /\ (i = n \/ (i \in 1 .. n - 1 /\ i \in 0 .. n - 1))
      BY <2>2
    <3>2. q[i - 1] = r[i - 1]
      BY <2>2, <3>1
    <3>3. CASE i = n
      BY <2>2, <3>2, <3>3
    <3>4. CASE i \in 1 .. n - 1 /\ i \in 0 .. n - 1
      <4>1. r[i] = Framing!CrcStep(r[i - 1], s[i])
        BY <2>1, <3>4
      <4>2. QED
        BY <2>2, <3>2, <3>4, <4>1
    <3>5. QED
      BY <3>1, <3>3, <3>4
  <2>4. runs(q, n)
    <3> HIDE DEF q
    <3>1. QED
      BY <2>2, <2>3
  <2> HIDE DEF runs
  <2>5. QED
    BY <1>2, <2>4
<1>3. Len(s) \in A
  <2> HIDE DEF A
  <2>1. 0 .. Len(s) \subseteq A
    BY <1>1, <1>2, UpTo
  <2>2. QED
    BY <2>1
<1>4. QED
  BY <1>3 DEF CrcRun

LEMMA CrcInBlock ==
    ASSUME NEW r, NEW start, NEW s, Len(s) \in Nat, CrcRun(r, start, s),
           NEW from \in Nat, NEW to \in Nat, from <= to, to <= Len(s)
    PROVE  CrcBlock(r[from], from, to, s)[to] = r[to]
<1> DEFINE solves(at) ==
      at = [i \in from .. to |-> IF i = from THEN r[from] ELSE Framing!CrcStep(at[i - 1], s[i])]
           g == [i \in from .. to |-> r[i]]
<1>1. solves(g)
  <2>1. ASSUME NEW i \in from .. to
        PROVE  r[i] = IF i = from THEN r[from] ELSE Framing!CrcStep(g[i - 1], s[i])
    <3>1. CASE i = from
      BY <3>1
    <3>2. CASE i # from
      <4>1. i \in 1 .. Len(s) /\ i - 1 \in from .. to
        BY <3>2
      <4>2. g[i - 1] = r[i - 1]
        BY <4>1
      <4>3. QED
        BY <3>2, <4>1, <4>2 DEF CrcRun
    <3>3. QED
      BY <3>1, <3>2
  <2>2. QED
    BY <2>1
<1> DEFINE at == CrcBlock(r[from], from, to, s)
<1>2. solves(at)
  BY <1>1, Zenon DEF CrcBlock
<1> HIDE DEF at, g
<1>3. \A i \in from .. to : at[i] = IF i = from THEN r[from] ELSE Framing!CrcStep(at[i - 1], s[i])
  BY <1>2
<1> DEFINE A == {n \in Nat : from + n <= to => at[from + n] = r[from + n]}
<1>4. 0 \in A
  BY <1>3
<1>5. ASSUME NEW n \in 1 .. to - from, n - 1 \in A PROVE n \in A
  <2>1. /\ from + n \in from .. to /\ from + n # from /\ from + n \in 1 .. Len(s)
        /\ from + (n - 1) = from + n - 1 /\ n \in Nat /\ from + (n - 1) <= to
    OBVIOUS
  <2>2. at[from + n] = Framing!CrcStep(at[from + n - 1], s[from + n])
    BY <1>3, <2>1
  <2>3. r[from + n] = Framing!CrcStep(r[from + n - 1], s[from + n])
    BY <2>1 DEF CrcRun
  <2>4. at[from + n - 1] = r[from + n - 1]
    BY <1>5, <2>1
  <2>5. QED
    BY <2>1, <2>2, <2>3, <2>4
<1>6. 0 .. to - from \subseteq A
  <2>1. to - from \in Nat
    OBVIOUS
  <2> HIDE DEF A
  <2>2. QED
    BY <1>4, <1>5, <2>1, UpTo
<1>7. to - from \in A /\ from + (to - from) = to
  BY <1>6
<1>8. QED
  BY <1>7 DEF at

LEMMA CrcAfter ==
    ASSUME NEW r, NEW start, NEW s, Len(s) \in Nat, CrcRun(r, start, s)
    PROVE  Framing!After(Framing!CrcStep, start, s) = r[Len(s)]
<1> DEFINE final == Len(s) \div Framing!BLOCK + 1
           solves(block) ==
             block = [b \in 0 .. final |->
                IF b = 0 THEN start
                ELSE CHOOSE y \in { CrcBlock(x, BlockEnd(b - 1, s), BlockEnd(b, s), s)[BlockEnd(b, s)] :
                                      x \in {block[b - 1]} } : TRUE]
           g == [b \in 0 .. final |-> r[BlockEnd(b, s)]]
           block == CrcBlocks(start, s)
<1>1. /\ final \in Nat /\ BlockEnd(0, s) = 0 /\ BlockEnd(final, s) = Len(s)
      /\ \A b \in 1 .. final : /\ BlockEnd(b - 1, s) \in Nat /\ BlockEnd(b, s) \in Nat
                               /\ BlockEnd(b - 1, s) <= BlockEnd(b, s) /\ BlockEnd(b, s) <= Len(s)
  BY BlockEnds
<1> HIDE DEF final
<1>2. ASSUME NEW b \in 1 .. final, NEW x, x = r[BlockEnd(b - 1, s)]
      PROVE  (CHOOSE y \in { CrcBlock(z, BlockEnd(b - 1, s), BlockEnd(b, s), s)[BlockEnd(b, s)] :
                               z \in {x} } : TRUE) = r[BlockEnd(b, s)]
  <2>1. CrcBlock(x, BlockEnd(b - 1, s), BlockEnd(b, s), s)[BlockEnd(b, s)] = r[BlockEnd(b, s)]
    BY <1>1, <1>2, CrcInBlock
  <2>2. QED
    BY <1>2, <2>1, Zenon
<1>3. solves(g)
  <2>1. ASSUME NEW b \in 0 .. final
        PROVE  r[BlockEnd(b, s)] =
                 IF b = 0 THEN start
                 ELSE CHOOSE y \in { CrcBlock(x, BlockEnd(b - 1, s), BlockEnd(b, s), s)[BlockEnd(b, s)] :
                                       x \in {g[b - 1]} } : TRUE
    <3>1. CASE b = 0
      BY <1>1, <3>1 DEF CrcRun
    <3>2. CASE b # 0
      <4>1. b \in 1 .. final /\ b - 1 \in 0 .. final
        BY <1>1, <3>2
      <4>2. g[b - 1] = r[BlockEnd(b - 1, s)]
        BY <4>1
      <4> HIDE DEF g
      <4>3. QED
        BY <1>2, <3>2, <4>1, <4>2
    <3>3. QED
      BY <3>1, <3>2
  <2>2. QED
    BY <2>1, Zenon
<1>4. solves(block)
  BY <1>3, Zenon DEF CrcBlocks, final
<1> HIDE DEF block, g
<1> DEFINE A == {b \in 0 .. final : block[b] = r[BlockEnd(b, s)]}
<1>5. 0 \in A
  <2>1. block[0] = start
    BY <1>1, <1>4
  <2>2. QED
    BY <1>1, <2>1 DEF CrcRun
<1>6. ASSUME NEW b \in 1 .. final, b - 1 \in A PROVE b \in A
  <2>1. b \in 0 .. final /\ b # 0
    BY <1>1
  <2>2. block[b] = CHOOSE y \in { CrcBlock(x, BlockEnd(b - 1, s), BlockEnd(b, s), s)[BlockEnd(b, s)] :
                                    x \in {block[b - 1]} } : TRUE
    BY <1>4, <2>1, Zenon
  <2>3. block[b - 1] = r[BlockEnd(b - 1, s)]
    BY <1>6
  <2>4. QED
    BY <1>2, <2>1, <2>2, <2>3
<1>7. final \in A
  <2> HIDE DEF A
  <2>1. 0 .. final \subseteq A
    BY <1>1, <1>5, <1>6, UpTo
  <2>2. QED
    BY <1>1, <2>1
<1>8. block[final] = r[Len(s)]
  BY <1>1, <1>7
<1>9. Framing!After(Framing!CrcStep, start, s) = block[final]
  BY Zenon DEF Framing!After, CrcBlocks, CrcBlock, BlockEnd, block, final
<1>10. QED
  BY <1>8, <1>9

CrcEnd(start, s) == Framing!After(Framing!CrcStep, start, s)

LEMMA CrcGrows ==
    ASSUME NEW start, NEW T, NEW s \in Seq(T), NEW x \in T
    PROVE  /\ CrcEnd(start, <<>>) = start
           /\ CrcEnd(start, Append(s, x))
                = Framing!CrcStep(CrcEnd(start, s), x)
<1> DEFINE t == Append(s, x)
<1>1. /\ Len(s) \in Nat /\ Len(t) = Len(s) + 1 /\ t[Len(s) + 1] = x
      /\ \A i \in 1 .. Len(s) : t[i] = s[i]
  BY LenProperties, AppendProperties
<1> HIDE DEF t
<1>2. PICK r : CrcRun(r, start, t)
  <2>1. Len(t) \in Nat
    BY <1>1
  <2>2. QED
    BY <2>1, CrcRuns, Zenon
<1>3. CrcRun(r, start, s)
  BY <1>1, <1>2 DEF CrcRun
<1>4. CrcEnd(start, t) = r[Len(t)]
  BY <1>1, <1>2, CrcAfter DEF CrcEnd
<1>5. CrcEnd(start, s) = r[Len(s)]
  BY <1>1, <1>3, CrcAfter DEF CrcEnd
<1>6. r[Len(t)] = Framing!CrcStep(r[Len(s)], x)
  <2>1. Len(t) \in 1 .. Len(t) /\ Len(t) - 1 = Len(s) /\ t[Len(t)] = x
    BY <1>1
  <2>2. QED
    BY <1>2, <2>1 DEF CrcRun
<1>7. CrcEnd(start, <<>>) = start
  <2>1. Len(<<>>) = 0
    OBVIOUS
  <2>2. PICK q : CrcRun(q, start, <<>>)
    BY <2>1, CrcRuns
  <2>3. CrcEnd(start, <<>>) = q[0]
    BY <2>1, <2>2, CrcAfter DEF CrcEnd
  <2>4. QED
    BY <2>2, <2>3 DEF CrcRun
<1>8. QED
  BY <1>4, <1>5, <1>6, <1>7 DEF t

\* AisPushBit, one bit after the other.
AisRun(r, start, s) == r[0] = start /\ \A i \in 1 .. Len(s) : r[i] = Framing!AisPushBit(r[i - 1], s[i])
AisBlock(x, from, to, s) ==
    CHOOSE at : at = [i \in from .. to |-> IF i = from THEN x ELSE Framing!AisPushBit(at[i - 1], s[i])]
AisBlocks(start, s) ==
    CHOOSE block : block = [b \in 0 .. Len(s) \div Framing!BLOCK + 1 |->
        IF b = 0 THEN start
        ELSE CHOOSE y \in { AisBlock(x, BlockEnd(b - 1, s), BlockEnd(b, s), s)[BlockEnd(b, s)] :
                              x \in {block[b - 1]} } : TRUE]

LEMMA AisRuns ==
    ASSUME NEW start, NEW s, Len(s) \in Nat
    PROVE  \E r : AisRun(r, start, s)
<1> DEFINE runs(r, n) == r[0] = start /\ \A i \in 1 .. n : r[i] = Framing!AisPushBit(r[i - 1], s[i])
           A == {n \in 0 .. Len(s) : \E r : runs(r, n)}
<1>1. 0 \in A
  <2>1. runs([i \in {0} |-> start], 0)
    OBVIOUS
  <2> HIDE DEF runs
  <2>2. QED
    BY <2>1
<1>2. ASSUME NEW n \in 1 .. Len(s), n - 1 \in A PROVE n \in A
  <2>1. PICK r : runs(r, n - 1)
    BY <1>2
  <2> DEFINE final == Framing!AisPushBit(r[n - 1], s[n])
             q == [i \in 0 .. n |-> IF i = n THEN final ELSE r[i]]
  <2>2. n \in Nat /\ q[0] = start /\ q[n] = final /\ \A i \in 0 .. n - 1 : q[i] = r[i]
    <3> HIDE DEF final
    <3>1. QED
      BY <2>1
  <2>3. ASSUME NEW i \in 1 .. n PROVE q[i] = Framing!AisPushBit(q[i - 1], s[i])
    <3> HIDE DEF q
    <3>1. i - 1 \in 0 .. n - 1 /\ (i = n \/ (i \in 1 .. n - 1 /\ i \in 0 .. n - 1))
      BY <2>2
    <3>2. q[i - 1] = r[i - 1]
      BY <2>2, <3>1
    <3>3. CASE i = n
      BY <2>2, <3>2, <3>3
    <3>4. CASE i \in 1 .. n - 1 /\ i \in 0 .. n - 1
      <4>1. r[i] = Framing!AisPushBit(r[i - 1], s[i])
        BY <2>1, <3>4
      <4>2. QED
        BY <2>2, <3>2, <3>4, <4>1
    <3>5. QED
      BY <3>1, <3>3, <3>4
  <2>4. runs(q, n)
    <3> HIDE DEF q
    <3>1. QED
      BY <2>2, <2>3
  <2> HIDE DEF runs
  <2>5. QED
    BY <1>2, <2>4
<1>3. Len(s) \in A
  <2> HIDE DEF A
  <2>1. 0 .. Len(s) \subseteq A
    BY <1>1, <1>2, UpTo
  <2>2. QED
    BY <2>1
<1>4. QED
  BY <1>3 DEF AisRun

LEMMA AisInBlock ==
    ASSUME NEW r, NEW start, NEW s, Len(s) \in Nat, AisRun(r, start, s),
           NEW from \in Nat, NEW to \in Nat, from <= to, to <= Len(s)
    PROVE  AisBlock(r[from], from, to, s)[to] = r[to]
<1> DEFINE solves(at) ==
      at = [i \in from .. to |-> IF i = from THEN r[from] ELSE Framing!AisPushBit(at[i - 1], s[i])]
           g == [i \in from .. to |-> r[i]]
<1>1. solves(g)
  <2>1. ASSUME NEW i \in from .. to
        PROVE  r[i] = IF i = from THEN r[from] ELSE Framing!AisPushBit(g[i - 1], s[i])
    <3>1. CASE i = from
      BY <3>1
    <3>2. CASE i # from
      <4>1. i \in 1 .. Len(s) /\ i - 1 \in from .. to
        BY <3>2
      <4>2. g[i - 1] = r[i - 1]
        BY <4>1
      <4>3. QED
        BY <3>2, <4>1, <4>2 DEF AisRun
    <3>3. QED
      BY <3>1, <3>2
  <2>2. QED
    BY <2>1
<1> DEFINE at == AisBlock(r[from], from, to, s)
<1>2. solves(at)
  BY <1>1, Zenon DEF AisBlock
<1> HIDE DEF at, g
<1>3. \A i \in from .. to : at[i] = IF i = from THEN r[from] ELSE Framing!AisPushBit(at[i - 1], s[i])
  BY <1>2
<1> DEFINE A == {n \in Nat : from + n <= to => at[from + n] = r[from + n]}
<1>4. 0 \in A
  BY <1>3
<1>5. ASSUME NEW n \in 1 .. to - from, n - 1 \in A PROVE n \in A
  <2>1. /\ from + n \in from .. to /\ from + n # from /\ from + n \in 1 .. Len(s)
        /\ from + (n - 1) = from + n - 1 /\ n \in Nat /\ from + (n - 1) <= to
    OBVIOUS
  <2>2. at[from + n] = Framing!AisPushBit(at[from + n - 1], s[from + n])
    BY <1>3, <2>1
  <2>3. r[from + n] = Framing!AisPushBit(r[from + n - 1], s[from + n])
    BY <2>1 DEF AisRun
  <2>4. at[from + n - 1] = r[from + n - 1]
    BY <1>5, <2>1
  <2>5. QED
    BY <2>1, <2>2, <2>3, <2>4
<1>6. 0 .. to - from \subseteq A
  <2>1. to - from \in Nat
    OBVIOUS
  <2> HIDE DEF A
  <2>2. QED
    BY <1>4, <1>5, <2>1, UpTo
<1>7. to - from \in A /\ from + (to - from) = to
  BY <1>6
<1>8. QED
  BY <1>7 DEF at

LEMMA AisAfter ==
    ASSUME NEW r, NEW start, NEW s, Len(s) \in Nat, AisRun(r, start, s)
    PROVE  Framing!After(Framing!AisPushBit, start, s) = r[Len(s)]
<1> DEFINE final == Len(s) \div Framing!BLOCK + 1
           solves(block) ==
             block = [b \in 0 .. final |->
                IF b = 0 THEN start
                ELSE CHOOSE y \in { AisBlock(x, BlockEnd(b - 1, s), BlockEnd(b, s), s)[BlockEnd(b, s)] :
                                      x \in {block[b - 1]} } : TRUE]
           g == [b \in 0 .. final |-> r[BlockEnd(b, s)]]
           block == AisBlocks(start, s)
<1>1. /\ final \in Nat /\ BlockEnd(0, s) = 0 /\ BlockEnd(final, s) = Len(s)
      /\ \A b \in 1 .. final : /\ BlockEnd(b - 1, s) \in Nat /\ BlockEnd(b, s) \in Nat
                               /\ BlockEnd(b - 1, s) <= BlockEnd(b, s) /\ BlockEnd(b, s) <= Len(s)
  BY BlockEnds
<1> HIDE DEF final
<1>2. ASSUME NEW b \in 1 .. final, NEW x, x = r[BlockEnd(b - 1, s)]
      PROVE  (CHOOSE y \in { AisBlock(z, BlockEnd(b - 1, s), BlockEnd(b, s), s)[BlockEnd(b, s)] :
                               z \in {x} } : TRUE) = r[BlockEnd(b, s)]
  <2>1. AisBlock(x, BlockEnd(b - 1, s), BlockEnd(b, s), s)[BlockEnd(b, s)] = r[BlockEnd(b, s)]
    BY <1>1, <1>2, AisInBlock
  <2>2. QED
    BY <1>2, <2>1, Zenon
<1>3. solves(g)
  <2>1. ASSUME NEW b \in 0 .. final
        PROVE  r[BlockEnd(b, s)] =
                 IF b = 0 THEN start
                 ELSE CHOOSE y \in { AisBlock(x, BlockEnd(b - 1, s), BlockEnd(b, s), s)[BlockEnd(b, s)] :
                                       x \in {g[b - 1]} } : TRUE
    <3>1. CASE b = 0
      BY <1>1, <3>1 DEF AisRun
    <3>2. CASE b # 0
      <4>1. b \in 1 .. final /\ b - 1 \in 0 .. final
        BY <1>1, <3>2
      <4>2. g[b - 1] = r[BlockEnd(b - 1, s)]
        BY <4>1
      <4> HIDE DEF g
      <4>3. QED
        BY <1>2, <3>2, <4>1, <4>2
    <3>3. QED
      BY <3>1, <3>2
  <2>2. QED
    BY <2>1, Zenon
<1>4. solves(block)
  BY <1>3, Zenon DEF AisBlocks, final
<1> HIDE DEF block, g
<1> DEFINE A == {b \in 0 .. final : block[b] = r[BlockEnd(b, s)]}
<1>5. 0 \in A
  <2>1. block[0] = start
    BY <1>1, <1>4
  <2>2. QED
    BY <1>1, <2>1 DEF AisRun
<1>6. ASSUME NEW b \in 1 .. final, b - 1 \in A PROVE b \in A
  <2>1. b \in 0 .. final /\ b # 0
    BY <1>1
  <2>2. block[b] = CHOOSE y \in { AisBlock(x, BlockEnd(b - 1, s), BlockEnd(b, s), s)[BlockEnd(b, s)] :
                                    x \in {block[b - 1]} } : TRUE
    BY <1>4, <2>1, Zenon
  <2>3. block[b - 1] = r[BlockEnd(b - 1, s)]
    BY <1>6
  <2>4. QED
    BY <1>2, <2>1, <2>2, <2>3
<1>7. final \in A
  <2> HIDE DEF A
  <2>1. 0 .. final \subseteq A
    BY <1>1, <1>5, <1>6, UpTo
  <2>2. QED
    BY <1>1, <2>1
<1>8. block[final] = r[Len(s)]
  BY <1>1, <1>7
<1>9. Framing!After(Framing!AisPushBit, start, s) = block[final]
  BY Zenon DEF Framing!After, AisBlocks, AisBlock, BlockEnd, block, final
<1>10. QED
  BY <1>8, <1>9

AisEnd(start, s) == Framing!After(Framing!AisPushBit, start, s)

LEMMA AisGrows ==
    ASSUME NEW start, NEW T, NEW s \in Seq(T), NEW x \in T
    PROVE  /\ AisEnd(start, <<>>) = start
           /\ AisEnd(start, Append(s, x))
                = Framing!AisPushBit(AisEnd(start, s), x)
<1> DEFINE t == Append(s, x)
<1>1. /\ Len(s) \in Nat /\ Len(t) = Len(s) + 1 /\ t[Len(s) + 1] = x
      /\ \A i \in 1 .. Len(s) : t[i] = s[i]
  BY LenProperties, AppendProperties
<1> HIDE DEF t
<1>2. PICK r : AisRun(r, start, t)
  <2>1. Len(t) \in Nat
    BY <1>1
  <2>2. QED
    BY <2>1, AisRuns, Zenon
<1>3. AisRun(r, start, s)
  BY <1>1, <1>2 DEF AisRun
<1>4. AisEnd(start, t) = r[Len(t)]
  BY <1>1, <1>2, AisAfter DEF AisEnd
<1>5. AisEnd(start, s) = r[Len(s)]
  BY <1>1, <1>3, AisAfter DEF AisEnd
<1>6. r[Len(t)] = Framing!AisPushBit(r[Len(s)], x)
  <2>1. Len(t) \in 1 .. Len(t) /\ Len(t) - 1 = Len(s) /\ t[Len(t)] = x
    BY <1>1
  <2>2. QED
    BY <1>2, <2>1 DEF AisRun
<1>7. AisEnd(start, <<>>) = start
  <2>1. Len(<<>>) = 0
    OBVIOUS
  <2>2. PICK q : AisRun(q, start, <<>>)
    BY <2>1, AisRuns
  <2>3. AisEnd(start, <<>>) = q[0]
    BY <2>1, <2>2, AisAfter DEF AisEnd
  <2>4. QED
    BY <2>2, <2>3 DEF AisRun
<1>8. QED
  BY <1>4, <1>5, <1>6, <1>7 DEF t

\* NrziPush, one level after the other.
NrziRun(r, start, s) == r[0] = start /\ \A i \in 1 .. Len(s) : r[i] = Framing!NrziPush(r[i - 1], s[i])
NrziBlock(x, from, to, s) ==
    CHOOSE at : at = [i \in from .. to |-> IF i = from THEN x ELSE Framing!NrziPush(at[i - 1], s[i])]
NrziBlocks(start, s) ==
    CHOOSE block : block = [b \in 0 .. Len(s) \div Framing!BLOCK + 1 |->
        IF b = 0 THEN start
        ELSE CHOOSE y \in { NrziBlock(x, BlockEnd(b - 1, s), BlockEnd(b, s), s)[BlockEnd(b, s)] :
                              x \in {block[b - 1]} } : TRUE]

LEMMA NrziRuns ==
    ASSUME NEW start, NEW s, Len(s) \in Nat
    PROVE  \E r : NrziRun(r, start, s)
<1> DEFINE runs(r, n) == r[0] = start /\ \A i \in 1 .. n : r[i] = Framing!NrziPush(r[i - 1], s[i])
           A == {n \in 0 .. Len(s) : \E r : runs(r, n)}
<1>1. 0 \in A
  <2>1. runs([i \in {0} |-> start], 0)
    OBVIOUS
  <2> HIDE DEF runs
  <2>2. QED
    BY <2>1
<1>2. ASSUME NEW n \in 1 .. Len(s), n - 1 \in A PROVE n \in A
  <2>1. PICK r : runs(r, n - 1)
    BY <1>2
  <2> DEFINE final == Framing!NrziPush(r[n - 1], s[n])
             q == [i \in 0 .. n |-> IF i = n THEN final ELSE r[i]]
  <2>2. n \in Nat /\ q[0] = start /\ q[n] = final /\ \A i \in 0 .. n - 1 : q[i] = r[i]
    <3> HIDE DEF final
    <3>1. QED
      BY <2>1
  <2>3. ASSUME NEW i \in 1 .. n PROVE q[i] = Framing!NrziPush(q[i - 1], s[i])
    <3> HIDE DEF q
    <3>1. i - 1 \in 0 .. n - 1 /\ (i = n \/ (i \in 1 .. n - 1 /\ i \in 0 .. n - 1))
      BY <2>2
    <3>2. q[i - 1] = r[i - 1]
      BY <2>2, <3>1
    <3>3. CASE i = n
      BY <2>2, <3>2, <3>3
    <3>4. CASE i \in 1 .. n - 1 /\ i \in 0 .. n - 1
      <4>1. r[i] = Framing!NrziPush(r[i - 1], s[i])
        BY <2>1, <3>4
      <4>2. QED
        BY <2>2, <3>2, <3>4, <4>1
    <3>5. QED
      BY <3>1, <3>3, <3>4
  <2>4. runs(q, n)
    <3> HIDE DEF q
    <3>1. QED
      BY <2>2, <2>3
  <2> HIDE DEF runs
  <2>5. QED
    BY <1>2, <2>4
<1>3. Len(s) \in A
  <2> HIDE DEF A
  <2>1. 0 .. Len(s) \subseteq A
    BY <1>1, <1>2, UpTo
  <2>2. QED
    BY <2>1
<1>4. QED
  BY <1>3 DEF NrziRun

LEMMA NrziInBlock ==
    ASSUME NEW r, NEW start, NEW s, Len(s) \in Nat, NrziRun(r, start, s),
           NEW from \in Nat, NEW to \in Nat, from <= to, to <= Len(s)
    PROVE  NrziBlock(r[from], from, to, s)[to] = r[to]
<1> DEFINE solves(at) ==
      at = [i \in from .. to |-> IF i = from THEN r[from] ELSE Framing!NrziPush(at[i - 1], s[i])]
           g == [i \in from .. to |-> r[i]]
<1>1. solves(g)
  <2>1. ASSUME NEW i \in from .. to
        PROVE  r[i] = IF i = from THEN r[from] ELSE Framing!NrziPush(g[i - 1], s[i])
    <3>1. CASE i = from
      BY <3>1
    <3>2. CASE i # from
      <4>1. i \in 1 .. Len(s) /\ i - 1 \in from .. to
        BY <3>2
      <4>2. g[i - 1] = r[i - 1]
        BY <4>1
      <4>3. QED
        BY <3>2, <4>1, <4>2 DEF NrziRun
    <3>3. QED
      BY <3>1, <3>2
  <2>2. QED
    BY <2>1
<1> DEFINE at == NrziBlock(r[from], from, to, s)
<1>2. solves(at)
  BY <1>1, Zenon DEF NrziBlock
<1> HIDE DEF at, g
<1>3. \A i \in from .. to : at[i] = IF i = from THEN r[from] ELSE Framing!NrziPush(at[i - 1], s[i])
  BY <1>2
<1> DEFINE A == {n \in Nat : from + n <= to => at[from + n] = r[from + n]}
<1>4. 0 \in A
  BY <1>3
<1>5. ASSUME NEW n \in 1 .. to - from, n - 1 \in A PROVE n \in A
  <2>1. /\ from + n \in from .. to /\ from + n # from /\ from + n \in 1 .. Len(s)
        /\ from + (n - 1) = from + n - 1 /\ n \in Nat /\ from + (n - 1) <= to
    OBVIOUS
  <2>2. at[from + n] = Framing!NrziPush(at[from + n - 1], s[from + n])
    BY <1>3, <2>1
  <2>3. r[from + n] = Framing!NrziPush(r[from + n - 1], s[from + n])
    BY <2>1 DEF NrziRun
  <2>4. at[from + n - 1] = r[from + n - 1]
    BY <1>5, <2>1
  <2>5. QED
    BY <2>1, <2>2, <2>3, <2>4
<1>6. 0 .. to - from \subseteq A
  <2>1. to - from \in Nat
    OBVIOUS
  <2> HIDE DEF A
  <2>2. QED
    BY <1>4, <1>5, <2>1, UpTo
<1>7. to - from \in A /\ from + (to - from) = to
  BY <1>6
<1>8. QED
  BY <1>7 DEF at

LEMMA NrziAfter ==
    ASSUME NEW r, NEW start, NEW s, Len(s) \in Nat, NrziRun(r, start, s)
    PROVE  Framing!After(Framing!NrziPush, start, s) = r[Len(s)]
<1> DEFINE final == Len(s) \div Framing!BLOCK + 1
           solves(block) ==
             block = [b \in 0 .. final |->
                IF b = 0 THEN start
                ELSE CHOOSE y \in { NrziBlock(x, BlockEnd(b - 1, s), BlockEnd(b, s), s)[BlockEnd(b, s)] :
                                      x \in {block[b - 1]} } : TRUE]
           g == [b \in 0 .. final |-> r[BlockEnd(b, s)]]
           block == NrziBlocks(start, s)
<1>1. /\ final \in Nat /\ BlockEnd(0, s) = 0 /\ BlockEnd(final, s) = Len(s)
      /\ \A b \in 1 .. final : /\ BlockEnd(b - 1, s) \in Nat /\ BlockEnd(b, s) \in Nat
                               /\ BlockEnd(b - 1, s) <= BlockEnd(b, s) /\ BlockEnd(b, s) <= Len(s)
  BY BlockEnds
<1> HIDE DEF final
<1>2. ASSUME NEW b \in 1 .. final, NEW x, x = r[BlockEnd(b - 1, s)]
      PROVE  (CHOOSE y \in { NrziBlock(z, BlockEnd(b - 1, s), BlockEnd(b, s), s)[BlockEnd(b, s)] :
                               z \in {x} } : TRUE) = r[BlockEnd(b, s)]
  <2>1. NrziBlock(x, BlockEnd(b - 1, s), BlockEnd(b, s), s)[BlockEnd(b, s)] = r[BlockEnd(b, s)]
    BY <1>1, <1>2, NrziInBlock
  <2>2. QED
    BY <1>2, <2>1, Zenon
<1>3. solves(g)
  <2>1. ASSUME NEW b \in 0 .. final
        PROVE  r[BlockEnd(b, s)] =
                 IF b = 0 THEN start
                 ELSE CHOOSE y \in { NrziBlock(x, BlockEnd(b - 1, s), BlockEnd(b, s), s)[BlockEnd(b, s)] :
                                       x \in {g[b - 1]} } : TRUE
    <3>1. CASE b = 0
      BY <1>1, <3>1 DEF NrziRun
    <3>2. CASE b # 0
      <4>1. b \in 1 .. final /\ b - 1 \in 0 .. final
        BY <1>1, <3>2
      <4>2. g[b - 1] = r[BlockEnd(b - 1, s)]
        BY <4>1
      <4> HIDE DEF g
      <4>3. QED
        BY <1>2, <3>2, <4>1, <4>2
    <3>3. QED
      BY <3>1, <3>2
  <2>2. QED
    BY <2>1, Zenon
<1>4. solves(block)
  BY <1>3, Zenon DEF NrziBlocks, final
<1> HIDE DEF block, g
<1> DEFINE A == {b \in 0 .. final : block[b] = r[BlockEnd(b, s)]}
<1>5. 0 \in A
  <2>1. block[0] = start
    BY <1>1, <1>4
  <2>2. QED
    BY <1>1, <2>1 DEF NrziRun
<1>6. ASSUME NEW b \in 1 .. final, b - 1 \in A PROVE b \in A
  <2>1. b \in 0 .. final /\ b # 0
    BY <1>1
  <2>2. block[b] = CHOOSE y \in { NrziBlock(x, BlockEnd(b - 1, s), BlockEnd(b, s), s)[BlockEnd(b, s)] :
                                    x \in {block[b - 1]} } : TRUE
    BY <1>4, <2>1, Zenon
  <2>3. block[b - 1] = r[BlockEnd(b - 1, s)]
    BY <1>6
  <2>4. QED
    BY <1>2, <2>1, <2>2, <2>3
<1>7. final \in A
  <2> HIDE DEF A
  <2>1. 0 .. final \subseteq A
    BY <1>1, <1>5, <1>6, UpTo
  <2>2. QED
    BY <1>1, <2>1
<1>8. block[final] = r[Len(s)]
  BY <1>1, <1>7
<1>9. Framing!After(Framing!NrziPush, start, s) = block[final]
  BY Zenon DEF Framing!After, NrziBlocks, NrziBlock, BlockEnd, block, final
<1>10. QED
  BY <1>8, <1>9

NrziEnd(start, s) == Framing!After(Framing!NrziPush, start, s)

LEMMA NrziGrows ==
    ASSUME NEW start, NEW T, NEW s \in Seq(T), NEW x \in T
    PROVE  /\ NrziEnd(start, <<>>) = start
           /\ NrziEnd(start, Append(s, x))
                = Framing!NrziPush(NrziEnd(start, s), x)
<1> DEFINE t == Append(s, x)
<1>1. /\ Len(s) \in Nat /\ Len(t) = Len(s) + 1 /\ t[Len(s) + 1] = x
      /\ \A i \in 1 .. Len(s) : t[i] = s[i]
  BY LenProperties, AppendProperties
<1> HIDE DEF t
<1>2. PICK r : NrziRun(r, start, t)
  <2>1. Len(t) \in Nat
    BY <1>1
  <2>2. QED
    BY <2>1, NrziRuns, Zenon
<1>3. NrziRun(r, start, s)
  BY <1>1, <1>2 DEF NrziRun
<1>4. NrziEnd(start, t) = r[Len(t)]
  BY <1>1, <1>2, NrziAfter DEF NrziEnd
<1>5. NrziEnd(start, s) = r[Len(s)]
  BY <1>1, <1>3, NrziAfter DEF NrziEnd
<1>6. r[Len(t)] = Framing!NrziPush(r[Len(s)], x)
  <2>1. Len(t) \in 1 .. Len(t) /\ Len(t) - 1 = Len(s) /\ t[Len(t)] = x
    BY <1>1
  <2>2. QED
    BY <1>2, <2>1 DEF NrziRun
<1>7. NrziEnd(start, <<>>) = start
  <2>1. Len(<<>>) = 0
    OBVIOUS
  <2>2. PICK q : NrziRun(q, start, <<>>)
    BY <2>1, NrziRuns
  <2>3. NrziEnd(start, <<>>) = q[0]
    BY <2>1, <2>2, NrziAfter DEF NrziEnd
  <2>4. QED
    BY <2>2, <2>3 DEF NrziRun
<1>8. QED
  BY <1>4, <1>5, <1>6, <1>7 DEF t

----------------------------------------------------------------------------
(* Stuffing: a zero after five ones, and back *)

Bits == Seq(Framing!Bit)

LEMMA BitIs == Framing!Bit = {0, 1} /\ 0 \in Framing!Bit /\ 1 \in Framing!Bit
  BY DEF Framing!Bit

\* A sequence grows by its elements.
LEMMA PrefixGrows ==
    ASSUME NEW T, NEW s \in Seq(T)
    PROVE  /\ SubSeq(s, 1, 0) = <<>> /\ SubSeq(s, 1, Len(s)) = s
           /\ \A i \in 1 .. Len(s) :
                 /\ SubSeq(s, 1, i - 1) \in Seq(T) /\ Len(SubSeq(s, 1, i - 1)) = i - 1
                 /\ SubSeq(s, 1, i) = Append(SubSeq(s, 1, i - 1), s[i]) /\ s[i] \in T
           /\ \A i \in 0 .. Len(s) :
                 /\ SubSeq(s, 1, i) \in Seq(T) /\ Len(SubSeq(s, 1, i)) = i
                 /\ \A k \in 1 .. i : SubSeq(s, 1, i)[k] = s[k]
<1>1. SubSeq(s, 1, 0) = <<>> /\ SubSeq(s, 1, Len(s)) = s
  BY SubSeqEmpty, SubSeqFull
<1>2. Len(s) \in Nat /\ \A i \in 1 .. Len(s) : s[i] \in T
  BY LenProperties, ElementOfSeq
<1>3. ASSUME NEW i \in 0 .. Len(s)
      PROVE  /\ SubSeq(s, 1, i) \in Seq(T) /\ Len(SubSeq(s, 1, i)) = i
             /\ \A k \in 1 .. i : SubSeq(s, 1, i)[k] = s[k]
  <2>1. 1 \in Int /\ i \in Int /\ \A k \in 1 .. i : s[k] \in T
    BY <1>2
  <2>2. /\ SubSeq(s, 1, i) \in Seq(T)
        /\ Len(SubSeq(s, 1, i)) = IF 1 <= i THEN i - 1 + 1 ELSE 0
        /\ \A k \in 1 .. i - 1 + 1 : SubSeq(s, 1, i)[k] = s[1 + k - 1]
    BY <2>1, SubSeqProperties
  <2>3. QED
    BY <1>2, <2>2
<1>4. ASSUME NEW i \in 1 .. Len(s)
      PROVE  /\ SubSeq(s, 1, i - 1) \in Seq(T) /\ Len(SubSeq(s, 1, i - 1)) = i - 1
             /\ SubSeq(s, 1, i) = Append(SubSeq(s, 1, i - 1), s[i]) /\ s[i] \in T
  <2>1. i - 1 \in 0 .. Len(s) /\ i \in 0 .. Len(s) /\ s[i] \in T
    BY <1>2
  <2>2. SubSeq(s, 1, i - 1) \in Seq(T) /\ Len(SubSeq(s, 1, i - 1)) = i - 1
    BY <1>3, <2>1
  <2> DEFINE a == SubSeq(s, 1, i)
             b == Append(SubSeq(s, 1, i - 1), s[i])
  <2>3. b \in Seq(T) /\ Len(b) = i /\ b[i] = s[i] /\ \A k \in 1 .. i - 1 : b[k] = s[k]
    <3>1. /\ b \in Seq(T) /\ Len(b) = i - 1 + 1 /\ b[i - 1 + 1] = s[i]
          /\ \A k \in 1 .. i - 1 : b[k] = SubSeq(s, 1, i - 1)[k]
      BY <2>1, <2>2, AppendProperties
    <3>2. \A k \in 1 .. i - 1 : SubSeq(s, 1, i - 1)[k] = s[k]
      BY <1>3, <2>1
    <3> HIDE DEF b
    <3>3. QED
      BY <3>1, <3>2
  <2>4. a \in Seq(T) /\ Len(a) = i /\ \A k \in 1 .. i : a[k] = s[k]
    BY <1>3, <2>1
  <2>5. a = b
    <3> HIDE DEF a, b
    <3>1. \A k \in 1 .. Len(a) : a[k] = b[k]
      BY <2>3, <2>4
    <3>2. QED
      BY <2>3, <2>4, <3>1, SeqEqual
  <2>6. QED
    BY <2>1, <2>2, <2>5
<1>5. QED
  BY <1>1, <1>3, <1>4

LEMMA UnstuffIs ==
    ASSUME NEW s
    PROVE  Framing!AisUnstuff(s) = UnstuffEnd([out |-> <<>>, ones |-> 0, skip |-> FALSE, bad |-> FALSE], s)
  BY Zenon DEF Framing!AisUnstuff, UnstuffEnd

\* No six ones in a row: nothing in it looks like a flag.
NoSix(s) == \A k \in 1 .. Len(s) - 5 : \E m \in k .. k + 5 : s[m] = 0

\* What the transmitter's machine has made of the bits p.
Stuffed(st, p) ==
    /\ st \in [out : Bits, ones : 0 .. 4]
    /\ 5 * Len(st.out) + st.ones <= 6 * Len(p)
    /\ Framing!AisUnstuff(st.out) = [out |-> p, ones |-> st.ones, skip |-> FALSE, bad |-> FALSE]
    /\ st.ones < Len(st.out) => st.out[Len(st.out) - st.ones] = 0
    /\ NoSix(st.out)

LEMMA StuffStarts == Stuffed([out |-> <<>>, ones |-> 0], <<>>)
<1>1. <<>> \in Bits /\ Len(<<>>) = 0
  BY EmptySeq DEF Bits
<1>2. Framing!AisUnstuff(<<>>) = [out |-> <<>>, ones |-> 0, skip |-> FALSE, bad |-> FALSE]
  BY <1>1, UnstuffGrows, UnstuffIs, BitIs DEF Bits
<1>3. NoSix(<<>>)
  BY <1>1 DEF NoSix
<1>4. QED
  BY <1>1, <1>2, <1>3 DEF Stuffed

LEMMA OneMore ==
    ASSUME NEW s \in Bits, NEW x \in Framing!Bit
    PROVE  /\ Append(s, x) \in Bits /\ Len(s) \in Nat /\ Len(Append(s, x)) = Len(s) + 1
           /\ Append(s, x)[Len(s) + 1] = x
           /\ \A i \in 1 .. Len(s) : Append(s, x)[i] = s[i]
           /\ Framing!AisUnstuff(Append(s, x)) = Framing!AisUnstuffStep(Framing!AisUnstuff(s), x)
<1>1. s \in Seq(Framing!Bit)
  BY DEF Bits
<1>2. /\ Append(s, x) \in Bits /\ Len(s) \in Nat /\ Len(Append(s, x)) = Len(s) + 1
      /\ Append(s, x)[Len(s) + 1] = x
      /\ \A i \in 1 .. Len(s) : Append(s, x)[i] = s[i]
  BY <1>1, AppendProperties, LenProperties DEF Bits
<1>3. Framing!AisUnstuff(Append(s, x)) = Framing!AisUnstuffStep(Framing!AisUnstuff(s), x)
  BY <1>1, UnstuffGrows, UnstuffIs
<1>4. QED
  BY <1>2, <1>3

\* A window of six that ends with a new element.
LEMMA NoSixMore ==
    ASSUME NEW s \in Bits, NEW x \in Framing!Bit, NoSix(s),
           \/ x = 0
           \/ Len(s) >= 5 => \E m \in Len(s) - 4 .. Len(s) : s[m] = 0
    PROVE  NoSix(Append(s, x))
<1> DEFINE t == Append(s, x)
<1>1. /\ Len(s) \in Nat /\ Len(t) = Len(s) + 1 /\ t[Len(s) + 1] = x
      /\ \A i \in 1 .. Len(s) : t[i] = s[i]
  BY OneMore
<1> HIDE DEF t
<1>2. ASSUME NEW k \in 1 .. Len(t) - 5 PROVE \E m \in k .. k + 5 : t[m] = 0
  <2>1. CASE k \in 1 .. Len(s) - 5
    <3>1. PICK m \in k .. k + 5 : s[m] = 0
      BY <2>1 DEF NoSix
    <3>2. m \in 1 .. Len(s)
      BY <1>1, <2>1
    <3>3. QED
      BY <1>1, <3>1, <3>2
  <2>2. CASE k = Len(s) - 4
    <3>1. CASE x = 0
      BY <1>1, <2>2, <3>1
    <3>2. CASE \E m \in Len(s) - 4 .. Len(s) : s[m] = 0
      <4>1. PICK m \in Len(s) - 4 .. Len(s) : s[m] = 0
        BY <3>2
      <4>2. m \in 1 .. Len(s) /\ m \in k .. k + 5
        BY <1>1, <2>2
      <4>3. QED
        BY <1>1, <4>1, <4>2
    <3>3. QED
      BY <1>1, <2>2, <3>1, <3>2
  <2>3. QED
    BY <1>1, <2>1, <2>2
<1>3. NoSix(t)
  BY <1>2 DEF NoSix
<1>4. QED
  BY <1>3 DEF t

LEMMA StuffGoesOn ==
    ASSUME NEW st, NEW p \in Bits, NEW x \in Framing!Bit, Stuffed(st, p)
    PROVE  Stuffed(Framing!StuffStep(st, x), Append(p, x))
<1> DEFINE one == Append(st.out, x)
           two == Append(one, 0)
           ones == IF x = 1 THEN st.ones + 1 ELSE 0
<1>1. /\ st.out \in Bits /\ st.ones \in 0 .. 4 /\ Len(st.out) \in Nat
      /\ Len(Append(p, x)) = Len(p) + 1 /\ Len(p) \in Nat
  BY OneMore DEF Stuffed
<1>2. /\ one \in Bits /\ Len(one) = Len(st.out) + 1 /\ one[Len(st.out) + 1] = x
      /\ \A i \in 1 .. Len(st.out) : one[i] = st.out[i]
  BY <1>1, OneMore
<1>7. Framing!AisUnstuff(one) =
         [out |-> Append(p, x), ones |-> ones % 5, skip |-> (ones = 5), bad |-> FALSE]
  <2> DEFINE before == [out |-> p, ones |-> st.ones, skip |-> FALSE, bad |-> FALSE]
  <2>1. Framing!AisUnstuff(st.out) = before
    BY DEF Stuffed
  <2>2. Framing!AisUnstuffStep(before, x) =
           [out |-> Append(p, x), ones |-> ones % 5, skip |-> (ones = 5), bad |-> FALSE]
    BY DEF Framing!AisUnstuffStep
  <2> HIDE DEF before, ones
  <2>3. QED
    BY <1>1, <2>1, <2>2, OneMore
<1>3. NoSix(one)
  <2>1. CASE x = 1 /\ Len(st.out) >= 5
    <3>1. Len(st.out) - st.ones \in Len(st.out) - 4 .. Len(st.out) /\ st.ones < Len(st.out)
      BY <1>1, <2>1
    <3>2. st.out[Len(st.out) - st.ones] = 0
      BY <3>1 DEF Stuffed
    <3>3. QED
      BY <1>1, <3>1, <3>2, NoSixMore DEF Stuffed
  <2>2. CASE x = 0 \/ ~(Len(st.out) >= 5)
    BY <1>1, <2>2, NoSixMore DEF Stuffed
  <2>3. QED
    BY <2>1, <2>2, BitIs
<1> HIDE DEF one
<1>4. CASE ones = 5
  <2>1. /\ two \in Bits /\ Len(two) = Len(st.out) + 2 /\ two[Len(st.out) + 2] = 0
        /\ Framing!AisUnstuff(two) = Framing!AisUnstuffStep(Framing!AisUnstuff(one), 0)
    <3>1. /\ two \in Bits /\ Len(two) = Len(one) + 1 /\ two[Len(one) + 1] = 0
          /\ Framing!AisUnstuff(two) = Framing!AisUnstuffStep(Framing!AisUnstuff(one), 0)
      BY <1>2, BitIs, OneMore
    <3>2. Len(one) + 1 = Len(st.out) + 2
      BY <1>1, <1>2
    <3>3. QED
      BY <3>1, <3>2
  <2>2. Framing!AisUnstuff(two) = [out |-> Append(p, x), ones |-> 0, skip |-> FALSE, bad |-> FALSE]
    <3> DEFINE before == [out |-> Append(p, x), ones |-> 0, skip |-> TRUE, bad |-> FALSE]
    <3>1. ones % 5 = 0 /\ (ones = 5) = TRUE
      BY <1>4
    <3>3. Framing!AisUnstuff(one) = before
      <4> HIDE DEF ones
      <4>1. QED
        BY <1>7, <3>1
    <3>2. Framing!AisUnstuffStep(before, 0) =
            [out |-> Append(p, x), ones |-> 0, skip |-> FALSE, bad |-> FALSE]
      BY 0 # 1, Zenon DEF Framing!AisUnstuffStep
    <3> HIDE DEF before
    <3>4. QED
      BY <2>1, <3>2, <3>3
  <2>3. NoSix(two)
    BY <1>2, <1>3, BitIs, NoSixMore
  <2>4. st.out \o <<1, 0>> = two /\ x = 1
    <3>1. x = 1
      BY <1>4
    <3>2. <<1, 0>> \in Seq(Framing!Bit) /\ Len(<<1, 0>>) = 2 /\ <<1, 0>>[1] = 1 /\ <<1, 0>>[2] = 0
      BY BitIs
    <3> DEFINE both == <<1, 0>>
    <3> HIDE DEF both
    <3>3. /\ st.out \o both \in Seq(Framing!Bit) /\ Len(st.out \o both) = Len(st.out) + 2
          /\ \A i \in 1 .. Len(st.out) + 2 :
                (st.out \o both)[i] = IF i <= Len(st.out) THEN st.out[i] ELSE both[i - Len(st.out)]
      BY <1>1, <3>2, ConcatProperties DEF Bits, both
    <3>4. two[Len(st.out) + 1] = x /\ \A i \in 1 .. Len(st.out) : two[i] = st.out[i]
      <4>1. \A i \in 1 .. Len(one) : two[i] = one[i]
        BY <1>2, BitIs, OneMore
      <4> HIDE DEF two
      <4>2. QED
        BY <1>1, <1>2, <4>1
    <3>5. two \in Seq(Framing!Bit)
      BY <2>1 DEF Bits
    <3> HIDE DEF two
    <3>6. ASSUME NEW i \in 1 .. Len(two) PROVE two[i] = (st.out \o both)[i]
      <4>1. CASE i <= Len(st.out)
        BY <1>1, <2>1, <3>3, <3>4, <4>1
      <4>2. CASE i = Len(st.out) + 1
        BY <1>1, <3>1, <3>2, <3>3, <3>4, <4>2 DEF both
      <4>3. CASE i = Len(st.out) + 2
        BY <1>1, <2>1, <3>2, <3>3, <4>3 DEF both
      <4>4. i <= Len(st.out) \/ i = Len(st.out) + 1 \/ i = Len(st.out) + 2
        BY <1>1, <2>1
      <4>5. QED
        BY <4>1, <4>2, <4>3, <4>4
    <3>7. two = st.out \o both
      BY <2>1, <3>3, <3>5, <3>6, SeqEqual
    <3>8. QED
      BY <3>1, <3>7 DEF both
  <2> HIDE DEF two
  <2>5. Framing!StuffStep(st, x) = [out |-> two, ones |-> 0]
    BY <1>4, <2>4 DEF Framing!StuffStep
  <2>6. QED
    BY <1>1, <1>4, <2>1, <2>2, <2>3, <2>5 DEF Stuffed
<1>5. CASE ones # 5
  <2>1. Framing!StuffStep(st, x) = [out |-> one, ones |-> ones]
    BY <1>5 DEF Framing!StuffStep, one
  <2>2. ones \in 0 .. 4 /\ ones % 5 = ones
    BY <1>1, <1>5
  <2>3. 5 * Len(one) + ones <= 6 * Len(Append(p, x))
    BY <1>1, <1>2 DEF Stuffed
  <2>4. ones < Len(one) => one[Len(one) - ones] = 0
    <3>1. CASE x = 1
      <4> SUFFICES ASSUME ones < Len(one) PROVE one[Len(one) - ones] = 0
        OBVIOUS
      <4>1. /\ Len(one) - ones = Len(st.out) - st.ones /\ st.ones < Len(st.out)
            /\ Len(st.out) - st.ones \in 1 .. Len(st.out)
        <5>1. ones = st.ones + 1
          BY <3>1
        <5> DEFINE n == Len(st.out)
                   k == st.ones
                   l == Len(one)
        <5> HIDE DEF ones
        <5>2. n \in Nat /\ k \in 0 .. 4 /\ l = n + 1 /\ ones = k + 1 /\ ones < l
          BY <1>1, <1>2, <5>1
        <5> HIDE DEF n, k, l
        <5>3. l - ones = n - k /\ k < n /\ n - k \in 1 .. n
          BY <5>2
        <5>4. QED
          BY <5>3 DEF n, k, l
      <4>2. st.out[Len(st.out) - st.ones] = 0
        BY <4>1 DEF Stuffed
      <4>3. QED
        BY <1>2, <4>1, <4>2
    <3>2. CASE x = 0
      BY <1>1, <1>2, <3>2
    <3>3. QED
      BY <3>1, <3>2, BitIs
  <2> HIDE DEF ones
  <2>5. Framing!AisUnstuff(one) = [out |-> Append(p, x), ones |-> ones, skip |-> FALSE, bad |-> FALSE]
    <3>1. (ones = 5) = FALSE
      BY <1>5
    <3>2. QED
      BY <1>7, <2>2, <3>1
  <2> DEFINE new == [out |-> one, ones |-> ones]
  <2>6. new \in [out : Bits, ones : 0 .. 4] /\ new.out = one /\ new.ones = ones
    BY <1>2, <2>2
  <2> HIDE DEF new
  <2>7. Stuffed(new, Append(p, x))
    BY <1>3, <2>3, <2>4, <2>5, <2>6 DEF Stuffed
  <2>8. QED
    BY <2>1, <2>7 DEF new
<1>6. QED
  BY <1>4, <1>5

\* Whatever bits are stuffed come back, and there is no flag among them.
LEMMA StuffReturns ==
    ASSUME NEW p \in Bits
    PROVE  /\ Framing!Stuff(p) \in Bits /\ NoSix(Framing!Stuff(p))
           /\ 5 * Len(Framing!Stuff(p)) <= 6 * Len(p)
           /\ LET raw == Framing!AisUnstuff(Framing!Stuff(p)) IN raw.out = p /\ ~raw.skip /\ ~raw.bad
<1> DEFINE st(s) == StuffEnd([out |-> <<>>, ones |-> 0], s)
           A == {i \in 0 .. Len(p) : Stuffed(st(SubSeq(p, 1, i)), SubSeq(p, 1, i))}
<1>1. p \in Seq(Framing!Bit) /\ Len(p) \in Nat
  BY LenProperties DEF Bits
<1>2. 0 \in A
  <2>1. st(<<>>) = [out |-> <<>>, ones |-> 0]
    BY <1>1, BitIs, StuffGrows
  <2>2. SubSeq(p, 1, 0) = <<>>
    BY <1>1, PrefixGrows
  <2>3. Stuffed(st(SubSeq(p, 1, 0)), SubSeq(p, 1, 0))
    BY <2>1, <2>2, StuffStarts, Zenon
  <2>4. QED
    BY <1>1, <2>3
<1>3. ASSUME NEW i \in 1 .. Len(p), i - 1 \in A PROVE i \in A
  <2> DEFINE q == SubSeq(p, 1, i - 1)
  <2>1. q \in Seq(Framing!Bit) /\ SubSeq(p, 1, i) = Append(q, p[i]) /\ p[i] \in Framing!Bit
    BY <1>1, PrefixGrows
  <2>2. Stuffed(st(q), q)
    BY <1>3
  <2> HIDE DEF q
  <2>3. st(Append(q, p[i])) = Framing!StuffStep(st(q), p[i])
    BY <2>1, StuffGrows
  <2> HIDE DEF st
  <2>4. Stuffed(Framing!StuffStep(st(q), p[i]), Append(q, p[i]))
    BY <2>1, <2>2, StuffGoesOn DEF Bits
  <2>5. Stuffed(st(SubSeq(p, 1, i)), SubSeq(p, 1, i))
    BY <2>1, <2>3, <2>4, Zenon
  <2>6. QED
    BY <1>1, <2>5
<1>4. Len(p) \in A
  <2> HIDE DEF A
  <2>1. 0 .. Len(p) \subseteq A
    BY <1>1, <1>2, <1>3, UpTo
  <2>2. QED
    BY <1>1, <2>1
<1>5. Stuffed(st(p), p)
  BY <1>1, <1>4, PrefixGrows
<1>6. Framing!Stuff(p) = st(p).out
  BY Zenon DEF Framing!Stuff, StuffEnd
<1> HIDE DEF st
<1>7. QED
  BY <1>1, <1>5, <1>6 DEF Stuffed

----------------------------------------------------------------------------
(* The check sequence, and a frame between two flags *)

LEMMA CrcStepIs ==
    ASSUME NEW crc \in [1 .. 16 -> Framing!Bit], NEW x \in Framing!Bit
    PROVE  Framing!CrcStep(crc, x) \in [1 .. 16 -> Framing!Bit]
<1> DEFINE shifted == Tail(crc) \o <<0>>
           carry == Framing!Xor(crc[1], x)
<1>1. crc \in Seq(Framing!Bit) /\ Len(crc) = 16
  <2>1. crc \in Seq(Framing!Bit)
    BY SeqDef
  <2>2. QED
    BY <2>1, LenProperties
<1>2. Tail(crc) \in Seq(Framing!Bit) /\ Len(Tail(crc)) = 15
  <2>1. crc # <<>>
    <3>1. \A s : Len(s) = 16 => s # <<>>
      <4>1. Len(<<>>) # 16
        OBVIOUS
      <4>2. QED
        BY <4>1, Zenon
    <3>2. QED
      BY <1>1, <3>1, Zenon
  <2>2. QED
    BY <1>1, <2>1, HeadTailProperties
<1>3. \A a, b \in Framing!Bit : Framing!Xor(a, b) \in Framing!Bit
  BY DEF Framing!Xor, Framing!Bit
<1>4. carry \in Framing!Bit
  BY <1>3
<1>5. \A i \in 1 .. 16 : shifted[i] \in Framing!Bit
  <2>1. <<0>> \in Seq(Framing!Bit) /\ Len(<<0>>) = 1
    BY BitIs
  <2>2. shifted \in Seq(Framing!Bit) /\ Len(shifted) = 16
    BY <1>2, <2>1, ConcatProperties
  <2> HIDE DEF shifted
  <2>3. QED
    BY <2>2, ElementOfSeq
<1> HIDE DEF shifted, carry
<1>6. \A i \in 1 .. 16 : Framing!Xor(shifted[i], carry) \in Framing!Bit
  BY <1>3, <1>4, <1>5
<1>7. Framing!CrcStep(crc, x) =
        [i \in 1 .. 16 |-> IF i \in {4, 11, 16} THEN Framing!Xor(shifted[i], carry) ELSE shifted[i]]
  BY DEF Framing!CrcStep, shifted, carry
<1>8. QED
  BY <1>5, <1>6, <1>7

LEMMA CrcIs ==
    ASSUME NEW p \in Bits
    PROVE  Framing!Crc16X25(p) \in Bits /\ Len(Framing!Crc16X25(p)) = 16
<1> DEFINE start == Framing!Ones(16)
           A == {i \in 0 .. Len(p) : CrcEnd(start, SubSeq(p, 1, i)) \in [1 .. 16 -> Framing!Bit]}
<1>1. p \in Seq(Framing!Bit) /\ Len(p) \in Nat
  BY LenProperties DEF Bits
<1>2. start \in [1 .. 16 -> Framing!Bit]
  BY BitIs DEF Framing!Ones
<1> HIDE DEF start
<1>3. 0 \in A
  <2>1. CrcEnd(start, <<>>) = start /\ SubSeq(p, 1, 0) = <<>>
    BY <1>1, BitIs, CrcGrows, PrefixGrows
  <2>2. CrcEnd(start, SubSeq(p, 1, 0)) \in [1 .. 16 -> Framing!Bit]
    BY <1>2, <2>1, Zenon
  <2>3. 0 \in 0 .. Len(p)
    BY <1>1
  <2>4. QED
    BY <2>2, <2>3
<1>4. ASSUME NEW i \in 1 .. Len(p), i - 1 \in A PROVE i \in A
  <2> DEFINE q == SubSeq(p, 1, i - 1)
  <2>1. q \in Seq(Framing!Bit) /\ SubSeq(p, 1, i) = Append(q, p[i]) /\ p[i] \in Framing!Bit
    BY <1>1, PrefixGrows
  <2>2. CrcEnd(start, q) \in [1 .. 16 -> Framing!Bit]
    BY <1>4
  <2> HIDE DEF q
  <2>3. CrcEnd(start, Append(q, p[i])) = Framing!CrcStep(CrcEnd(start, q), p[i])
    BY <2>1, CrcGrows
  <2>4. CrcEnd(start, SubSeq(p, 1, i)) \in [1 .. 16 -> Framing!Bit]
    BY <2>1, <2>2, <2>3, CrcStepIs
  <2>5. QED
    BY <1>1, <2>4
<1>5. Len(p) \in A
  <2> HIDE DEF A
  <2>1. 0 .. Len(p) \subseteq A
    BY <1>1, <1>3, <1>4, UpTo
  <2>2. QED
    BY <1>1, <2>1
<1>6. CrcEnd(start, p) \in [1 .. 16 -> Framing!Bit]
  BY <1>1, <1>5, PrefixGrows
<1>7. Framing!Crc16X25(p) = Framing!Complement(CrcEnd(start, p))
  BY Zenon DEF Framing!Crc16X25, Framing!Crc16, CrcEnd, start
<1>8. \A c \in [1 .. 16 -> Framing!Bit] : Framing!Complement(c) \in [1 .. 16 -> Framing!Bit]
  BY DEF Framing!Complement, Framing!Bit
<1>9. Framing!Crc16X25(p) \in [1 .. 16 -> Framing!Bit]
  BY <1>6, <1>7, <1>8
<1>10. Framing!Crc16X25(p) \in Seq(Framing!Bit)
  BY <1>9, SeqDef
<1>11. QED
  BY <1>9, <1>10, LenProperties DEF Bits

LEMMA FlagIs ==
    /\ Framing!Flag \in Seq(Framing!Bit) /\ Len(Framing!Flag) = 8
    /\ Framing!Flag[1] = 0 /\ Framing!Flag[2] = 1 /\ Framing!Flag[3] = 1 /\ Framing!Flag[4] = 1
    /\ Framing!Flag[5] = 1 /\ Framing!Flag[6] = 1 /\ Framing!Flag[7] = 1 /\ Framing!Flag[8] = 0
  BY DEF Framing!Flag, Framing!Bit

\* What a joined sequence ends in and begins with.
LEMMA EndsOf ==
    ASSUME NEW s \in Bits, NEW t \in Bits
    PROVE  /\ s \o t \in Bits /\ Len(s) \in Nat /\ Len(t) \in Nat /\ Len(s \o t) = Len(s) + Len(t)
           /\ \A i \in 1 .. Len(s) : (s \o t)[i] = s[i]
           /\ \A i \in 1 .. Len(t) : (s \o t)[Len(s) + i] = t[i]
           /\ Framing!WithoutLast(s \o t, Len(t)) = s
           /\ Framing!Last(s \o t, Len(t)) = t
<1> DEFINE w == s \o t
           n == Len(s)
           m == Len(t)
<1>1. n \in Nat /\ m \in Nat
  BY LenProperties DEF Bits
<1>2. /\ w \in Bits /\ Len(w) = n + m
      /\ \A i \in 1 .. n + m : w[i] = IF i <= n THEN s[i] ELSE t[i - n]
  BY ConcatProperties DEF Bits
<1> HIDE DEF w, n, m
<1>3. \A i \in 1 .. n : w[i] = s[i]
  BY <1>1, <1>2
<1>4. ASSUME NEW i \in 1 .. m PROVE w[n + i] = t[i]
  <2> DEFINE k == n + i
  <2>1. k \in 1 .. n + m /\ ~(k <= n) /\ k - n = i
    BY <1>1
  <2> HIDE DEF k
  <2>2. w[k] = t[i]
    BY <1>2, <2>1
  <2>3. QED
    BY <2>2 DEF k
<1>5. \A i \in 1 .. n + m : w[i] \in Framing!Bit
  BY <1>2, ElementOfSeq DEF Bits
<1>6. SubSeq(w, 1, n) = s
  <2> DEFINE a == SubSeq(w, 1, n)
  <2>1. 1 \in Int /\ n \in Int /\ \A i \in 1 .. n : w[i] \in Framing!Bit
    BY <1>1, <1>5
  <2>2. /\ a \in Bits /\ Len(a) = IF 1 <= n THEN n - 1 + 1 ELSE 0
        /\ \A i \in 1 .. n - 1 + 1 : a[i] = w[1 + i - 1]
    BY <2>1, SubSeqProperties DEF Bits
  <2> HIDE DEF a
  <2>3. Len(a) = n /\ \A i \in 1 .. n : a[i] = s[i]
    BY <1>1, <1>3, <2>2
  <2>4. a = s
    BY <2>2, <2>3, SeqEqual DEF Bits, n
  <2>5. QED
    BY <2>4 DEF a
<1>7. SubSeq(w, n + 1, n + m) = t
  <2> DEFINE lo == n + 1
             hi == n + m
             a == SubSeq(w, lo, hi)
  <2>1. lo \in Int /\ hi \in Int /\ \A i \in lo .. hi : w[i] \in Framing!Bit
    BY <1>1, <1>5
  <2>7. lo = n + 1 /\ hi = n + m
    OBVIOUS
  <2> HIDE DEF lo, hi
  <2>2. /\ a \in Bits /\ Len(a) = IF lo <= hi THEN hi - lo + 1 ELSE 0
        /\ \A i \in 1 .. hi - lo + 1 : a[i] = w[lo + i - 1]
    BY <2>1, SubSeqProperties DEF Bits
  <2> HIDE DEF a
  <2>3. Len(a) = m
    BY <1>1, <2>2, <2>7
  <2>4. ASSUME NEW i \in 1 .. m PROVE a[i] = t[i]
    <3>1. i \in 1 .. hi - lo + 1 /\ lo + i - 1 = n + i
      BY <1>1, <2>7
    <3>2. QED
      BY <1>4, <2>2, <3>1
  <2>5. a = t
    BY <2>2, <2>3, <2>4, SeqEqual DEF Bits, m
  <2>6. QED
    BY <2>5 DEF a, lo, hi
<1>8. Len(w) - m = n /\ Len(w) - m + 1 = n + 1
  BY <1>1, <1>2
<1>9. Framing!WithoutLast(w, m) = s /\ Framing!Last(w, m) = t
  BY <1>2, <1>6, <1>7, <1>8 DEF Framing!WithoutLast, Framing!Last
<1>10. QED
  BY <1>1, <1>2, <1>3, <1>4, <1>9 DEF w, n, m

\* A frame that was stuffed with its check sequence is whole again.
LEMMA FrameReturns ==
    ASSUME NEW payload \in Bits, Len(payload) >= 8, Len(payload) % 8 = 0
    PROVE  Framing!AisFrame(Framing!Stuff(payload \o Framing!Crc16X25(payload)))
             = [valid |-> TRUE, payload |-> payload]
<1> DEFINE crc == Framing!Crc16X25(payload)
           sent == payload \o crc
           raw == Framing!AisUnstuff(Framing!Stuff(sent))
<1>1. crc \in Bits /\ Len(crc) = 16
  BY CrcIs
<1> HIDE DEF crc
<1>2. /\ sent \in Bits /\ Len(payload) \in Nat /\ Len(sent) = Len(payload) + 16
      /\ Framing!WithoutLast(sent, 16) = payload /\ Framing!Last(sent, 16) = crc
  <2>1. payload \in Bits /\ crc \in Bits /\ Len(crc) = 16
    BY <1>1
  <2>2. /\ payload \o crc \in Bits /\ Len(payload) \in Nat
        /\ Len(payload \o crc) = Len(payload) + Len(crc)
        /\ Framing!WithoutLast(payload \o crc, Len(crc)) = payload
        /\ Framing!Last(payload \o crc, Len(crc)) = crc
    BY <2>1, EndsOf
  <2> HIDE DEF sent
  <2>3. sent = payload \o crc
    BY DEF sent
  <2>4. QED
    BY <2>1, <2>2, <2>3
<1> HIDE DEF sent
<1>3. raw.out = sent /\ ~raw.skip /\ ~raw.bad
  BY <1>2, StuffReturns
<1>4. Framing!WholeOctets(sent)
  BY <1>2 DEF Framing!WholeOctets
<1> HIDE DEF raw
<1>5. Framing!AisFrame(Framing!Stuff(sent)) = [valid |-> TRUE, payload |-> payload]
  BY <1>2, <1>3, <1>4, Zenon DEF Framing!AisFrame, raw, crc
<1>6. QED
  BY <1>5 DEF sent, crc

\* The decoder of ais.rs, in the middle of what may become a frame ...
Decoder == [inFrame : BOOLEAN, bits : Bits, level : 0 .. 2, got : Seq(Bits)]
Listening(d, s) == [inFrame |-> d.inFrame, bits |-> s, level |-> d.level, got |-> d.got]

\* ... and after the flag that ends it.
Heard(d, body) ==
    [inFrame |-> TRUE, bits |-> <<>>, level |-> d.level,
     got |-> IF d.inFrame /\ body # <<>> /\ Framing!AisFrame(body).valid
               THEN Append(d.got, Framing!AisFrame(body).payload) ELSE d.got]

LEMMA PushesOn ==
    ASSUME NEW d, NEW q, NEW x, ~Framing!EndsInFlag(Append(q, x)), ~(Len(Append(q, x)) > MaxFrameBits)
    PROVE  Framing!AisPushBit(Listening(d, q), x) = Listening(d, Append(q, x))
  BY Zenon DEF Framing!AisPushBit, Listening

LEMMA PushesFlag ==
    ASSUME NEW d, NEW q, NEW x, Framing!EndsInFlag(Append(q, x))
    PROVE  Framing!AisPushBit(Listening(d, q), x) = Heard(d, Framing!WithoutLast(Append(q, x), 8))
  BY Zenon DEF Framing!AisPushBit, Listening, Heard

LEMMA FlagFollows ==
    ASSUME NEW body \in Bits
    PROVE  LET w == body \o Framing!Flag
           IN  /\ Len(body) \in Nat /\ w \in Bits /\ Len(w) = Len(body) + 8
               /\ \A k \in 1 .. Len(body) : w[k] = body[k]
               /\ \A k \in 1 .. 8 : w[Len(body) + k] = Framing!Flag[k]
               /\ Framing!WithoutLast(w, 8) = body /\ Framing!Last(w, 8) = Framing!Flag
<1> DEFINE f == Framing!Flag
           w == body \o f
<1>1. f \in Bits /\ Len(f) = 8
  BY FlagIs DEF Bits
<1> HIDE DEF f
<1>2. /\ w \in Bits /\ Len(body) \in Nat /\ Len(w) = Len(body) + Len(f)
      /\ \A i \in 1 .. Len(body) : w[i] = body[i]
      /\ \A i \in 1 .. Len(f) : w[Len(body) + i] = f[i]
      /\ Framing!WithoutLast(w, Len(f)) = body
      /\ Framing!Last(w, Len(f)) = f
  BY <1>1, EndsOf
<1> HIDE DEF w
<1>3. QED
  BY <1>1, <1>2 DEF w, f

\* Stuffed bits and a flag look like a flag at their end only.
LEMMA FlagAtEnd ==
    ASSUME NEW body \in Bits, NoSix(body), NEW i \in 0 .. Len(body) + 7
    PROVE  ~Framing!EndsInFlag(SubSeq(body \o Framing!Flag, 1, i))
<1> DEFINE w == body \o Framing!Flag
           q == SubSeq(w, 1, i)
           n == Len(body)
<1> SUFFICES ASSUME Framing!EndsInFlag(q) PROVE FALSE
  OBVIOUS
<1>1. /\ n \in Nat /\ w \in Seq(Framing!Bit) /\ Len(w) = n + 8
      /\ \A k \in 1 .. n : w[k] = body[k]
      /\ \A k \in 1 .. 8 : w[n + k] = Framing!Flag[k]
  BY FlagFollows DEF Bits
<1>2. q \in Seq(Framing!Bit) /\ Len(q) = i /\ \A k \in 1 .. i : q[k] = w[k]
  <2> HIDE DEF w, n
  <2>1. i \in 0 .. Len(w)
    BY <1>1 DEF n
  <2>2. QED
    BY <1>1, <2>1, PrefixGrows
<1> HIDE DEF w, q
<1>3. i >= 8 /\ SubSeq(q, i - 7, i) = Framing!Flag
  BY <1>2 DEF Framing!EndsInFlag, Framing!Last
<1>4. ASSUME NEW k \in 1 .. 8 PROVE w[i - 8 + k] = Framing!Flag[k]
  <2>1. i - 7 \in Int /\ i \in Int /\ \A j \in i - 7 .. i : q[j] \in Framing!Bit
    BY <1>2, <1>3, ElementOfSeq
  <2>2. \A j \in 1 .. i - (i - 7) + 1 : SubSeq(q, i - 7, i)[j] = q[i - 7 + j - 1]
    BY <2>1, SubSeqProperties
  <2>3. k \in 1 .. i - (i - 7) + 1 /\ i - 7 + k - 1 = i - 8 + k /\ i - 8 + k \in 1 .. i
    BY <1>3
  <2>4. SubSeq(q, i - 7, i)[k] = q[i - 8 + k]
    BY <2>2, <2>3
  <2>5. QED
    BY <1>2, <1>3, <2>3, <2>4
<1>5. \A j \in i - 6 .. i - 1 : w[j] = 1
  <2> TAKE j \in i - 6 .. i - 1
  <2>1. j - i + 8 \in 2 .. 7 /\ i - 8 + (j - i + 8) = j /\ j - i + 8 \in 1 .. 8
    OBVIOUS
  <2>2. \A k \in 2 .. 7 : Framing!Flag[k] = 1
    BY FlagIs
  <2>3. QED
    BY <1>4, <2>1, <2>2
<1>6. w[n + 1] = 0
  BY <1>1, FlagIs
<1>7. i - 1 <= n
  <2> SUFFICES ASSUME n + 1 <= i - 1 PROVE FALSE
    BY <1>1
  <2>1. n + 1 \in i - 6 .. i - 1
    BY <1>1
  <2>2. QED
    BY <1>5, <1>6, <2>1
<1>8. i - 6 \in 1 .. n - 5
  BY <1>1, <1>3, <1>7
<1>9. PICK m \in i - 6 .. i - 6 + 5 : body[m] = 0
  BY <1>8 DEF NoSix, n
<1>10. m \in i - 6 .. i - 1 /\ m \in 1 .. n
  BY <1>3, <1>7, <1>1
<1>11. w[m] = body[m]
  BY <1>1, <1>10
<1>12. w[m] = 1
  BY <1>5, <1>10
<1>13. QED
  BY <1>9, <1>11, <1>12

\* From one flag to the next.
LEMMA BetweenFlags ==
    ASSUME NEW d \in Decoder, d.bits = <<>>, NEW body \in Bits, NoSix(body),
           MaxFrameBits \in Nat, Len(body) + 7 <= MaxFrameBits
    PROVE  AisEnd(d, body \o Framing!Flag) = Heard(d, body)
<1> DEFINE w == body \o Framing!Flag
           n == Len(body)
           A == {i \in 0 .. n + 7 : AisEnd(d, SubSeq(w, 1, i)) = Listening(d, SubSeq(w, 1, i))}
<1>1. /\ n \in Nat /\ w \in Seq(Framing!Bit) /\ Len(w) = n + 8
      /\ Framing!WithoutLast(w, 8) = body /\ Framing!Last(w, 8) = Framing!Flag
  BY FlagFollows DEF Bits
<1>2. \A i \in 0 .. n + 7 : ~Framing!EndsInFlag(SubSeq(w, 1, i))
  BY FlagAtEnd
<1> HIDE DEF w
<1>3. 0 \in A
  <2>1. AisEnd(d, <<>>) = d /\ SubSeq(w, 1, 0) = <<>>
    BY <1>1, BitIs, AisGrows, PrefixGrows
  <2>2. Listening(d, <<>>) = d
    BY DEF Decoder, Listening
  <2>3. 0 \in 0 .. n + 7
    BY <1>1
  <2>4. QED
    BY <2>1, <2>2, <2>3
<1>4. ASSUME NEW i \in 1 .. n + 7, i - 1 \in A PROVE i \in A
  <2> DEFINE q == SubSeq(w, 1, i - 1)
  <2>1. i \in 1 .. Len(w) /\ i \in 0 .. Len(w) /\ i \in 0 .. n + 7
    BY <1>1
  <2>2. /\ q \in Seq(Framing!Bit) /\ SubSeq(w, 1, i) = Append(q, w[i]) /\ w[i] \in Framing!Bit
        /\ Len(SubSeq(w, 1, i)) = i
    BY <1>1, <2>1, PrefixGrows
  <2>3. AisEnd(d, q) = Listening(d, q)
    BY <1>4
  <2>4. ~Framing!EndsInFlag(SubSeq(w, 1, i)) /\ ~(Len(SubSeq(w, 1, i)) > MaxFrameBits)
    BY <1>1, <1>2, <2>1, <2>2
  <2> HIDE DEF q
  <2>5. AisEnd(d, Append(q, w[i])) = Framing!AisPushBit(AisEnd(d, q), w[i])
    BY <2>2, AisGrows
  <2>6. AisEnd(d, SubSeq(w, 1, i)) = Listening(d, SubSeq(w, 1, i))
    <3> DEFINE new == Append(q, w[i])
    <3>1. ~Framing!EndsInFlag(new) /\ ~(Len(new) > MaxFrameBits)
      BY <2>2, <2>4
    <3>2. Framing!AisPushBit(Listening(d, q), w[i]) = Listening(d, new)
      BY <3>1, PushesOn
    <3> HIDE DEF new
    <3>3. AisEnd(d, new) = Listening(d, new)
      BY <2>3, <2>5, <3>2, Zenon DEF new
    <3>4. QED
      BY <2>2, <3>3, Zenon DEF new
  <2>7. QED
    BY <2>1, <2>6
<1>5. n + 7 \in A
  <2> HIDE DEF A
  <2>1. 0 .. n + 7 \subseteq A
    <3>1. n + 7 \in Nat
      BY <1>1
    <3>2. QED
      BY <1>3, <1>4, <3>1, UpTo
  <2>2. QED
    BY <1>1, <2>1
<1> DEFINE q == SubSeq(w, 1, n + 7)
<1>6. AisEnd(d, q) = Listening(d, q)
  BY <1>5
<1>7. q \in Seq(Framing!Bit) /\ w = Append(q, w[n + 8]) /\ w[n + 8] \in Framing!Bit
  <2>1. n + 8 \in 1 .. Len(w) /\ n + 8 - 1 = n + 7
    BY <1>1
  <2>2. /\ SubSeq(w, 1, n + 8 - 1) \in Seq(Framing!Bit) /\ w[n + 8] \in Framing!Bit
        /\ SubSeq(w, 1, n + 8) = Append(SubSeq(w, 1, n + 8 - 1), w[n + 8])
    BY <1>1, <2>1, PrefixGrows
  <2>3. SubSeq(w, 1, n + 8) = w
    BY <1>1, PrefixGrows
  <2>4. QED
    BY <2>1, <2>2, <2>3
<1>8. Framing!EndsInFlag(w)
  BY <1>1 DEF Framing!EndsInFlag
<1> HIDE DEF q
<1>9. AisEnd(d, w) = Framing!AisPushBit(Listening(d, q), w[n + 8])
  <2>1. AisEnd(d, Append(q, w[n + 8])) = Framing!AisPushBit(AisEnd(d, q), w[n + 8])
    BY <1>7, AisGrows
  <2>2. QED
    BY <1>6, <1>7, <2>1
<1>10. AisEnd(d, w) = Heard(d, Framing!WithoutLast(w, 8))
  BY <1>7, <1>8, <1>9, PushesFlag
<1>11. QED
  BY <1>1, <1>10 DEF w

----------------------------------------------------------------------------
(* Frames that follow each other, in pieces of any size *)

LEMMA EmptyIs == <<>> \in Bits /\ Len(<<>>) = 0
  BY EmptySeq DEF Bits

\* A joined sequence grows as its second part does.
LEMMA JoinGrows ==
    ASSUME NEW a \in Bits, NEW q \in Bits, NEW x \in Framing!Bit
    PROVE  a \o <<>> = a /\ <<>> \o a = a /\ a \o Append(q, x) = Append(a \o q, x)
<1>1. a \in Seq(Framing!Bit) /\ q \in Seq(Framing!Bit) /\ <<x>> \in Seq(Framing!Bit)
  BY DEF Bits
<1>2. a \o <<>> = a /\ <<>> \o a = a
  BY <1>1, ConcatEmptySeq
<1>3. Append(q, x) = q \o <<x>> /\ Append(a \o q, x) = (a \o q) \o <<x>>
  <2>1. a \o q \in Seq(Framing!Bit)
    BY <1>1, ConcatProperties
  <2>2. QED
    BY <1>1, <2>1, AppendIsConcat
<1>4. (a \o q) \o <<x>> = a \o (q \o <<x>>)
  BY <1>1, ConcatAssociative
<1>5. QED
  BY <1>2, <1>3, <1>4

\* A decoder that was fed two pieces was fed the two as one.
LEMMA AisJoins ==
    ASSUME NEW d, NEW a \in Bits, NEW b \in Bits
    PROVE  AisEnd(d, a \o b) = AisEnd(AisEnd(d, a), b)
<1> DEFINE p(i) == SubSeq(b, 1, i)
           A == {i \in 0 .. Len(b) : AisEnd(d, a \o p(i)) = AisEnd(AisEnd(d, a), p(i))}
<1>1. b \in Seq(Framing!Bit) /\ Len(b) \in Nat
  BY LenProperties DEF Bits
<1>2. 0 \in A
  <2>1. p(0) = <<>>
    BY <1>1, PrefixGrows
  <2>2. a \o <<>> = a
    BY BitIs, JoinGrows
  <2>3. AisEnd(AisEnd(d, a), <<>>) = AisEnd(d, a)
    BY <1>1, BitIs, AisGrows
  <2>4. AisEnd(d, a \o p(0)) = AisEnd(AisEnd(d, a), p(0))
    BY <2>1, <2>2, <2>3, Zenon
  <2>5. QED
    BY <1>1, <2>4
<1>3. ASSUME NEW i \in 1 .. Len(b), i - 1 \in A PROVE i \in A
  <2> DEFINE q == p(i - 1)
             x == b[i]
  <2>1. q \in Bits /\ p(i) = Append(q, x) /\ x \in Framing!Bit
    BY <1>1, PrefixGrows DEF Bits
  <2>2. AisEnd(d, a \o q) = AisEnd(AisEnd(d, a), q)
    BY <1>3
  <2> HIDE DEF q, x, p
  <2>3. a \o Append(q, x) = Append(a \o q, x) /\ a \o q \in Bits
    <3>1. a \o Append(q, x) = Append(a \o q, x)
      BY <2>1, JoinGrows
    <3>2. a \o q \in Bits
      BY <2>1, EndsOf
    <3>3. QED
      BY <3>1, <3>2
  <2>4. /\ AisEnd(d, Append(a \o q, x)) = Framing!AisPushBit(AisEnd(d, a \o q), x)
        /\ AisEnd(AisEnd(d, a), Append(q, x)) = Framing!AisPushBit(AisEnd(AisEnd(d, a), q), x)
    <3>1. a \o q \in Seq(Framing!Bit) /\ q \in Seq(Framing!Bit)
      BY <2>1, <2>3 DEF Bits
    <3>2. AisEnd(d, Append(a \o q, x)) = Framing!AisPushBit(AisEnd(d, a \o q), x)
      <4> DEFINE c == a \o q
      <4>1. c \in Seq(Framing!Bit)
        BY <3>1
      <4> HIDE DEF c
      <4>2. AisEnd(d, Append(c, x)) = Framing!AisPushBit(AisEnd(d, c), x)
        BY <2>1, <4>1, AisGrows
      <4>3. QED
        BY <4>2 DEF c
    <3>3. AisEnd(AisEnd(d, a), Append(q, x)) = Framing!AisPushBit(AisEnd(AisEnd(d, a), q), x)
      BY <2>1, <3>1, AisGrows
    <3>4. QED
      BY <3>2, <3>3
  <2>5. AisEnd(d, a \o p(i)) = AisEnd(AisEnd(d, a), p(i))
    BY <2>1, <2>2, <2>3, <2>4, Zenon
  <2>6. QED
    BY <2>5
<1>4. Len(b) \in A
  <2> HIDE DEF A
  <2>1. 0 .. Len(b) \subseteq A
    BY <1>1, <1>2, <1>3, UpTo
  <2>2. QED
    BY <1>1, <2>1
<1>5. p(Len(b)) = b
  BY <1>1, PrefixGrows
<1> HIDE DEF p
<1>6. QED
  BY <1>4, <1>5

\* What may be sent: whole octets, and with its check sequence and a zero after
\* every five ones no longer than the decoder keeps without a flag.
Sendable == {p \in Bits : /\ Len(p) >= 8 /\ Len(p) % 8 = 0
                          /\ 6 * (Len(p) + 16) + 35 <= 5 * MaxFrameBits}

\* A decoder that listens from a flag on, or has heard nothing yet.
Ready(d) == d \in Decoder /\ d.bits = <<>>
With(d, payload) == [inFrame |-> TRUE, bits |-> <<>>, level |-> d.level, got |-> Append(d.got, payload)]

LEMMA FrameHeard ==
    ASSUME MaxFrameBits \in Nat, MaxFrameBits > 8, NEW d, Ready(d), NEW payload \in Sendable
    PROVE  /\ AisEnd(d, Framing!WireFrame(payload)) = With(d, payload)
           /\ Ready(With(d, payload)) /\ Framing!WireFrame(payload) \in Bits
<1> DEFINE crc == Framing!Crc16X25(payload)
           sent == payload \o crc
           body == Framing!Stuff(sent)
           f == Framing!Flag
           open == Heard(d, <<>>)
<1>1. /\ payload \in Bits /\ Len(payload) >= 8 /\ Len(payload) % 8 = 0
      /\ 6 * (Len(payload) + 16) + 35 <= 5 * MaxFrameBits
      /\ Len(payload) \in Nat
  BY LenProperties DEF Sendable, Bits
<1>2. crc \in Bits /\ Len(crc) = 16
  BY <1>1, CrcIs
<1>3. sent \in Bits /\ Len(sent) = Len(payload) + 16 /\ Len(sent) >= 24
  <2> HIDE DEF crc
  <2>1. payload \o crc \in Bits /\ Len(payload \o crc) = Len(payload) + Len(crc)
    BY <1>1, <1>2, EndsOf
  <2> HIDE DEF sent
  <2>2. sent = payload \o crc
    BY DEF sent
  <2>3. QED
    BY <1>1, <1>2, <2>1, <2>2
<1>4. Framing!AisFrame(body) = [valid |-> TRUE, payload |-> payload]
  BY <1>1, FrameReturns
<1> HIDE DEF crc, sent
<1>5. body \in Bits /\ NoSix(body) /\ 5 * Len(body) <= 6 * Len(sent) /\ Len(body) \in Nat
  <2>1. body \in Bits /\ NoSix(body) /\ 5 * Len(body) <= 6 * Len(sent)
    BY <1>3, StuffReturns
  <2>2. QED
    BY <2>1, LenProperties DEF Bits
<1>6. Len(body) + 7 <= MaxFrameBits
  BY <1>1, <1>3, <1>5
<1>7. body # <<>>
  <2>1. SUFFICES ASSUME body = <<>> PROVE FALSE
    OBVIOUS
  <2>2. Framing!AisUnstuff(<<>>).out = <<>>
    BY StuffStarts DEF Stuffed
  <2>3. Framing!AisUnstuff(body).out = sent
    BY <1>3, StuffReturns
  <2>4. Len(sent) = 0
    BY <2>1, <2>2, <2>3, EmptyIs
  <2>5. QED
    BY <1>3, <2>4
<1>8. Framing!WireFrame(payload) = f \o body \o f
  BY DEF Framing!WireFrame, body, sent, crc
<1>9. f \in Bits
  BY FlagIs DEF Bits
<1> HIDE DEF f, body
<1>10. AisEnd(d, f) = open /\ Ready(open) /\ open.inFrame /\ open.got = d.got /\ open.level = d.level
  <2>1. NoSix(<<>>)
    BY StuffStarts DEF Stuffed
  <2>2. <<>> \o f = f
    BY <1>9, BitIs, JoinGrows
  <2>3. AisEnd(d, <<>> \o f) = Heard(d, <<>>)
    <3>1. Len(<<>>) + 7 <= MaxFrameBits
      BY EmptyIs
    <3>2. d \in Decoder /\ d.bits = <<>>
      BY DEF Ready
    <3>3. AisEnd(d, <<>> \o Framing!Flag) = Heard(d, <<>>)
      BY <2>1, <3>1, <3>2, EmptyIs, BetweenFlags
    <3>4. QED
      BY <3>3 DEF f
  <2>4. open = [inFrame |-> TRUE, bits |-> <<>>, level |-> d.level, got |-> d.got]
    BY Zenon DEF Heard
  <2>5. d.level \in 0 .. 2 /\ d.got \in Seq(Bits)
    BY DEF Ready, Decoder
  <2> HIDE DEF open
  <2>6. open \in Decoder /\ open.bits = <<>>
    BY <2>4, <2>5, EmptyIs DEF Decoder
  <2>7. QED
    BY <2>2, <2>3, <2>4, <2>6 DEF Ready, open
<1> HIDE DEF open
<1>11. AisEnd(open, body \o f) = Heard(open, body)
  <2>1. open \in Decoder /\ open.bits = <<>>
    BY <1>10 DEF Ready
  <2>2. AisEnd(open, body \o Framing!Flag) = Heard(open, body)
    BY <1>5, <1>6, <2>1, BetweenFlags
  <2>3. QED
    BY <2>2 DEF f
<1>12. Heard(open, body) = With(d, payload)
  <2> DEFINE frame == Framing!AisFrame(body)
  <2>1. frame.valid /\ frame.payload = payload
    BY <1>4
  <2> HIDE DEF frame
  <2>2. (IF open.inFrame /\ body # <<>> /\ frame.valid
           THEN Append(open.got, frame.payload) ELSE open.got) = Append(d.got, payload)
    BY <1>7, <1>10, <2>1, Zenon
  <2>3. QED
    BY <1>10, <2>2, Zenon DEF Heard, With, frame
<1>13. (f \o body) \o f = f \o (body \o f) /\ f \o body \in Bits /\ body \o f \in Bits
       /\ (f \o body) \o f \in Bits
  <2>1. f \in Seq(Framing!Bit) /\ body \in Seq(Framing!Bit)
    BY <1>5, <1>9 DEF Bits
  <2>2. (f \o body) \o f = f \o (body \o f)
    BY <2>1, ConcatAssociative
  <2>3. f \o body \in Bits /\ body \o f \in Bits
    BY <1>5, <1>9, EndsOf
  <2>4. (f \o body) \o f \in Bits
    BY <1>9, <2>3, EndsOf
  <2>5. QED
    BY <2>2, <2>3, <2>4
<1>14. AisEnd(d, f \o (body \o f)) = AisEnd(AisEnd(d, f), body \o f)
  BY <1>9, <1>13, AisJoins
<1>15. AisEnd(d, Framing!WireFrame(payload)) = With(d, payload)
  BY <1>8, <1>10, <1>11, <1>12, <1>13, <1>14, Zenon
<1>16. Ready(With(d, payload))
  <2>1. d.level \in 0 .. 2 /\ d.got \in Seq(Bits)
    BY DEF Ready, Decoder
  <2>2. Append(d.got, payload) \in Seq(Bits)
    BY <1>1, <2>1, AppendProperties
  <2>3. With(d, payload) \in Decoder /\ With(d, payload).bits = <<>>
    BY <2>1, <2>2, EmptyIs DEF Decoder, With
  <2>4. QED
    BY <2>3 DEF Ready
<1>17. QED
  BY <1>8, <1>13, <1>15, <1>16

\* The bits on the air up to the end of each frame.
OnAir(joined, payloads) ==
    joined[0] = <<>> /\ \A i \in 1 .. Len(payloads) : joined[i] = joined[i - 1] \o Framing!WireFrame(payloads[i])

LEMMA BitsHeard ==
    ASSUME MaxFrameBits \in Nat, MaxFrameBits > 8, NEW payloads \in Seq(Sendable), NEW joined, OnAir(joined, payloads)
    PROVE  /\ joined[Len(payloads)] \in Bits /\ AisEnd(Framing!NewAis, joined[Len(payloads)]).got = payloads
<1> DEFINE new == Framing!NewAis
           p(i) == SubSeq(payloads, 1, i)
           carried(i) == /\ joined[i] \in Bits
                         /\ Ready(AisEnd(new, joined[i])) /\ AisEnd(new, joined[i]).got = p(i)
           A == {i \in 0 .. Len(payloads) : carried(i)}
<1>2. Len(payloads) \in Nat /\ <<>> \in Seq(Sendable)
  BY LenProperties
<1>3. 0 \in A
  <2>1. joined[0] = <<>> /\ p(0) = <<>>
    BY <1>2, PrefixGrows DEF OnAir
  <2>2. AisEnd(new, <<>>) = new
    BY EmptyIs, BitIs, AisGrows DEF Bits
  <2>3. Ready(new) /\ new.got = <<>>
    BY EmptyIs DEF Framing!NewAis, Ready, Decoder
  <2>4. carried(0)
    BY <2>1, <2>2, <2>3, EmptyIs, Zenon
  <2>5. QED
    BY <1>2, <2>4
<1>4. ASSUME NEW i \in 1 .. Len(payloads), i - 1 \in A PROVE i \in A
  <2> DEFINE d == AisEnd(new, joined[i - 1])
             wire == Framing!WireFrame(payloads[i])
  <2>1. joined[i - 1] \in Bits /\ Ready(d) /\ d.got = p(i - 1)
    BY <1>4
  <2>2. payloads[i] \in Sendable /\ p(i) = Append(p(i - 1), payloads[i])
    BY PrefixGrows
  <2>3. AisEnd(d, wire) = With(d, payloads[i]) /\ Ready(With(d, payloads[i])) /\ wire \in Bits
    BY <2>1, <2>2, FrameHeard
  <2>4. joined[i] = joined[i - 1] \o wire
    BY DEF OnAir
  <2> HIDE DEF wire, p
  <2>5. joined[i] \in Bits /\ AisEnd(new, joined[i]) = AisEnd(d, wire)
    <3>1. joined[i - 1] \o wire \in Bits
      BY <2>1, <2>3, ConcatProperties DEF Bits
    <3>2. AisEnd(new, joined[i - 1] \o wire) = AisEnd(d, wire)
      BY <2>1, <2>3, AisJoins
    <3>3. QED
      BY <2>4, <3>1, <3>2
  <2> HIDE DEF d
  <2>6. AisEnd(new, joined[i]).got = Append(p(i - 1), payloads[i])
    <3>1. With(d, payloads[i]).got = Append(d.got, payloads[i])
      BY DEF With
    <3>2. QED
      BY <2>1, <2>3, <2>5, <3>1
  <2>7. carried(i)
    BY <2>2, <2>3, <2>5, <2>6, Zenon
  <2> HIDE DEF carried
  <2>8. QED
    BY <2>7
<1>5. Len(payloads) \in A
  <2> HIDE DEF A
  <2>1. 0 .. Len(payloads) \subseteq A
    BY <1>2, <1>3, <1>4, UpTo
  <2>2. QED
    BY <1>2, <2>1
<1>6. p(Len(payloads)) = payloads
  BY PrefixGrows
<1> HIDE DEF p
<1>7. QED
  BY <1>5, <1>6

----------------------------------------------------------------------------
(* Line levels *)

\* A decoder fed with two pieces of levels was fed the two as one.
LEMMA NrziJoins ==
    ASSUME NEW d, NEW a \in Bits, NEW b \in Bits
    PROVE  NrziEnd(d, a \o b) = NrziEnd(NrziEnd(d, a), b)
<1> DEFINE p(i) == SubSeq(b, 1, i)
           A == {i \in 0 .. Len(b) : NrziEnd(d, a \o p(i)) = NrziEnd(NrziEnd(d, a), p(i))}
<1>1. b \in Seq(Framing!Bit) /\ Len(b) \in Nat
  BY LenProperties DEF Bits
<1>2. 0 \in A
  <2>1. p(0) = <<>>
    BY <1>1, PrefixGrows
  <2>2. a \o <<>> = a
    BY BitIs, JoinGrows
  <2>3. NrziEnd(NrziEnd(d, a), <<>>) = NrziEnd(d, a)
    BY <1>1, BitIs, NrziGrows
  <2>4. NrziEnd(d, a \o p(0)) = NrziEnd(NrziEnd(d, a), p(0))
    BY <2>1, <2>2, <2>3, Zenon
  <2>5. QED
    BY <1>1, <2>4
<1>3. ASSUME NEW i \in 1 .. Len(b), i - 1 \in A PROVE i \in A
  <2> DEFINE q == p(i - 1)
             x == b[i]
  <2>1. q \in Bits /\ p(i) = Append(q, x) /\ x \in Framing!Bit
    BY <1>1, PrefixGrows DEF Bits
  <2>2. NrziEnd(d, a \o q) = NrziEnd(NrziEnd(d, a), q)
    BY <1>3
  <2> HIDE DEF q, x, p
  <2>3. a \o Append(q, x) = Append(a \o q, x) /\ a \o q \in Bits
    <3>1. a \o Append(q, x) = Append(a \o q, x)
      BY <2>1, JoinGrows
    <3>2. a \o q \in Bits
      BY <2>1, EndsOf
    <3>3. QED
      BY <3>1, <3>2
  <2>4. /\ NrziEnd(d, Append(a \o q, x)) = Framing!NrziPush(NrziEnd(d, a \o q), x)
        /\ NrziEnd(NrziEnd(d, a), Append(q, x)) = Framing!NrziPush(NrziEnd(NrziEnd(d, a), q), x)
    <3>1. a \o q \in Seq(Framing!Bit) /\ q \in Seq(Framing!Bit)
      BY <2>1, <2>3 DEF Bits
    <3>2. NrziEnd(d, Append(a \o q, x)) = Framing!NrziPush(NrziEnd(d, a \o q), x)
      <4> DEFINE c == a \o q
      <4>1. c \in Seq(Framing!Bit)
        BY <3>1
      <4> HIDE DEF c
      <4>2. NrziEnd(d, Append(c, x)) = Framing!NrziPush(NrziEnd(d, c), x)
        BY <2>1, <4>1, NrziGrows
      <4>3. QED
        BY <4>2 DEF c
    <3>3. NrziEnd(NrziEnd(d, a), Append(q, x)) = Framing!NrziPush(NrziEnd(NrziEnd(d, a), q), x)
      BY <2>1, <3>1, NrziGrows
    <3>4. QED
      BY <3>2, <3>3
  <2>5. NrziEnd(d, a \o p(i)) = NrziEnd(NrziEnd(d, a), p(i))
    BY <2>1, <2>2, <2>3, <2>4, Zenon
  <2>6. QED
    BY <2>5
<1>4. Len(b) \in A
  <2> HIDE DEF A
  <2>1. 0 .. Len(b) \subseteq A
    BY <1>1, <1>2, <1>3, UpTo
  <2>2. QED
    BY <1>1, <2>1
<1>5. p(Len(b)) = b
  BY <1>1, PrefixGrows
<1> HIDE DEF p
<1>6. QED
  BY <1>4, <1>5


AtLevel(d, l) == [inFrame |-> d.inFrame, bits |-> d.bits, level |-> l, got |-> d.got]

DecoderOf(a, b, k, g) == [inFrame |-> a, bits |-> b, level |-> k, got |-> g]

LEMMA AtLevelHas ==
    ASSUME NEW d, NEW k, NEW l
    PROVE  /\ AtLevel(d, k).level = k /\ AtLevel(d, k).got = d.got
           /\ [AtLevel(d, k) EXCEPT !.level = l] = AtLevel(d, l)
<1>1. AtLevel(d, k).level = k /\ AtLevel(d, k).got = d.got
  BY DEF AtLevel
<1>2. [AtLevel(d, k) EXCEPT !.level = l] = AtLevel(d, l)
  BY DEF AtLevel
<1>3. QED
  BY <1>1, <1>2

LEMMA AtLevelOf ==
    ASSUME NEW a, NEW b, NEW g, NEW k, NEW l
    PROVE  AtLevel(DecoderOf(a, b, k, g), l) = DecoderOf(a, b, l, g)
  BY DEF AtLevel, DecoderOf

\* What the deframer makes of a bit does not depend on the level of the line.
LEMMA LevelKeeps ==
    ASSUME NEW d, NEW k, NEW l, NEW x
    PROVE  Framing!AisPushBit(AtLevel(d, l), x) = AtLevel(Framing!AisPushBit(AtLevel(d, k), x), l)
<1> DEFINE bits == Append(d.bits, x)
           body == Framing!WithoutLast(bits, 8)
           frame == Framing!AisFrame(body)
           out == IF d.inFrame /\ body # <<>> /\ frame.valid THEN Append(d.got, frame.payload) ELSE d.got
<1>1. CASE Framing!EndsInFlag(bits)
  <2>1. \A m : Framing!AisPushBit(AtLevel(d, m), x) =
                 DecoderOf(TRUE, <<>>, m, out)
    BY <1>1, Zenon DEF Framing!AisPushBit, AtLevel, DecoderOf
  <2> HIDE DEF out
  <2>2. AtLevel(DecoderOf(TRUE, <<>>, k, out), l) = DecoderOf(TRUE, <<>>, l, out)
    BY AtLevelOf, Zenon
  <2>3. QED
    BY <2>1, <2>2, Zenon
<1>2. CASE ~Framing!EndsInFlag(bits) /\ Len(bits) > MaxFrameBits
  <2>1. \A m : Framing!AisPushBit(AtLevel(d, m), x) =
                 DecoderOf(FALSE, <<>>, m, d.got)
    BY <1>2, Zenon DEF Framing!AisPushBit, AtLevel, DecoderOf
  <2>2. AtLevel(DecoderOf(FALSE, <<>>, k, d.got), l) = DecoderOf(FALSE, <<>>, l, d.got)
    BY AtLevelOf, Zenon
  <2>3. QED
    BY <2>1, <2>2, Zenon
<1>3. CASE ~Framing!EndsInFlag(bits) /\ ~(Len(bits) > MaxFrameBits)
  <2>1. \A m : Framing!AisPushBit(AtLevel(d, m), x) =
                 DecoderOf(d.inFrame, bits, m, d.got)
    BY <1>3, Zenon DEF Framing!AisPushBit, AtLevel, DecoderOf
  <2> HIDE DEF bits
  <2>2. AtLevel(DecoderOf(d.inFrame, bits, k, d.got), l) = DecoderOf(d.inFrame, bits, l, d.got)
    BY AtLevelOf, Zenon
  <2>3. QED
    BY <2>1, <2>2, Zenon
<1>4. QED
  BY <1>1, <1>2, <1>3

\* What the framing counts is the cardinality.
LEMMA CountIs == \A S : Framing!Cardinality(S) = Cardinality(S)
  BY Zenon DEF Framing!Cardinality, Cardinality

\* From one level to the next: the same for a one, the other for a zero.
LEMMA LevelsAre ==
    ASSUME NEW w \in Bits, NEW initial \in Framing!Bit
    PROVE  LET levels == Framing!NrziLevels(w, initial)
           IN  /\ levels \in Bits /\ Len(levels) = Len(w) + 1 /\ Len(w) \in Nat
               /\ \A i \in 1 .. Len(w) : w[i] = IF levels[i + 1] = levels[i] THEN 1 ELSE 0
<1> DEFINE Zeros(i) == {j \in 1 .. i - 1 : w[j] = 0}
           levels == Framing!NrziLevels(w, initial)
           n == Len(w)
<1>1. n \in Nat /\ \A i \in 1 .. n : w[i] \in Framing!Bit
  BY LenProperties, ElementOfSeq DEF Bits
<1>2. levels = [i \in 1 .. n + 1 |-> (initial + Cardinality(Zeros(i))) % 2]
  BY CountIs DEF Framing!NrziLevels
<1> HIDE DEF levels, n
<1>3. ASSUME NEW i \in 1 .. n + 1 PROVE IsFiniteSet(Zeros(i)) /\ Cardinality(Zeros(i)) \in Nat
  <2>1. IsFiniteSet(1 .. i - 1)
    BY <1>1, FS_Interval
  <2>2. IsFiniteSet(Zeros(i))
    BY <2>1, FS_Subset
  <2>3. QED
    BY <2>2, FS_CardinalityType
<1>4. ASSUME NEW i \in 1 .. n
      PROVE  Cardinality(Zeros(i + 1)) = Cardinality(Zeros(i)) + IF w[i] = 0 THEN 1 ELSE 0
  <2>1. i \in 1 .. n + 1 /\ i \notin Zeros(i) /\ i + 1 - 1 = i
    BY <1>1
  <2>2. Zeros(i + 1) = IF w[i] = 0 THEN Zeros(i) \cup {i} ELSE Zeros(i)
    BY <1>1
  <2>3. IsFiniteSet(Zeros(i)) /\ Cardinality(Zeros(i)) \in Nat
    BY <1>3, <2>1
  <2> HIDE DEF Zeros
  <2>4. Cardinality(Zeros(i) \cup {i}) = Cardinality(Zeros(i)) + 1
    BY <2>1, <2>3, FS_AddElement
  <2>5. QED
    BY <2>2, <2>3, <2>4
<1> DEFINE count(i) == Cardinality(Zeros(i))
<1>5. \A i \in 1 .. n + 1 : count(i) \in Nat
  BY <1>3
<1>6. \A i \in 1 .. n : count(i + 1) = count(i) + IF w[i] = 0 THEN 1 ELSE 0
  BY <1>4
<1>7. levels = [i \in 1 .. n + 1 |-> (initial + count(i)) % 2]
  BY <1>2
<1> HIDE DEF count
<1>8. initial \in {0, 1}
  BY BitIs
<1>9. \A i \in 1 .. n + 1 : levels[i] = (initial + count(i)) % 2 /\ levels[i] \in Framing!Bit
  BY <1>5, <1>7, <1>8, BitIs
<1>10. levels \in [1 .. n + 1 -> Framing!Bit]
  BY <1>7, <1>9
<1>11. levels \in Bits /\ Len(levels) = n + 1
  <2>1. n + 1 \in Nat
    BY <1>1
  <2>2. levels \in Seq(Framing!Bit)
    BY <1>10, <2>1, SeqDef
  <2>3. QED
    BY <1>10, <2>1, <2>2, LenProperties DEF Bits
<1>12. ASSUME NEW i \in 1 .. n PROVE w[i] = IF levels[i + 1] = levels[i] THEN 1 ELSE 0
  <2>1. i \in 1 .. n + 1 /\ i + 1 \in 1 .. n + 1
    BY <1>1
  <2>2. w[i] = 0 \/ w[i] = 1
    BY <1>1, BitIs
  <2> DEFINE c == count(i)
             e == count(i + 1)
             was == levels[i]
             is == levels[i + 1]
  <2>3. /\ c \in Nat /\ e = c + (IF w[i] = 0 THEN 1 ELSE 0)
        /\ was = (initial + c) % 2 /\ is = (initial + e) % 2
    BY <1>5, <1>6, <1>9, <2>1
  <2> HIDE DEF c, e, was, is
  <2>4. CASE w[i] = 1
    BY <1>8, <2>3, <2>4 DEF was, is
  <2>5. CASE w[i] = 0
    <3>1. (initial + (c + 1)) % 2 # (initial + c) % 2
      BY <1>8, <2>3
    <3>2. QED
      BY <2>3, <2>5, <3>1 DEF was, is
  <2>6. QED
    BY <2>2, <2>4, <2>5
<1>13. QED
  BY <1>1, <1>11, <1>12 DEF n, levels

\* The levels of a stream of bits do to a decoder what the bits do.
LEMMA LevelsHeard ==
    ASSUME NEW w \in Bits, NEW initial \in Framing!Bit
    PROVE  LET levels == Framing!NrziLevels(w, initial)
           IN  NrziEnd(Framing!NewAis, levels) = AtLevel(AisEnd(Framing!NewAis, w), levels[Len(levels)])
<1> DEFINE levels == Framing!NrziLevels(w, initial)
           n == Len(w)
           new == Framing!NewAis
           same(i) == /\ NrziEnd(new, SubSeq(levels, 1, i + 1))
                           = AtLevel(AisEnd(new, SubSeq(w, 1, i)), levels[i + 1])
                      /\ AisEnd(new, SubSeq(w, 1, i)) = AtLevel(AisEnd(new, SubSeq(w, 1, i)), 2)
           A == {i \in 0 .. n : same(i)}
<1>1. /\ levels \in Seq(Framing!Bit) /\ Len(levels) = n + 1 /\ n \in Nat
      /\ \A i \in 1 .. n : w[i] = IF levels[i + 1] = levels[i] THEN 1 ELSE 0
      /\ w \in Seq(Framing!Bit)
  BY LevelsAre DEF Bits
<1> HIDE DEF levels
<1>2. \A i \in 1 .. n + 1 : levels[i] \in Framing!Bit
  BY <1>1, ElementOfSeq
<1>3. 0 \in A
  <2> DEFINE first == levels[1]
  <2>1. 1 \in 1 .. Len(levels) /\ first \in Framing!Bit
    BY <1>1, <1>2
  <2>2. SubSeq(levels, 1, 1) = Append(<<>>, first)
    <3>1. SubSeq(levels, 1, 1) = Append(SubSeq(levels, 1, 1 - 1), levels[1])
      BY <1>1, <2>1, PrefixGrows
    <3>2. SubSeq(levels, 1, 0) = <<>>
      BY <1>1, PrefixGrows
    <3>3. 1 - 1 = 0
      OBVIOUS
    <3>4. QED
      BY <3>1, <3>2, <3>3
  <2>3. NrziEnd(new, Append(<<>>, first)) = Framing!NrziPush(new, first)
    <3>1. <<>> \in Seq(Framing!Bit)
      BY EmptyIs DEF Bits
    <3> DEFINE none == <<>>
    <3>2. none \in Seq(Framing!Bit)
      BY <3>1
    <3>3. none = <<>>
      OBVIOUS
    <3> HIDE DEF new, first, none
    <3>4. NrziEnd(new, Append(none, first)) = Framing!NrziPush(NrziEnd(new, none), first)
      BY <2>1, <3>2, NrziGrows
    <3>5. NrziEnd(new, <<>>) = new
      BY <2>1, <3>1, NrziGrows
    <3>6. QED
      BY <3>3, <3>4, <3>5, Zenon
  <2>4. Framing!NrziPush(new, first) = AtLevel(new, first) /\ new = AtLevel(new, 2)
    BY Zenon DEF Framing!NrziPush, Framing!NewAis, AtLevel
  <2>5. AisEnd(new, SubSeq(w, 1, 0)) = new
    <3>1. SubSeq(w, 1, 0) = <<>> /\ <<>> \in Seq(Framing!Bit)
      BY <1>1, PrefixGrows
    <3>2. AisEnd(new, <<>>) = new
      BY <2>1, <3>1, AisGrows
    <3>3. QED
      BY <3>1, <3>2
  <2> HIDE DEF new
  <2>6. same(0)
    <3>1. 0 + 1 = 1
      OBVIOUS
    <3>2. QED
      BY <2>2, <2>3, <2>4, <2>5, <3>1, Zenon
  <2> HIDE DEF same
  <2>7. QED
    BY <1>1, <2>6
<1>4. ASSUME NEW i \in 1 .. n, i - 1 \in A PROVE i \in A
  <2> DEFINE p == SubSeq(w, 1, i - 1)
             q == SubSeq(levels, 1, i)
             d == AisEnd(new, p)
             x == w[i]
             was == levels[i]
             is == levels[i + 1]
  <2>1. /\ p \in Seq(Framing!Bit) /\ SubSeq(w, 1, i) = Append(p, x) /\ x \in Framing!Bit
    BY <1>1, PrefixGrows
  <2>2. /\ q \in Seq(Framing!Bit) /\ SubSeq(levels, 1, i + 1) = Append(q, is)
        /\ is \in Framing!Bit /\ was \in Framing!Bit
    <3>1. i + 1 \in 1 .. Len(levels) /\ i + 1 - 1 = i /\ i \in 1 .. n + 1 /\ i + 1 \in 1 .. n + 1
      BY <1>1
    <3>2. /\ SubSeq(levels, 1, i + 1 - 1) \in Seq(Framing!Bit)
          /\ SubSeq(levels, 1, i + 1) = Append(SubSeq(levels, 1, i + 1 - 1), levels[i + 1])
      BY <1>1, <3>1, PrefixGrows
    <3>3. QED
      BY <1>2, <3>1, <3>2
  <2>3. NrziEnd(new, q) = AtLevel(d, was) /\ d = AtLevel(d, 2)
    <3>1. same(i - 1)
      BY <1>4
    <3>2. i - 1 + 1 = i
      OBVIOUS
    <3>3. QED
      BY <3>1, <3>2
  <2>4. x = IF is = was THEN 1 ELSE 0
    BY <1>1
  <2> HIDE DEF p, q, d, x, was, is, new
  <2>5. AisEnd(new, Append(p, x)) = Framing!AisPushBit(d, x)
    BY <2>1, AisGrows DEF d
  <2>6. NrziEnd(new, Append(q, is)) = Framing!NrziPush(NrziEnd(new, q), is)
    BY <2>2, NrziGrows
  <2>7. Framing!NrziPush(AtLevel(d, was), is) = Framing!AisPushBit(AtLevel(d, is), x)
    <3>1. was # 2
      BY <2>2, BitIs
    <3>2. AtLevel(d, was).level = was /\ [AtLevel(d, was) EXCEPT !.level = is] = AtLevel(d, is)
      BY AtLevelHas
    <3>3. QED
      BY <2>4, <3>1, <3>2, Zenon DEF Framing!NrziPush
  <2>8. Framing!AisPushBit(AtLevel(d, is), x) = AtLevel(Framing!AisPushBit(AtLevel(d, 2), x), is)
    BY LevelKeeps
  <2>9. Framing!AisPushBit(AtLevel(d, 2), x) = AtLevel(Framing!AisPushBit(AtLevel(d, 2), x), 2)
    BY LevelKeeps
  <2>10. same(i)
    <3> DEFINE after == Framing!AisPushBit(d, x)
    <3>1. AisEnd(new, SubSeq(w, 1, i)) = after /\ after = AtLevel(after, 2)
      BY <2>1, <2>3, <2>5, <2>9, Zenon
    <3>2. NrziEnd(new, SubSeq(levels, 1, i + 1)) = AtLevel(after, is)
      BY <2>2, <2>3, <2>6, <2>7, <2>8, Zenon
    <3> HIDE DEF after
    <3>3. QED
      BY <3>1, <3>2, Zenon DEF is
  <2> HIDE DEF same
  <2>11. QED
    BY <2>10
<1>5. n \in A
  <2> HIDE DEF A
  <2>1. 0 .. n \subseteq A
    BY <1>1, <1>3, <1>4, UpTo
  <2>2. QED
    BY <1>1, <2>1
<1>6. SubSeq(levels, 1, n + 1) = levels /\ SubSeq(w, 1, n) = w
  BY <1>1, PrefixGrows
<1>7. same(n)
  BY <1>5
<1>8. NrziEnd(new, levels) = AtLevel(AisEnd(new, w), levels[Len(levels)])
  BY <1>1, <1>6, <1>7
<1>9. QED
  BY <1>8 DEF levels

\* A stream that arrives in pieces, and the decoder after each of them.
Cut(cut, pieces, stream) ==
    /\ cut[0] = <<>> /\ cut[Len(pieces)] = stream
    /\ \A i \in 1 .. Len(pieces) : cut[i] = cut[i - 1] \o pieces[i]
FedWith(decoder, pieces) ==
    /\ decoder[0] = Framing!NewAis
    /\ \A i \in 1 .. Len(pieces) : decoder[i] = Framing!After(Framing!NrziPush, decoder[i - 1], pieces[i])

\* Of any frames that are sent one after the other the AIS decoder hands out each,
\* in order, once and unchanged, and nothing else, whatever flags, runs of ones and
\* check sequences they hold, whatever level the line had at first and wherever the
\* pieces end in which the levels arrive (ais.rs, push_bit and decode_hdlc_frame;
\* scanner.rs, NativeRangeDecoders::feed).
THEOREM AisFramesHeard ==
    ASSUME Framing!FramingAssumption, NEW payloads \in Seq(Sendable), NEW joined, OnAir(joined, payloads),
           NEW initial \in Framing!Bit, NEW pieces \in Seq(Bits), NEW cut, NEW decoder,
           Cut(cut, pieces, Framing!NrziLevels(joined[Len(payloads)], initial)), FedWith(decoder, pieces)
    PROVE  decoder[Len(pieces)].got = payloads
<1> DEFINE new == Framing!NewAis
           w == joined[Len(payloads)]
           fed(i) == cut[i] \in Bits /\ decoder[i] = NrziEnd(new, cut[i])
           A == {i \in 0 .. Len(pieces) : fed(i)}
<1>1. w \in Bits /\ AisEnd(new, w).got = payloads
  BY BitsHeard DEF Framing!FramingAssumption
<1>2. Len(pieces) \in Nat
  BY LenProperties
<1>3. 0 \in A
  <2>1. NrziEnd(new, <<>>) = new
    BY EmptyIs, BitIs, NrziGrows DEF Bits
  <2>2. fed(0)
    BY <2>1, EmptyIs DEF Cut, FedWith
  <2> HIDE DEF fed
  <2>3. QED
    BY <1>2, <2>2
<1>4. ASSUME NEW i \in 1 .. Len(pieces), i - 1 \in A PROVE i \in A
  <2>1. cut[i - 1] \in Bits /\ decoder[i - 1] = NrziEnd(new, cut[i - 1])
    BY <1>4
  <2>2. pieces[i] \in Bits /\ cut[i] = cut[i - 1] \o pieces[i]
    BY ElementOfSeq DEF Cut
  <2>3. decoder[i] = NrziEnd(decoder[i - 1], pieces[i])
    BY Zenon DEF FedWith, NrziEnd
  <2>4. cut[i] \in Bits
    BY <2>1, <2>2, EndsOf
  <2>5. NrziEnd(new, cut[i - 1] \o pieces[i]) = NrziEnd(NrziEnd(new, cut[i - 1]), pieces[i])
    BY <2>1, <2>2, NrziJoins
  <2>6. fed(i)
    BY <2>1, <2>2, <2>3, <2>4, <2>5, Zenon
  <2> HIDE DEF fed
  <2>7. QED
    BY <2>6
<1>5. Len(pieces) \in A
  <2> HIDE DEF A
  <2>1. 0 .. Len(pieces) \subseteq A
    BY <1>2, <1>3, <1>4, UpTo
  <2>2. QED
    BY <1>2, <2>1
<1> DEFINE levels == Framing!NrziLevels(w, initial)
<1>6. decoder[Len(pieces)] = NrziEnd(new, levels)
  BY <1>5 DEF Cut
<1>7. NrziEnd(new, levels) = AtLevel(AisEnd(new, w), levels[Len(levels)])
  BY <1>1, LevelsHeard
<1> HIDE DEF levels, w
<1>8. \A d, l : AtLevel(d, l).got = d.got
  BY AtLevelHas
<1>9. QED
  BY <1>1, <1>6, <1>7, <1>8, Zenon
=============================================================================
