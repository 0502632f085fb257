-------------------------- MODULE ScanWalk_proofs --------------------------
(***************************************************************************)
(* The walk of the capture window, for every bank and every window width:  *)
(* it stays inside the bank and it leaves no gap, a pan stays inside the   *)
(* bank and a peak becomes a hit on the nearest channel.                   *)
(***************************************************************************)
EXTENDS ScanWalk, TLAPS

\* What the walk keeps: a bank and a width as the initial states have them, a
\* center that is either the first one or a window inside the bank, and every
\* frequency up to the upper edge of the present window already looked at.
WalkInv ==
    /\ bank.start \in Nat /\ bank.end \in Nat /\ bank.start <= bank.end
    /\ usable \in Nat \ {0}
    /\ center \in Nat
    /\ WalkStaysInBank
    /\ \A f \in bank.start .. bank.end : f <= center + usable \div 2 => f \in covered

\* Half of a width is at most the width and misses it by one half at most.
LEMMA Halved ==
    ASSUME NEW n \in Nat
    PROVE  /\ n \div 2 \in Nat
           /\ n - n \div 2 <= n \div 2 + 1
           /\ n \div 2 <= n
           /\ n > 0 => n \div 2 < n
  OBVIOUS

\* Where a walk begins, and begins again.
LEMMA FirstCenter ==
    ASSUME bank.start \in Nat, bank.end \in Nat, bank.start <= bank.end, usable \in Nat
    PROVE  /\ InitialScanCenter(bank, usable) \in bank.start .. bank.end
           /\ InitialScanCenter(bank, usable) <= bank.start + usable \div 2
  BY Halved DEF InitialScanCenter, AtMost

\* A window whose lower edge is at most one above a frequency already covered
\* extends what is covered to its own upper edge.
LEMMA WindowExtends ==
    ASSUME bank.start \in Nat, bank.end \in Nat, usable \in Nat,
           NEW c \in Nat, NEW f \in bank.start .. bank.end,
           f <= c + usable \div 2, f + usable \div 2 >= c
    PROVE  f \in Window(c)
  <1>1. f \in Nat
    OBVIOUS
  <1>2. Distance(f, c) <= usable \div 2
    BY <1>1, Halved DEF Distance
  <1> QED
    BY <1>2 DEF Window

\* The two steps a walk can take, from NextScanStep without a cycle.
LEMMA WalkCases ==
    ASSUME WalkInv, Step.kind = "retune"
    PROVE  \/ /\ Step.center = InitialScanCenter(bank, usable)
              /\ center + usable + usable \div 2 > bank.end
           \/ /\ Step.center = center + usable
              /\ center + usable + usable \div 2 <= bank.end
  <1>1. NextCycleBank(bank.name, <<>>) = NoBank
    <2>1. Len(<<>>) = 0
      OBVIOUS
    <2> QED
      BY <2>1 DEF NextCycleBank
  <1> DEFINE narrow == Monus(bank.end, bank.start) <= usable
             wraps  == SearchWindowWraps(bank, center, usable)
  <1>2. CASE ~ (narrow \/ wraps)
    <2>1. Step = RetuneTo(NextCenter(center, usable))
      BY <1>1, <1>2 DEF Step, NextScanStep
    <2> QED
      BY <2>1, <1>2, Halved DEF RetuneTo, NextCenter, SearchWindowWraps, WalkInv
  <1>3. CASE wraps /\ ~ narrow
    <2>1. Step = RetuneTo(InitialScanCenter(bank, usable))
      BY <1>1, <1>3 DEF Step, NextScanStep
    <2> QED
      BY <2>1, <1>3 DEF RetuneTo, SearchWindowWraps
  <1>4. CASE narrow
    <2>1. Step = StayHere
      BY <1>1, <1>4 DEF Step, NextScanStep
    <2> QED
      BY <2>1 DEF StayHere
  <1> QED
    BY <1>2, <1>3, <1>4

LEMMA WalkInit == Init => WalkInv
  <1> SUFFICES ASSUME Init PROVE WalkInv
    OBVIOUS
  <1>1. /\ bank.start \in Nat /\ bank.end \in Nat /\ bank.start <= bank.end
        /\ usable \in Nat \ {0}
    BY WalkAssumption DEF Init, Banks
  <1>2. /\ center \in bank.start .. bank.end
        /\ center <= bank.start + usable \div 2
    BY <1>1, FirstCenter DEF Init
  <1>3. center = InitialScanCenter(bank, usable) /\ covered = Window(center)
    BY DEF Init
  <1>4. ASSUME NEW f \in bank.start .. bank.end, f <= center + usable \div 2
        PROVE  f \in covered
    BY <1>1, <1>2, <1>3, <1>4, WindowExtends, Halved
  <1> QED
    BY <1>1, <1>2, <1>3, <1>4 DEF WalkInv, WalkStaysInBank

LEMMA WalkStep == WalkInv /\ [Walk]_vars => WalkInv'
  <1> SUFFICES ASSUME WalkInv, [Walk]_vars PROVE WalkInv'
    OBVIOUS
  <1>0. CASE UNCHANGED vars
    BY <1>0 DEF WalkInv, WalkStaysInBank, InitialScanCenter, vars
  <1>1. CASE Walk
    <2>1. /\ bank' = bank /\ usable' = usable /\ center' = Step.center
          /\ Step.kind = "retune"
          /\ covered' = Window(center') \cup IF center' <= center THEN {} ELSE covered
      BY <1>1 DEF Walk
    <2>2. /\ bank.start \in Nat /\ bank.end \in Nat /\ bank.start <= bank.end
          /\ usable \in Nat \ {0} /\ center \in Nat
          /\ bank.start <= center /\ usable \div 2 \in Nat
      BY Halved DEF WalkInv, WalkStaysInBank
    <2>3. CASE /\ center' = InitialScanCenter(bank, usable)
               /\ center + usable + usable \div 2 > bank.end
      <3>1. /\ center' \in bank.start .. bank.end
            /\ center' <= bank.start + usable \div 2
        BY <2>2, <2>3, FirstCenter
      <3>2. ASSUME NEW f \in bank.start .. bank.end, f <= center' + usable \div 2
            PROVE  f \in Window(center')
        <4>1. center' \in Nat /\ f + usable \div 2 >= center'
          BY <2>2, <3>1
        <4> QED
          BY <2>2, <3>2, <4>1, WindowExtends
      <3> QED
        BY <2>1, <2>2, <2>3, <3>1, <3>2
        DEF WalkInv, WalkStaysInBank, InitialScanCenter
    <2>4. CASE /\ center' = center + usable
               /\ center + usable + usable \div 2 <= bank.end
      <3>1. center' \in Nat /\ center' > center /\ usable - usable \div 2 <= usable \div 2 + 1
        BY <2>2, <2>4, Halved
      <3>2. ASSUME NEW f \in bank.start .. bank.end, f <= center' + usable \div 2
            PROVE  f \in covered'
        <4>1. CASE f <= center + usable \div 2
          BY <4>1, <2>1, <2>2, <3>1 DEF WalkInv
        <4>2. CASE f > center + usable \div 2
          BY <4>2, <2>1, <2>2, <2>4, <3>1, <3>2, WindowExtends
        <4> QED
          BY <4>1, <4>2, <2>2
      <3>3. /\ bank.start + usable \div 2 <= center' /\ center' + usable \div 2 <= bank.end
            /\ bank.start <= center' /\ center' <= bank.end
        BY <2>2, <2>4, Halved
      <3> QED
        BY <2>1, <2>2, <3>1, <3>2, <3>3 DEF WalkInv, WalkStaysInBank, InitialScanCenter
    <2> QED
      BY <2>1, <2>3, <2>4, WalkCases
  <1> QED
    BY <1>0, <1>1

LEMMA WalkInvariant == Spec => []WalkInv
  BY WalkInit, WalkStep, PTL DEF Spec

\* next_scan_step, in every bank and with every usable span, puts the capture
\* window on the bank, and wholly inside it once the walk is under way.
THEOREM WindowStaysInBank == Spec => []WalkStaysInBank
  <1>1. WalkInv => WalkStaysInBank
    BY DEF WalkInv
  <1> QED
    BY <1>1, WalkInvariant, PTL

\* No hop of the sweep leaves a gap: when the walk begins again, everything but
\* the last window's width has been inside some window.
THEOREM SweepLeavesNoGap == Spec => WalkLeavesNoGap
  <1>1. ASSUME WalkInv, [Walk]_vars
        PROVE  [center' <= center =>
                  {f \in bank.start .. bank.end : f + usable <= bank.end} \subseteq covered]_vars
    <2> SUFFICES ASSUME Walk, center' <= center,
                        NEW f \in bank.start .. bank.end, f + usable <= bank.end
                 PROVE  f \in covered
      BY <1>1 
    <2>1. center' = Step.center /\ Step.kind = "retune"
      BY DEF Walk
    <2>2. /\ bank.end \in Nat /\ bank.start \in Nat
          /\ usable \in Nat \ {0} /\ center \in Nat /\ usable \div 2 \in Nat
      BY <1>1, Halved DEF WalkInv
    <2>3. center + usable + usable \div 2 > bank.end
      BY <1>1, <2>1, <2>2, WalkCases
    <2>4. f <= center + usable \div 2
      BY <2>2, <2>3
    <2> QED
      BY <1>1, <2>4 DEF WalkInv
  <1> QED
    BY <1>1, WalkInvariant, PTL DEF Spec, WalkLeavesNoGap

\* A pan, and the return to the band view, put the window where clamp_center_hz
\* promises: inside the bank when it fits, and within reach of the device.
THEOREM PanStaysInBank == Spec => []PanKeepsWindow
  <1> DEFINE Probed == /\ bank \in Banks /\ bank.start <= bank.end
                       /\ usable \in Nat \ {0} /\ probe \in Nat
  <1>1. Init => Probed
    BY WalkAssumption DEF Init
  <1>2. Probed /\ [Walk]_vars => Probed'
    BY DEF Walk, vars, Banks
  <1>3. ASSUME Probed PROVE PanKeepsWindow
    <2> DEFINE half == usable \div 2
               pan  == ClampCenter(probe, usable, FALSE, bank, DevMin, DevMax)
               wide == ClampCenter(probe, usable, TRUE, NoBank, DevMin, DevMax)
    <2>1. /\ bank.start \in Nat /\ bank.end \in Nat /\ bank.start <= bank.end
          /\ bank # NoBank /\ probe \in Nat /\ half \in Nat
          /\ DevMin \in Nat /\ DevMax \in Nat /\ DevMin <= DevMax
      <3>1. bank \in [name : {"b"}, start : Nat, end : Nat, bw : Nat, wfm : BOOLEAN]
        BY <1>3, WalkAssumption DEF Banks
      <3>2. half \in Nat /\ probe \in Nat /\ bank.start <= bank.end
        BY <1>3, Halved
      <3> HIDE DEF half
      <3> QED
        BY <3>1, <3>2, WalkAssumption
    <2>2. ASSUME DevMin <= bank.start, bank.end <= DevMax
          PROVE  /\ DevMin <= pan /\ pan <= DevMax
                 /\ bank.end - bank.start >= 2 * half =>
                      bank.start + half <= pan /\ pan + half <= bank.end
      <3>1. CASE bank.start + half > Monus(bank.end, half)
        <4>1. pan = BankMiddle(bank)
          BY <2>1, <3>1 DEF ClampCenter
        <4>2. bank.end - bank.start < 2 * half
          BY <2>1, <3>1 DEF Monus
        <4>3. bank.start <= BankMiddle(bank) /\ BankMiddle(bank) <= bank.end
          BY <2>1, Halved DEF BankMiddle, Monus
        <4> HIDE DEF half, pan
        <4> QED
          BY <2>1, <2>2, <4>1, <4>2, <4>3 DEF BankMiddle, Monus
      <3>2. CASE bank.start + half <= Monus(bank.end, half)
        <4>1. pan = Clamp(probe, bank.start + half, bank.end - half)
          BY <2>1, <2>2, <3>2 DEF ClampCenter, Monus, AtLeast, AtMost
        <4> HIDE DEF half, pan
        <4> QED
          BY <2>1, <2>2, <3>2, <4>1 DEF Clamp, Monus, AtLeast, AtMost
      <3> HIDE DEF half, pan
      <3>3. Monus(bank.end, half) \in Nat /\ bank.start + half \in Nat
        BY <2>1 DEF Monus
      <3> QED
        BY <3>1, <3>2, <3>3
    <2>3. ASSUME DevMax - DevMin >= 2 * half
          PROVE  DevMin + half <= wide /\ wide + half <= DevMax
      <3>1. wide = Clamp(probe, DevMin + half, DevMax - half)
        BY <2>1, <2>3 DEF ClampCenter, Monus, AtLeast, AtMost
      <3> HIDE DEF half, wide
      <3> QED
        BY <2>1, <2>3, <3>1 DEF Clamp, AtLeast, AtMost
    <2> QED
      BY <2>2, <2>3 DEF PanKeepsWindow
  <1> QED
    BY <1>1, <1>2, <1>3, PTL DEF Spec
(***************************************************************************)
(* The raster.  Rounding to the nearest multiple of the step.              *)
(***************************************************************************)

\* What a division leaves.
LEMMA QuotientBelow ==
    ASSUME NEW x \in Nat, NEW y \in Nat \ {0}
    PROVE  x \div y \in Nat /\ y * (x \div y) <= x
  OBVIOUS

LEMMA QuotientAbove ==
    ASSUME NEW x \in Nat, NEW y \in Nat \ {0}
    PROVE  x < y * (x \div y) + y
  OBVIOUS

LEMMA QuotientExact ==
    ASSUME NEW x \in Nat, NEW y \in Nat \ {0}, x % y = 0
    PROVE  x = y * (x \div y)
  OBVIOUS

LEMMA QuotientOfLess ==
    ASSUME NEW x \in Nat, NEW y \in Nat \ {0}, x < y
    PROVE  x \div y = 0
  OBVIOUS

LEMMA Commuted ==
    ASSUME NEW x \in Nat, NEW y \in Nat
    PROVE  x * y = y * x /\ x * y \in Nat
  OBVIOUS

\* What the rounding of a distance `d` leaves: at most half a step upward and
\* less than the other half downward.
LEMMA Rounded ==
    ASSUME NEW d \in Nat, NEW step \in Nat \ {0}
    PROVE  LET q == (d + step \div 2) \div step
           IN  /\ q \in Nat
               /\ q * step \in Nat
               /\ q * step <= d + step \div 2
               /\ d + step \div 2 < q * step + step
  <1> DEFINE n == d + step \div 2
             q == n \div step
  <1>1. n \in Nat
    BY Halved
  <1>2. q \in Nat /\ step * q <= n /\ n < step * q + step
    BY <1>1, QuotientBelow, QuotientAbove
  <1>3. q * step = step * q /\ q * step \in Nat
    BY <1>2, Commuted
  <1> QED
    BY <1>2, <1>3

\* Two points of a raster are the same or a step apart.
LEMMA Apart ==
    ASSUME NEW step \in Nat \ {0}, NEW m \in Nat, NEW q \in Nat, m < q
    PROVE  m * step + step <= q * step
  <1> DEFINE k == q - m - 1
  <1>1. k \in Nat /\ q = m + 1 + k
    OBVIOUS
  <1> HIDE DEF k
  <1>2. q * step = m * step + step + k * step
    BY <1>1
  <1>3. m * step \in Nat /\ k * step \in Nat /\ q * step \in Nat
    BY <1>1, Commuted
  <1> QED
    BY <1>2, <1>3

\* The raster point a peak at or above the origin is rounded to is as near to
\* it as any.
LEMMA NearestPoint ==
    ASSUME NEW d \in Nat, NEW step \in Nat \ {0}, NEW g \in Nat, g % step = 0
    PROVE  Distance(((d + step \div 2) \div step) * step, d) <= Distance(g, d)
  <1> DEFINE q == (d + step \div 2) \div step
             m == g \div step
             h == step \div 2
             c == q * step
  <1>1. q \in Nat /\ c \in Nat /\ c <= d + h /\ d + h < c + step
    BY Rounded
  <1>2. m \in Nat /\ g = m * step
    <2>1. m \in Nat /\ g = step * m
      BY QuotientBelow, QuotientExact
    <2> HIDE DEF m
    <2> QED
      BY <2>1, Commuted
  <1>3. h \in Nat /\ step - h <= h + 1 /\ h + h <= step
    <2>1. 2 * h <= step
      BY QuotientBelow
    <2>2. h \in Nat /\ step - h <= h + 1
      BY Halved
    <2> HIDE DEF h
    <2> QED
      BY <2>1, <2>2
  <1>4. \/ g = c
        \/ g + step <= c
        \/ c + step <= g
    <2> HIDE DEF q, m
    <2>1. CASE m < q
      BY <1>1, <1>2, <2>1, Apart
    <2>2. CASE q < m
      BY <1>1, <1>2, <2>2, Apart
    <2>3. CASE m = q
      BY <1>2, <2>3
    <2> QED
      BY <1>1, <1>2, <2>1, <2>2, <2>3
  <1> HIDE DEF q, m, h, c
  <1>5. Distance(c, d) <= Distance(g, d)
    <2>1. CASE g = c
      BY <1>1, <2>1 DEF Distance
    <2>2. CASE g + step <= c
      BY <1>1, <1>3, <2>2 DEF Distance
    <2>3. CASE c + step <= g
      BY <1>1, <1>3, <2>3 DEF Distance
    <2> QED
      BY <1>4, <2>1, <2>2, <2>3
  <1> QED
    BY <1>5 DEF c, q

\* Keeping a frequency inside a bank brings it no further from one in the bank.
LEMMA ClampNearer ==
    ASSUME NEW lo \in Nat, NEW hi \in Nat, NEW p \in lo .. hi, NEW c \in Nat
    PROVE  /\ lo <= Clamp(c, lo, hi) /\ Clamp(c, lo, hi) <= hi
           /\ Distance(Clamp(c, lo, hi), p) <= Distance(c, p)
  BY DEF Clamp, AtLeast, AtMost, Distance

\* A peak in a bank becomes a hit on the nearest frequency of the bank's raster,
\* whatever the raster (stable_channel_frequency).
THEOREM HitsNearestChannel == Spec => []HitIsNearestChannel
  <1> DEFINE Probed == bank \in Banks /\ bank.start <= bank.end /\ probe \in Nat
  <1>1. Init => Probed
    BY WalkAssumption DEF Init
  <1>2. Probed /\ [Walk]_vars => Probed'
    BY DEF Walk, vars, Banks
  <1>3. ASSUME Probed PROVE HitIsNearestChannel
    <2> DEFINE raster == bank.wfm /\ bank.bw > 0
               origin == IF raster THEN bank.start + bank.bw \div 2 ELSE bank.start
               step   == AtLeast(bank.bw, 1)
               d      == Monus(probe, origin)
               c      == origin + ((d + step \div 2) \div step) * step
               hit    == StableChannel(bank, probe, bank.bw)
    <2>1. bank.start \in Nat /\ bank.end \in Nat /\ bank.bw \in Nat /\ probe \in Nat
      <3>1. bank \in [name : {"b"}, start : Nat, end : Nat, bw : Nat, wfm : BOOLEAN]
        BY <1>3, WalkAssumption DEF Banks
      <3> QED
        BY <1>3, <3>1
    <2>2. step \in Nat \ {0} /\ origin \in Nat /\ bank.start <= origin
      BY <2>1, Halved DEF AtLeast
    <2>3. hit = Clamp(c, bank.start, bank.end)
      <3>1. (IF raster THEN bank.bw ELSE AtLeast(bank.bw, 1)) = step
        BY <2>1 DEF AtLeast
      <3> QED
        BY <3>1 DEF StableChannel
    <2> HIDE DEF step, origin
    <2>4. d \in Nat
      BY <2>1, <2>2 DEF Monus
    <2>5. ((d + step \div 2) \div step) * step \in Nat
      BY <2>2, <2>4, Rounded
    <2>6. c \in Nat /\ bank.start <= c
      BY <2>1, <2>2, <2>5
    <2> SUFFICES ASSUME Holds(bank, probe)
                 PROVE  /\ Holds(bank, hit)
                        /\ \A f \in origin .. bank.end :
                             (f - origin) % step = 0 => Distance(hit, probe) <= Distance(f, probe)
      BY DEF HitIsNearestChannel, origin, step
    <2>7. probe \in bank.start .. bank.end
      BY <2>1 DEF Holds
    <2>8. Holds(bank, hit) /\ Distance(hit, probe) <= Distance(c, probe)
      BY <2>1, <2>3, <2>6, <2>7, ClampNearer DEF Holds
    <2>9. ASSUME NEW f \in origin .. bank.end, (f - origin) % step = 0
          PROVE  Distance(hit, probe) <= Distance(f, probe)
      <3>1. f - origin \in Nat /\ f \in Nat
        BY <2>1, <2>2
      <3>2. Distance(hit, probe) \in Nat /\ Distance(c, probe) \in Nat /\ Distance(f, probe) \in Nat
        <4>1. hit \in Nat
          <5> HIDE DEF hit
          <5> QED
            BY <2>1, <2>3, <2>6 DEF Clamp, AtLeast, AtMost
        <4> HIDE DEF hit
        <4> QED
          BY <2>1, <2>6, <3>1, <4>1 DEF Distance
      <3>3. CASE probe < origin
        <4>1. d = 0
          BY <2>1, <2>2, <3>3 DEF Monus
        <4>2. (d + step \div 2) \div step = 0
          <5>1. step \div 2 \in Nat /\ step \div 2 < step
            BY <2>2, Halved
          <5> DEFINE h == step \div 2
          <5>2. h \in Nat /\ h < step
            BY <5>1
          <5> HIDE DEF h
          <5>3. h \div step = 0
            BY <2>2, <5>2, QuotientOfLess
          <5> QED
            BY <4>1, <5>2, <5>3 DEF h
        <4>3. c = origin
          BY <2>2, <4>2
        <4> HIDE DEF c, d
        <4>4. Distance(c, probe) <= Distance(f, probe)
          BY <2>1, <2>2, <3>1, <3>3, <4>3 DEF Distance
        <4> HIDE DEF hit
        <4> QED
          BY <2>8, <3>2, <4>4
      <3>4. CASE probe >= origin
        <4> DEFINE n == ((d + step \div 2) \div step) * step
        <4>1. d = probe - origin
          BY <2>1, <2>2, <3>4 DEF Monus
        <4>2. Distance(n, d) <= Distance(f - origin, d)
          BY <2>2, <2>4, <2>9, <3>1, NearestPoint
        <4>3. n \in Nat /\ c = origin + n
          BY <2>5
        <4> HIDE DEF n, d, c
        <4>4. Distance(c, probe) <= Distance(f, probe)
          BY <2>1, <2>2, <3>1, <4>1, <4>2, <4>3 DEF Distance
        <4> HIDE DEF hit
        <4> QED
          BY <2>8, <3>2, <4>4
      <3> QED
        BY <2>1, <2>2, <3>3, <3>4
    <2> HIDE DEF hit
    <2> QED
      BY <2>8, <2>9
  <1> QED
    BY <1>1, <1>2, <1>3, PTL DEF Spec
=============================================================================
