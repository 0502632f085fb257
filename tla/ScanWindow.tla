----------------------------- MODULE ScanWindow -----------------------------
(***************************************************************************)
(* The arithmetic of the scanner (src-tauri/src/scanner.rs): where the     *)
(* capture window goes inside a bank, which bank follows it, which         *)
(* frequency a noisy peak is attributed to, and which peaks count.         *)
(*                                                                         *)
(* Frequencies are natural numbers.  Banks are records of the fields of    *)
(* ScanRange the scanner reads:                                            *)
(*   name, start, end, bw (channel_bw_hz), wfm (mode is "wfm"),            *)
(*   maxVfos, hold, dwell, rate (sample_rate_hz), enabled.                 *)
(* Sums of two frequencies stay far below 2^64, so only the saturation of  *)
(* subtraction at 0 can be seen.                                           *)
(***************************************************************************)
EXTENDS Integers, Sequences

CONSTANT NoBank, NoFreq


Monus(a, b) == IF a >= b THEN a - b ELSE 0
Distance(a, b) == IF a >= b THEN a - b ELSE b - a
AtMost(a, b) == IF a <= b THEN a ELSE b
AtLeast(a, b) == IF a >= b THEN a ELSE b
Clamp(x, lo, hi) == AtLeast(lo, AtMost(x, hi))
First(indices) == CHOOSE i \in indices : \A j \in indices : i <= j

(***************************************************************************)
(* The part of the sampled spectrum the scanner trusts: 90% of the sample  *)
(* rate, limited by the analog bandwidth the contract has set.  Half of    *)
(* it, by a separate 45% in the code, is the reach of a manual retune.     *)
(***************************************************************************)
UsableSpan(rate, bandwidth) == AtLeast(AtMost(bandwidth, (rate * 90) \div 100), 1)
UsableHalf(rate) == (rate * 45) \div 100

(***************************************************************************)
(* Sweeping a bank.                                                        *)
(***************************************************************************)
\* mutant: the first window starts at the bank's edge with its center
InitialScanCenterAtEdge(bank, usable) == bank.start

InitialScanCenter(bank, usable) == AtMost(bank.start + usable \div 2, bank.end)

\* mutant: only the center of the next window is looked at
SearchWindowWrapsLate(bank, center, usable) == center + usable > bank.end

SearchWindowWraps(bank, center, usable) ==
    center + usable + usable \div 2 > bank.end

\* mutant: the position found is not advanced
NextCycleBankStuck(name, cycle) ==
    LET at == {i \in DOMAIN cycle : cycle[i].name = name}
    IN  IF Len(cycle) >= 2 /\ at # {} THEN cycle[First(at)] ELSE NoBank

\* the bank after the first one of the cycle that has the name
NextCycleBank(name, cycle) ==
    LET at == {i \in DOMAIN cycle : cycle[i].name = name}
    IN  IF Len(cycle) >= 2 /\ at # {} THEN cycle[(First(at) % Len(cycle)) + 1] ELSE NoBank

\* mutant: a window and a half further
NextCenterApart(center, usable) == center + usable + AtLeast(usable \div 2, 1)

NextCenter(center, usable) == center + usable

StayHere       == [kind |-> "stay"]
RetuneTo(c)    == [kind |-> "retune", center |-> c]
SwitchTo(bank) == [kind |-> "switch", bank |-> bank]

NextScanStep(bank, cycle, center, usable) ==
    LET narrow == Monus(bank.end, bank.start) <= usable
        wraps  == SearchWindowWraps(bank, center, usable)
        next   == NextCycleBank(bank.name, cycle)
    IN  CASE ~ (narrow \/ wraps)  -> RetuneTo(NextCenter(center, usable))
          [] (narrow \/ wraps) /\ next # NoBank -> SwitchTo(next)
          [] (narrow \/ wraps) /\ next = NoBank /\ wraps /\ ~ narrow
                -> RetuneTo(InitialScanCenter(bank, usable))
          [] OTHER -> StayHere

(***************************************************************************)
(* clamp_center_hz: where a pan or a change of the spectrum view may put   *)
(* the center, `full` being the whole tuning range of the device.          *)
(***************************************************************************)
BankMiddle(bank) == bank.start + Monus(bank.end, bank.start) \div 2

\* mutant: the center is kept inside the bank, the window is not
ClampCenterOnly(center, rate, full, bank, devMin, devMax) ==
    IF full \/ bank = NoBank THEN Clamp(center, devMin, devMax)
    ELSE Clamp(center, bank.start, bank.end)

ClampCenter(center, rate, full, bank, devMin, devMax) ==
    LET half    == rate \div 2
        devLow  == AtMost(devMin + half, devMax)
        devHigh == AtLeast(Monus(devMax, half), devMin)
        inBank  == ~ full /\ bank # NoBank
        low     == IF inBank THEN AtLeast(bank.start + half, devMin + half) ELSE devLow
        high    == IF inBank THEN AtMost(Monus(bank.end, half), Monus(devMax, half)) ELSE devHigh
    IN  IF inBank /\ bank.start + half > Monus(bank.end, half)
        THEN BankMiddle(bank)
        ELSE IF low <= high THEN Clamp(center, low, high)
        ELSE IF bank # NoBank THEN BankMiddle(bank)
        ELSE (devMin + devMax) \div 2

(***************************************************************************)
(* From a peak to a hit.                                                   *)
(***************************************************************************)
ChannelRadius(bw) == AtLeast(bw \div 2, 1)

\* mutant: the raster point below, not the nearest
StableChannelBelow(bank, detected, fallbackStep) ==
    LET raster == bank.wfm /\ bank.bw > 0
        origin == IF raster THEN bank.start + bank.bw \div 2 ELSE bank.start
        step   == IF raster THEN bank.bw ELSE AtLeast(fallbackStep, 1)
    IN  Clamp(origin + (Monus(detected, origin) \div step) * step, bank.start, bank.end)

StableChannel(bank, detected, fallbackStep) ==
    LET raster == bank.wfm /\ bank.bw > 0
        origin == IF raster THEN bank.start + bank.bw \div 2 ELSE bank.start
        step   == IF raster THEN bank.bw ELSE AtLeast(fallbackStep, 1)
        steps  == (Monus(detected, origin) + step \div 2) \div step
    IN  Clamp(origin + steps * step, bank.start, bank.end)

IsLockedOut(freq, entries, bw) ==
    \E e \in entries : Distance(e, freq) <= ChannelRadius(bw)

\* both sides of the code's floating point comparison times fftSize
IsDcRejected(detected, center, rate, fftSize, dcReject) ==
    LET n == AtLeast(fftSize, 1)
    IN  Distance(detected, center) * n < AtLeast(dcReject * n, AtLeast(rate, n))

CandidateConfirmed(candidate, detected, bw, presentFor, confirm) ==
    IF candidate = NoFreq
    THEN confirm = 0
    ELSE Distance(candidate, detected) <= ChannelRadius(bw) /\ presentFor >= confirm

(***************************************************************************)
(* pick_range_for_frequency: the bank a manual retune selects.  The bank   *)
(* already selected stays if it contains the frequency; otherwise the      *)
(* first narrowest enabled bank, otherwise the first narrowest one.        *)
(***************************************************************************)
Holds(bank, freq) == bank.start <= freq /\ freq <= bank.end

\* min_by_key: the first of the banks at `hits` whose span is least
Narrowest(banks, hits) ==
    LET span(i) == Monus(banks[i].end, banks[i].start)
        least   == {i \in hits : \A j \in hits : span(i) <= span(j)}
    IN  IF hits = {} THEN NoBank ELSE banks[First(least)]

PickBank(banks, freq, current) ==
    LET holding == {i \in DOMAIN banks : Holds(banks[i], freq)}
        kept    == {i \in holding : banks[i].name = current}
        enabled == {i \in holding : banks[i].enabled}
    IN  CASE kept # {} -> banks[First(kept)]
          [] kept = {} /\ enabled # {} -> Narrowest(banks, enabled)
          [] OTHER -> Narrowest(banks, holding)
=============================================================================
