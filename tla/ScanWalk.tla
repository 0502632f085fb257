------------------------------ MODULE ScanWalk ------------------------------
(***************************************************************************)
(* The walk of the capture window over one bank with nothing on the air,   *)
(* as scanner_loop drives it: start at the initial center, follow          *)
(* NextScanStep.  Every small bank and window width is an initial state,   *)
(* and so is every frequency `probe` a peak or a pan may ask for.          *)
(***************************************************************************)
EXTENDS ScanWindow, FiniteSets

CONSTANTS MaxFreq, Widths, Rasters, DevMin, DevMax

ASSUME WalkAssumption ==
    /\ MaxFreq \in Nat /\ Widths \subseteq Nat \ {0} /\ Rasters \subseteq Nat
    /\ DevMin \in Nat /\ DevMax \in Nat /\ DevMin <= DevMax
    /\ NoBank \notin [name : {"b"}, start : Nat, end : Nat, bw : Nat, wfm : BOOLEAN]

VARIABLES bank, usable, probe, center, covered

vars == <<bank, usable, probe, center, covered>>

Banks ==
    {[name |-> "b", start |-> s, end |-> e, bw |-> w, wfm |-> fm] :
        s \in 0 .. MaxFreq, e \in 0 .. MaxFreq, w \in Rasters, fm \in BOOLEAN}

Window(c) == {f \in bank.start .. bank.end : Distance(f, c) <= usable \div 2}

Init ==
    /\ bank \in {b \in Banks : b.start <= b.end}
    /\ usable \in Widths
    /\ probe \in 0 .. MaxFreq
    /\ center = InitialScanCenter(bank, usable)
    /\ covered = Window(center)

Step == NextScanStep(bank, <<>>, center, usable)

Walk ==
    /\ Step.kind = "retune"
    /\ center' = Step.center
    /\ covered' = Window(center') \cup IF center' <= center THEN {} ELSE covered
    /\ UNCHANGED <<bank, usable, probe>>

Spec == Init /\ [][Walk]_vars

\* The window only hops to places where it lies inside the bank; the one place
\* it may stick out is where the walk starts (next_scan_step).
WalkStaysInBank ==
    /\ bank.start <= center /\ center <= bank.end
    /\ center # InitialScanCenter(bank, usable) =>
          bank.start + usable \div 2 <= center /\ center + usable \div 2 <= bank.end

\* Before the walk begins again it has looked at every frequency of the bank but
\* those of the last window's width: no hop leaves a gap behind.
WalkLeavesNoGap ==
    [][center' <= center =>
          {f \in bank.start .. bank.end : f + usable <= bank.end} \subseteq covered]_vars

\* A peak inside the bank is attributed to a frequency of the bank, and no
\* other channel of its raster is nearer (stable_channel_frequency).
HitIsNearestChannel ==
    LET hit    == StableChannel(bank, probe, bank.bw)
        raster == bank.wfm /\ bank.bw > 0
        origin == IF raster THEN bank.start + bank.bw \div 2 ELSE bank.start
        step   == AtLeast(bank.bw, 1)
        other  == {f \in origin .. bank.end : (f - origin) % step = 0}
    IN  Holds(bank, probe) =>
          /\ Holds(bank, hit)
          /\ \A f \in other : Distance(hit, probe) <= Distance(f, probe)

\* A pan, or a return to the band view, leaves the window inside the bank when
\* it fits there, and on frequencies the device can tune when the bank is one
\* of its bands (clamp_center_hz); in the full view only the device limits it.
PanKeepsWindow ==
    LET rate == usable
        half == rate \div 2
        pan  == ClampCenter(probe, rate, FALSE, bank, DevMin, DevMax)
        wide == ClampCenter(probe, rate, TRUE, NoBank, DevMin, DevMax)
    IN  /\ DevMin <= bank.start /\ bank.end <= DevMax =>
             /\ DevMin <= pan /\ pan <= DevMax
             /\ bank.end - bank.start >= 2 * half =>
                  bank.start + half <= pan /\ pan + half <= bank.end
        /\ DevMax - DevMin >= 2 * half => DevMin + half <= wide /\ wide + half <= DevMax
=============================================================================
