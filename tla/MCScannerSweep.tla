--------------------------- MODULE MCScannerSweep ---------------------------
(***************************************************************************)
(* Instances of ScannerSweep for TLC.  The band is a line of small         *)
(* frequencies; at a sample rate of 10 the usable window is 9 wide.        *)
(***************************************************************************)
EXTENDS ScannerSweep

Bank(n, s, e, hold) ==
    [name |-> n, start |-> s, end |-> e, bw |-> 2, wfm |-> FALSE, maxVfos |-> 2,
     hold |-> hold, dwell |-> 1, rate |-> 10, enabled |-> TRUE]

\* two windows wide, and narrower than a window
Wide   == Bank("wide", 0, 20, 2)
Narrow == Bank("narrow", 30, 33, 1)

\* two bookmarks of one label, one of another between them
Mark(label, freq) == [Bank(label, freq, freq, 1) EXCEPT !.maxVfos = 1]
Marks == <<Mark("m", 5), Mark("n", 31), Mark("m", 36)>>

\* no cycle has it; an operator may tune there
Apart == Bank("apart", 24, 28, 1)

WithApart == <<Wide, Narrow, Apart>>
MCConfigBanks == <<Wide, Narrow>>
OneBank   == {[bank |-> Wide, cycle |-> <<>>]}
LivePlans == {[bank |-> Wide, cycle |-> <<Wide, Narrow>>], [bank |-> Marks[1], cycle |-> Marks]}
TwoBanks  == {[bank |-> Wide, cycle |-> <<Wide, Narrow>>]}
=============================================================================
