SPECIFICATION Spec
CONSTANTS
    NoBank = NoBank
    NoFreq = NoFreq
    MaxFreq = 14
    Widths = {1, 2, 3, 4, 5}
    Rasters = {0, 1, 2, 3, 4}
    DevMin = 1
    DevMax = 13
INVARIANTS WalkStaysInBank HitIsNearestChannel PanKeepsWindow
PROPERTY WalkLeavesNoGap
CHECK_DEADLOCK FALSE
