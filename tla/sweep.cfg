SPECIFICATION Spec
CONSTANTS
    NoBank = NoBank
    NoFreq = NoFreq
    Plans <- TwoBanks
    ConfigBanks <- MCConfigBanks
    Channels = {2, 11}
    Tunes = {7}
    Requests = {"start", "stop", "lock", "skip", "add", "remove", "lock_vfo", "blacklist", "tune"}
    MaxVfos = 2
    ConfirmFrames = 1
    HoldMax = 2
    MinDwell = 1
    StepHz = 1
    FftSize = 10
    DcReject = 1
    DevMin = 0
    DevMax = 40
    BootRate = 10
    BootCenter = 4
    HoldOnAudio = FALSE
    DeviceMayFail = TRUE
    QueueCap = 2
    Budget = 3
INVARIANTS TypeOK SlotsDistinct RunningBankHasVfo
PROPERTIES SkippedStaysQuiet SweepRespectsSignal
CHECK_DEADLOCK FALSE
