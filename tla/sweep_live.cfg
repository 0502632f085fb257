SPECIFICATION LiveSpec
CONSTANTS
    NoBank = NoBank
    NoFreq = NoFreq
    Plans <- LivePlans
    ConfigBanks <- WithApart
    Channels = {2, 31}
    Tunes = {26}
    Requests = {"start", "lock", "unlock", "skip", "pan", "view", "tune"}
    MaxVfos = 2
    ConfirmFrames = 1
    HoldMax = 2
    MinDwell = 2
    StepHz = 1
    FftSize = 10
    DcReject = 1
    DevMin = 0
    DevMax = 40
    BootRate = 10
    BootCenter = 4
    HoldOnAudio = TRUE
    DeviceMayFail = FALSE
    QueueCap = 2
    Budget = 3
PROPERTIES SweepGoesOn CycleVisited
CHECK_DEADLOCK FALSE
