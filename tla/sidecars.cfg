SPECIFICATION FairSpec
CONSTANTS
    Decoders = {d1}
    MaxProcesses = 5
    Clients = {c1, c2}
    MaxSupervisors = 3
    Order <- MCOrder
    Signed = {d1}
    MaxRestarts = 1
    CountLimit = 3
    MaxRequests = 2
    MaxFrames = 1
INVARIANTS NoStrayProcess Supervised RestartsBounded
PROPERTY DeadIsDeregistered
CHECK_DEADLOCK FALSE
