SPECIFICATION Spec
CONSTANTS
    Clients = {c1, c2}
    Names = {op}
    Jobs = {}
    Owners = {"scanner", op}
    Tasks = {t1, t2}
    Requests = {"scan_start", "scan_stop", "connect", "disconnect", "tune", "profile", "claim", "release"}
    Forces = {TRUE, FALSE}
    Budget = 2
    Booting = FALSE
    CmdCap = 1
    MaxCount = 1
    Faults = {"refuse"}
    Sources = {"hw"}
    Starts = {"Start"}
    NoOwner = NoOwner
    NoTask = NoTask
    Nobody = Nobody
    op = op
    c1 = c1
    c2 = c2
    t1 = t1
    t2 = t2
SYMMETRY Interchangeable
INVARIANTS
    SlotIsLive
    NoStrayScanner
CHECK_DEADLOCK FALSE
