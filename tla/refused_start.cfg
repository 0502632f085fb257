SPECIFICATION Spec
CONSTANTS
    Clients = {c1, c2}
    Names = {op}
    Jobs = {}
    Owners = {"scanner", op}
    Tasks = {t1, t2}
    Requests = {"claim", "scan_start"}
    Forces = {FALSE}
    Budget = 2
    Booting = FALSE
    CmdCap = 2
    MaxCount = 3
    Faults = {}
    Sources = {"hw"}
    Starts = {"Start"}
    NoOwner = NoOwner
    NoTask = NoTask
    Nobody = Nobody
    op = op
    c1 = c1
    c2 = c2
    t1 = t1
    t2 = t2
INVARIANT RefusalAnswered
CHECK_DEADLOCK FALSE
