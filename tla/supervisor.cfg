SPECIFICATION LiveSpec
CONSTANTS
    Clients = {c1}
    Names = {op}
    Jobs = {}
    Owners = {"scanner", op}
    Tasks = {t1, t2}
    Requests = {"scan_stop", "disconnect"}
    Forces = {FALSE}
    Budget = 1
    Booting = FALSE
    CmdCap = 1
    MaxCount = 1
    Faults = {"refuse", "stall", "lost"}
    Sources = {"hw"}
    Starts = {"Start", "StartBare"}
    NoOwner = NoOwner
    NoTask = NoTask
    Nobody = Nobody
    op = op
    c1 = c1
    t1 = t1
    t2 = t2
PROPERTY FlowRecovers
CHECK_DEADLOCK FALSE
