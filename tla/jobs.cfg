SPECIFICATION FairSpec
CONSTANTS
    Clients = {c1}
    Names = {op}
    Jobs = {j1, j2}
    Owners = {"scanner", j1, j2, op}
    Tasks = {t1}
    Requests = {"claim", "disconnect"}
    Forces = {FALSE}
    Budget = 1
    Booting = FALSE
    CmdCap = 1
    MaxCount = 1
    Faults = {"refuse"}
    Sources = {"hw"}
    Starts = {"Start"}
    NoOwner = NoOwner
    NoTask = NoTask
    Nobody = Nobody
    op = op
    c1 = c1
    j1 = j1
    j2 = j2
    t1 = t1
INVARIANTS
    TypeOK
    JobHoldsLease
    JobRetunesOwnReceiver
PROPERTIES
    TunerSpec
    JobLeaseReturned
CHECK_DEADLOCK FALSE
