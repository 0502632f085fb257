SPECIFICATION Spec
CONSTANTS
    Handlers = {h1, h2}
    Ids = {i1, i2}
    Owners = {"scanner", op}
    Capacity = 2
    Attempts = 2
    Kinds = {"claim", "release", "tune"}
    Patient = {"tune"}
    MaxCount = 3
    NoOwner = NoOwner
    h1 = h1
    h2 = h2
    i1 = i1
    i2 = i2
    op = op
SYMMETRY Interchangeable
INVARIANTS TypeOK SessionAppliedOnce SessionReplyUnique SeenRevisionIdentifiesOwner DeviceAppliedOnce
CHECK_DEADLOCK FALSE
