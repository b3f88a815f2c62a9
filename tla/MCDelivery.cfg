CONSTANTS
    Parts = {"delivery", "wire"}
    r1 = r1
    w1 = w1
    Receivers = {r1}
    Dispatchers = {w1}
    Serves <- ToFirst
    Cumulative = {r1}
    MaxEvents = 3
    Direct = FALSE
    Prunes = TRUE
    Rejects = TRUE
    Bounds <- MCBounds
    ReservedCell <- MCReserved
    DamagedCells <- MCDamaged
    Messages <- MCMessages
SPECIFICATION EndToEndSpec
INVARIANTS
    AppliedOnceInOrder AcknowledgementAccepted CodecsAgree
PROPERTY
    Delivered
CHECK_DEADLOCK FALSE
