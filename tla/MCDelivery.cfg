CONSTANTS
    r1 = r1
    r2 = r2
    r3 = r3
    tg = tg
    slack = slack
    a = a
    b = b
    fp = fp
    i1 = i1
    i2 = i2
    none = none
    Requests = {r1, r2, r3}
    Sinks = {tg}
    TargetsOf <- MCTargetsOf
    FpOf <- MCFpOf
    NoFp = none
    Payloads <- MCPayloads
    PartsOf <- MCPartsOf
    Unrenderable = {}
    Modes = {"reply"}
    Budget = 1
    DedupKeys <- MCDedupKeys
    Keyless = none
    DedupTTL = 1
    LinkKeys <- MCLinkKeys
    Messages <- MCMessages
    LinkTTL = 2
    LinkMax = 1
    MaxPerAlert = 2
    MaxTime = 2
SPECIFICATION Spec
SYMMETRY RequestSymmetry
CHECK_DEADLOCK FALSE
INVARIANTS
    TypeOK
    ReservationHasOwner
    NoConfirmedDuplicate
    EveryLossIsReported
    RewrittenAreUnlinked
    OnlyLatecomersAreMissed
PROPERTIES
    LinkWaitsForReply
    KeepsLeases
