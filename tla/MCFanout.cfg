CONSTANTS
    r1 = r1
    r2 = r2
    tg = tg
    slack = slack
    a = a
    b = b
    fp = fp
    i1 = i1
    i2 = i2
    nameless = nameless
    none = none
    Requests = {r1}
    Sinks = {tg, slack}
    TargetsOf <- MCTargetsOf
    FpOf <- MCFpOf
    NoFp = none
    Payloads <- MCPayloads
    PartsOf <- MCPartsOf
    Unrenderable <- MCUnrenderable
    Modes = {"new", "reply", "edit"}
    Budget = 1
    DedupKeys <- MCDedupKeys
    Keyless = none
    DedupTTL = 1
    LinkKeys <- MCLinkKeys
    Messages <- MCMessages
    LinkTTL = 2
    LinkMax = 1
    MaxPerAlert = 1
    MaxTime = 1
SPECIFICATION Spec
CHECK_DEADLOCK FALSE
INVARIANTS
    
    LinkedWereDelivered
PROPERTIES
    AnswerMatchesOutcome
