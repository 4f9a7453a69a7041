CONSTANTS
    Hostapd = {h1}
    Tester = {}
    Repeats = 2
    Macs = 1
    HostOf <- MCHostOf
    Value <- MCValue
    Base = 2
    PipeMax = 2
    MaxCalls = 2
    MaxLinks = 2
    Putters = {c1}
    Clients = {l1}
    Faults = {"refuse", "drop"}
    CollectorHost = "little"
    Lines = 2
SPECIFICATION Spec
INVARIANTS
    TypeOK
    OutcomeIsTrue
    NoIdleTransaction
PROPERTIES
    FailureIsForGood
    ImplementsCourier
