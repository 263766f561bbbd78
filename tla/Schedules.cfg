SPECIFICATION Spec
CONSTANTS
    s1 = s1
    s2 = s2
    w = w
    here = here
    there = there
    web = web
    node = node
    Id = {s1}
    Worker = {w}
    Client = {here, there}
    Process = {node, web}
    Home <- TwoProcesses
    Cadence = {2, 3}
    Keep = Keep
    Payload <- OnOffSlower
    MaxTime = 3
    MaxFaults = 1
INVARIANTS
    ScheduleInv
PROPERTY
    SlotDeliveredOnce
CHECK_DEADLOCK FALSE
