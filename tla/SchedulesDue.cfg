SPECIFICATION FairSpec
CONSTANTS
    s1 = s1
    s2 = s2
    w = w
    here = here
    there = there
    web = web
    node = node
    Id = {s1, s2}
    Worker = {w}
    Client = {here}
    Process = {node}
    Home <- OneProcess
    Cadence = {2}
    Keep = Keep
    Payload <- OnOff
    MaxTime = 3
    MaxFaults = 1
PROPERTY
    DueIsRun
CHECK_DEADLOCK FALSE
