SPECIFICATION FairSpec
CONSTANTS
    Process = {p1, p2, p3}
    Nobody = Nobody
    Heartbeat = 2
    Stale = 6
    Slack = 2
    MaxFaults = 2
INVARIANT LeaseInv
PROPERTY SettledOwnerStays
PROPERTY EventuallySomeoneLeads
PROPERTY SettledElection
