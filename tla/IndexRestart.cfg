SPECIFICATION FairSpec
CONSTANTS
    ann = ann  bob = bob  cal = cal  dan = dan
    team = team  dept = dept  auditor = auditor
    folder = folder  file = file  vault = vault  attic = attic
    Entity <- MCEntity
    Label <- MCLabel
    Permission <- MCPermission
    Privileged <- MCPrivileged
    Relationship <- MCRelationship
    Collectable <- TinyWorld
    EmptyGraph <- MCEmptyGraph
    NoGraph = NoGraph
    ReachDepth = 2
    ClosureDepth = 3
    Retention = 2
    MaxScans = 2
    MaxFaults = 2
    MaxReviews = 1
    LongReviews = FALSE
CHECK_DEADLOCK FALSE
PROPERTY RestartCompletes
