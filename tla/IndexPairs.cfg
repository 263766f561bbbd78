SPECIFICATION Spec
CONSTANTS
    ann = ann  bob = bob  cal = cal  dan = dan
    team = team  dept = dept  auditor = auditor
    folder = folder  file = file  vault = vault  attic = attic
    Entity <- MCEntity
    Label <- MCLabel
    Permission <- MCPermission
    Privileged <- MCPrivileged
    Relationship <- MCRelationship
    Collectable <- PairWorld
    EmptyGraph <- MCEmptyGraph
    NoGraph = NoGraph
    ReachDepth = 6
    ClosureDepth = 8
    Retention = 2
    MaxScans = 2
    MaxFaults = 1
    MaxReviews = 0
    LongReviews = FALSE
CHECK_DEADLOCK FALSE
INVARIANT TypeOK
 
INVARIANT SummaryVouchesForClosures
 
