SPECIFICATION ReaderSpec
CONSTANTS
    ann = ann  bob = bob  cal = cal  dan = dan
    team = team  dept = dept  auditor = auditor
    folder = folder  file = file  vault = vault  attic = attic
    Entity <- MCEntity
    Label <- MCLabel
    Permission <- MCPermission
    Privileged <- MCPrivileged
    Relationship <- MCRelationship
    Collectable <- TinyWorld
    EmptyGraph <- MCEmptyGraph
    NoGraph = NoGraph
    ReachDepth = 6
    ClosureDepth = 8
    Retention = 2
    MaxScans = 3
    MaxFaults = 1
    MaxReviews = 1
    Listings <- MCListings
    Details <- MCDetails
    Limit = 3
    NameRank <- MCNameRank
    IdRank <- MCIdRank
    LongReviews = FALSE
CHECK_DEADLOCK FALSE
 
 
 
INVARIANT TablesAgree
