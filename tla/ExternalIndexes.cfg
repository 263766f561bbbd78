SPECIFICATION FairSpec
CONSTANTS
    ann = ann
    team = team
    p1 = p1
    p2 = p2
    Process = {p1, p2}
    Asker = {p1}
    Entity = {ann, team}
    Focus = ann
    Depth = 1
    World <- MCWorld
    Kind = {"search", "graph", "engine"}
    MaxSnapshots = 2
    MaxFaults = 1
INVARIANTS
    AnswersOfKey
    CopiesFollowIndexing
PROPERTY
    AnswersSettle
CHECK_DEADLOCK FALSE
