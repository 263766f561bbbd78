SPECIFICATION Spec
CONSTANTS
    ann = ann
    bob = bob
    cal = cal
    dan = dan
    team = team
    dept = dept
    ops = ops
    folder = folder
    file = file
    Entity <- MCEntity
    Label = {0, 20}
    Permission = {"r", "w", "x"}
    Privileged = {"w"}
    Relationship <- MCRelationship
    ReachDepth = 3
    ClosureDepth = 4
    Kept = 2
    FirstWorlds <- MCFirstWorlds
    NextWorlds <- MCNextWorlds
    Payloads <- MCPayloads
    Limits = {3, 50}
    AccountNames <- MCAccountNames
    Criticality <- MCCriticality
    NameRank <- MCNameRank
    ShownSpots = 1
    ShownScenarios = 4
    ShownImpacts = 1
    Floor <- MCFloor
    Generic <- MCGeneric
    MaxBucket = 3
    MaxSnapshots = 2
    MaxCampaigns = 1
INVARIANTS CampaignsInv  PlanStands WhatIfExact
     ClustersAreComponents ReviewsAreTold
CHECK_DEADLOCK FALSE
