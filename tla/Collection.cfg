SPECIFICATION Spec
CONSTANTS
    top = top
    docs = docs
    note = note
    dot = dot
    srv = srv
    Object <- MCObject
    Above <- MCAbove
    Hidden = {dot}
    Acl <- MCAcl
    OwnerOf <- MCOwner
    GroupOf <- MCGroup
    Target = {1, 2, 3}
    Selections <- MCSelections
    RootOf <- MCRoot
    DepthOf <- MCDepth
    MaxItems <- MCMaxItems
    Remote = {3}
    WithoutGetfacl = {3}
    User = {"root", "ann", "bob"}
    Group = {"ann", "staff", "all"}
    Member <- MCMember
    GroupLike = {}
    Layouts <- MCLayouts
    InitialAcl <- Private
    Ready = {"ad-ldap", "entra-graph", "azure-rbac", "okta-ud", "cyberark-privileged"}
    Services <- MCServices
    Limit <- MCLimit
    PrincipalKind <- MCPrincipalKind
    Withheld = {"use"}
    Stem <- MCStem
    Trace <- MCTrace
    Imported <- MCImported
    MaxChanges = 2
    MaxScans = 2
    MaxFaults = 1
    Entity <- MCEntity
    Label = {0, 1, 2}
    Permission <- MCPermission
    Privileged = {"w"}
    Relationship <- MCRelationship
    ReachDepth = 6
    ClosureDepth = 8
INVARIANTS  CacheVouches ItemsWereThere NothingOverlooked
CHECK_DEADLOCK FALSE
