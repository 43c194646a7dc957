SPECIFICATION Spec
CONSTANTS
    head = head
    deputy = deputy
    runningHead = runningHead
    manager = manager
    reviewer = reviewer
    headOfInspection = headOfInspection
    plantManager = plantManager
    review = review
    shipped = shipped
    revised = revised
    high = high
    low = low
    Users = {head, runningHead, manager, reviewer}
    Roles = {headOfInspection, plantManager, review}
    RoleOf <- MCRoleOf
    Runner = runningHead
    ReviewRoles = {review}
    Policies = {shipped, revised}
    Plan <- MCPlan
    Severities = {high, low}
    Conflicts = {k1, k2}
    HighImpact = {k1}
    Formats = {1, 2}
    HotEdits = TRUE
    MaxDisruptions = 1
    None = None
    k1 = k1
    k2 = k2
CONSTRAINT Bounded
INVARIANTS
    SignedByPlan
    OneVersionSigned
    ReleasedBytesAreSigned
    SignaturesAreLogged
PROPERTIES
    DecidedAsSeen
    ReleaseFollowsPolicy
CHECK_DEADLOCK FALSE
