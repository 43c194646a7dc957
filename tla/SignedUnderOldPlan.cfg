SPECIFICATION Spec
CONSTANTS
    head = head
    deputy = deputy
    runningHead = runningHead
    manager = manager
    reviewer = reviewer
    headOfInspection = headOfInspection
    plantManager = plantManager
    review = review
    shipped = shipped
    revised = revised
    high = high
    low = low
    Users = {head, deputy, runningHead, manager}
    Roles = {headOfInspection, plantManager, review}
    RoleOf <- MCRoleOf
    Runner = runningHead
    ReviewRoles = {review}
    Policies = {shipped, revised}
    Plan <- MCPlan
    Severities = {high, low}
    Conflicts = {k1}
    HighImpact = {k1}
    Formats = {2}
    HotEdits = TRUE
    MaxDisruptions = 2
    None = None
    k1 = k1
    k2 = k2
INVARIANTS
    OrderIsEnforced
CHECK_DEADLOCK FALSE
