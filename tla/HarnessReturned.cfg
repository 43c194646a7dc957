SPECIFICATION LiveSpec
CONSTANTS
    q1 = q1
    q2 = q2
    Sections = {1, 2, 3}
    Scope = {1, 2}
    Lines <- MCLines
    Definitions <- MCDefinitions
    Children = {1, 2}
    Owner = owner
    Deciders = {owner, reviewer}
    Sensitive = {1}
    Revisions = TRUE
    Faults = FALSE
    MaxDisruptions = 0
    None = None
PROPERTIES
    RunnerMovesOn
CHECK_DEADLOCK FALSE
