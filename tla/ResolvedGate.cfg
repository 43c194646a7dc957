SPECIFICATION Spec
CONSTANTS
    Undefined = Undefined
    Nothing = Undefined
    Locations <- MCLocations
    Previous <- MCPrevious
    YearsBetween = 40
    InService = 100
    Mawp = 100
    Months = 24
    Profiles <- MCProfiles
    Attachments <- MCAttachments
    Retrievals <- MCRetrievals
    Drawings <- MCDrawings
    Source <- MCSource
    Measured <- MCMeasured
    Answers <- MCAnswers
    Boundary <- MCBoundary
    RaisesTo <- MCRaisesTo
    Markings = {"marking"}
INVARIANT ResolvedGate
CHECK_DEADLOCK FALSE
