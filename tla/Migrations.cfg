SPECIFICATION Spec
CONSTANTS
    Links = {l1, l2}
    Scores <- MCScores
    ServiceUnits <- MCServiceUnits
    RevisionUnits <- MCRevisionUnits
    MaxFaults = 2
INVARIANTS
    NoStatementFails
    VersionTellsSchema
    ServesItsModels
    KdaIsTheServices
