SPECIFICATION Spec
CONSTANTS
    Lower <- LowerCase
    SaslWords <- SaslProtocols
    Shipped <- ShippedFiles
    Overlays <- SomeOverlays
    Overrides <- SomeOverrides
    MaxOverrides = 2
    Environments <- SomeEnvironments
    Brokers = {b1, b2}
    Entries = {e1, e2}
    Values = {set}
    MaxParts = 2
    MaxOffset = 2
    MaxRuns = 3
INVARIANTS
    TypeOK
    LastLineWins
    OverlaysRescue
    ClientIsComplete
    ModeIsHonoured
    SomeBrokerKnows
PROPERTIES
    RetainedIsNotUnderstated
    CommandEnds
CHECK_DEADLOCK FALSE
