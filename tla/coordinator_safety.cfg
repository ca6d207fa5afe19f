SPECIFICATION Spec
CONSTANTS
    select = select
    service = service
    quiet = quiet
    boost = boost
    NoMode = NoMode
    Writers <- MCWriters
    Modes <- MCModes
    Conditions <- AllConditions
    WolEnabled = TRUE
SYMMETRY MCSymmetry
INVARIANTS
    PublishedMatchesHealth
    ShownDataIsPolled
    NoSilentDrop
    StaleModeIsTemporary
PROPERTIES
    HealthSpec
