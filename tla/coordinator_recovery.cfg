SPECIFICATION Spec
CONSTANTS
    select = select
    service = service
    quiet = quiet
    boost = boost
    NoMode = NoMode
    Writers <- MCOneWriter
    Modes <- MCModes
    Conditions <- MCReachability
    WolEnabled = TRUE
PROPERTIES
    RecoversWhenUp
    OfflineWhenDown
    FanModeConverges
