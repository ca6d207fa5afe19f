SPECIFICATION Spec
CONSTANTS
    media = media
    homes = homes
    switch = switch
    service = service
    Keep = Keep
    Nothing = Nothing
    Missing = Missing
    Tasks <- MCTasks
    Targets <- MCOneTarget
    Types <- MCTypes
    TypeOf <- MCTypeOf
    NameOf <- MCNameOf
    Paths <- MCPaths
    Firmwares <- MCFirmwares
    Edits <- MCEdits
    Asks <- MCAsks
    MaxCalls = 2
    MaxEdits = 1
    LimitInputs <- MCLimits
    TimeInputs <- MCTimes
    WeekdayInputs <- MCWeekdays
    MonthdayInputs <- MCMonthdays
SYMMETRY MCSymmetry
INVARIANTS
    TypeOK
    EffectIsReported
PROPERTIES
    ChangesOnlyWhatWasAsked
    BlockedOnlyWhenRefused
