SPECIFICATION Spec
CONSTANTS
    media = media
    homes = homes
    Targets <- MCTargets
    Types <- MCTypes
    TypeOf <- MCTypeOf
    Lists <- MCLists
    Actions <- MCActions
    MaxServiceReads = 1
INVARIANTS
    MissingIssueFollowsCount
    EachListCountsOnce
PROPERTIES
    MissingIsReported
    ReturnedTargetIsCleared
    ReadIssueIsCleared
