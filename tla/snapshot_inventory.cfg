SPECIFICATION Spec
CONSTANTS
    guest = guest
    media = media
    Targets <- MCTargets
    TypeOf <- MCTypeOf
    Foreign <- MCForeign
    Lists <- MCLists
    MaxServiceReads = 2
INVARIANTS
    RequestSurvives
    InventoryIsListed
    SkippedWasRefused
    ButtonLostWasRefused
