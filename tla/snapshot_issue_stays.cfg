SPECIFICATION Spec
CONSTANTS
    media = media
    homes = homes
    Targets <- MCTargets
    Types <- MCTypes
    TypeOf <- MCTypeOf
    Lists <- MCLists
    Actions <- MCActions
    MaxServiceReads = 1
PROPERTIES
    PresentTargetHasNoIssue
