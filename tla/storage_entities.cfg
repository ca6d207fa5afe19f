SPECIFICATION Spec
CONSTANTS
    media = media
    backup = backup
    d1 = d1
    d2 = d2
    d3 = d3
    c1 = c1
    Nothing = Nothing
    Pools <- MCPools
    Drives <- MCDrives
    Slugs <- MCSlugs
    Machine <- MCMachine
    Lasting <- MCLasting
    Numeral <- MCNumeral
    Value <- MCValue
    Token <- MCToken
    Payloads <- MCPayloads
    MaxAnswers = 3
INVARIANTS
    OwnDataOnly
    ListedIsShown
    ShownIsCurrent
