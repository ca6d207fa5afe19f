SPECIFICATION Spec
CONSTANTS
    old = old
    new = new
    plain = plain
    wol = wol
    Mac = Mac
    Nothing = Nothing
    Profiles <- MCProfiles
    Options <- MCOptions
    WolOptions <- MCWolOptions
    Facts = {Mac}
    MaxReloads = 2
INVARIANTS
    SavedOptionsApply
