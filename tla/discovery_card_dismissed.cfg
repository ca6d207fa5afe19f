SPECIFICATION Spec
CONSTANTS
    a = a
    b = b
    a1 = a1
    b1 = b1
    Consoles = {a, b}
    Hosts = {h1, h2}
    Macs = {a1, b1}
    Owner <- MCOwner
    SystemMac <- MCSystemMac
    Kinds <- MCKinds
    Flows = {f1, f2}
    MaxEntries = 2
    MaxEvents = 1
    MaxFound = 1
    Garbled = Garbled
    Nothing = Nothing
PROPERTIES
    ConflictingCardStays
CHECK_DEADLOCK FALSE
