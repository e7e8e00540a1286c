SPECIFICATION Spec
CONSTANTS
    a = a
    b = b
    JID = {a, b}
    MaxMsg = 1
    MaxGroup = 2
    MaxFile = 1
    Period <- MCPeriod
    Forms <- GroupForms
    Rosters <- GroupRosters
    MaxTime = 1
    MaxOutages = 1
    MaxResets = 1
INVARIANTS NoDuplicate OnlyIntended
PROPERTY ImplementsDelivery
