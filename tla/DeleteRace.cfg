SPECIFICATION Spec
CONSTANTS
    a = a
    b = b
    JID = {a}
    MaxMsg = 2
    MaxGroup = 0
    MaxFile = 0
    Period <- MCPeriod
    Forms <- ChainForms
    Rosters <- NoRoster
    MaxTime = 1
    MaxOutages = 0
    MaxResets = 0
PROPERTY DeletedPlanEnds
