SPECIFICATION FairSpec
CONSTANTS
    a = a
    b = b
    JID = {a}
    MaxMsg = 2
    MaxGroup = 1
    MaxFile = 0
    Period <- MCPeriod
    Forms <- SettleForms
    Rosters <- FullRoster
    MaxTime = 1
    MaxOutages = 1
    MaxResets = 0
PROPERTY Settles
