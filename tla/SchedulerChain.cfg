SPECIFICATION Spec
CONSTANTS
    a = a
    b = b
    JID = {a}
    MaxMsg = 3
    MaxGroup = 0
    MaxFile = 0
    Period <- MCPeriod
    Forms <- ChainForms
    Rosters <- NoRoster
    MaxTime = 1
    MaxOutages = 1
    MaxResets = 0
INVARIANTS TypeOK Inv OnePendingPerChain SuccessorExists
PROPERTIES DeletedIsFinal ImplementsDelivery
