SPECIFICATION DirectSpec
CONSTANTS
    JID = {a, b}
    MaxMsg = 0
    MaxGroup = 2
    MaxFile = 1
    Period <- NoPeriod
    MaxClicks = 1
    MaxOutages = 1
INVARIANTS DirectInv OncePerClick OnlyMeant
PROPERTY EveryClickEnds
