SPECIFICATION FairSpec
CONSTANTS
    MaxFolder = 2
    MaxFile = 2
    MaxPath = 2
    MaxStops = 1
INVARIANTS TypeOK OnlyEarlyLoop
PROPERTIES OnlyAskedVanish ImplementsMedia DeletionEnds
