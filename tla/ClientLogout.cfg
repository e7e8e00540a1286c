SPECIFICATION FairSpec
CONSTANTS
    MaxFaults = 1
    MaxLogouts = 1
PROPERTY LogoutShowsQR
CHECK_DEADLOCK FALSE
