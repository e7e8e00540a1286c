SPECIFICATION PageSpec
CONSTANTS
    MaxFaults = 3
    MaxLogouts = 1
INVARIANTS TypeOK RestsReady NeverInVain
PROPERTIES NeverStuck PairedLogsIn QRCardEnds ScannableOnScreen
CHECK_DEADLOCK FALSE
