SPECIFICATION SessionSpec
CONSTANTS
    b1 = b1
    Browser = {b1}
    Tab = {t1, t2}
    Owner <- OneBrowser
    Work <- AnyPage
    Life = 2
    MaxToken = 3
    MaxTime = 3
    MaxRestarts = 1
SYMMETRY TabSymmetry
INVARIANT SessionInv
PROPERTIES AdmittedInTime RefusedInTime
