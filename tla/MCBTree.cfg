SPECIFICATION Spec
CONSTANTS
    t = 2
    Keys <- MCKeys
    Value <- MCValue
INVARIANTS CheckInvariants HoldsItsContents RangeIsExact RemovalNeverBacktracks
