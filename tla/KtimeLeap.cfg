SPECIFICATION FairSpec
CONSTANTS
    MAXPHASE = 2
    MAXFREQ = 1
    MINSEC = 2
    MAXSEC = 9
    NANOSECOND = 4
    NSPERUS = 1
    SCALE_PPM = 1
    MAXTC = 1
    FRAC = 2
    LONG_HALF = 64
    hz = 2
    DAY = 4
    SHIFT_PLL = 0
    SHIFT_FLL = 0
    PPS_SYNC = FALSE
    PPS_FAVG = 1
    PPS_FAVGDEF = 1
    PPS_FAVGMAX = 2
    PPS_VALID = 2
    StartSecs = {2}
    Requests <- LeapRequests
    Offsets = {2}
    MaxSec = 9
INVARIANTS
    TypeOK
    OffsetSettles
    LeapAtMidnight
    ReftimeNotAhead
PROPERTIES
    ForwardOutsideLeap
    TaiContinuous
    RefinesUtc
    InsertionHappens
    LeapSecondEnds
