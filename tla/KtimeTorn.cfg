SPECIFICATION PpsSpec
CONSTANTS
    MAXPHASE = 16
    MAXFREQ = 2
    MINSEC = 2
    MAXSEC = 3
    NANOSECOND = 32
    NSPERUS = 4
    SCALE_PPM = 1
    MAXTC = 1
    FRAC = 8
    LONG_HALF = 512
    hz = 2
    DAY = 100
    SHIFT_PLL = 1
    SHIFT_FLL = 0
    PPS_SYNC = TRUE
    PPS_FAVG = 1
    PPS_FAVGDEF = 1
    PPS_FAVGMAX = 2
    PPS_VALID = 2
    StartSecs = {1}
    Requests <- PpsRequests
    Offsets <- FarOffsets
    MaxSec = 6
    PPS_MAXWANDER = 1
    PPS_POPCORN = 2
    Drifts = {0}
    Jitter <- FarPhases
    Spikes = {}
PROPERTIES
    UpdatedAtomically
CHECK_DEADLOCK FALSE
