SPECIFICATION Spec
CONSTANTS
    MAXPHASE = 8
    MAXFREQ = 2
    MINSEC = 2
    MAXSEC = 2
    NANOSECOND = 16
    NSPERUS = 4
    SCALE_PPM = 2
    MAXTC = 1
    FRAC = 32
    LONG_HALF = 40
    hz = 2
    DAY = 4
    SHIFT_PLL = 1
    SHIFT_FLL = 0
    PPS_SYNC = FALSE
    PPS_FAVG = 1
    PPS_FAVGDEF = 1
    PPS_FAVGMAX = 2
    PPS_VALID = 2
    StartSecs = {1}
    Requests <- LoopRequests
    Offsets <- LoopOffsets
    MaxSec = 5
INVARIANTS
    Normalized
    Envelope
    RunsForward
PROPERTIES
    NoOvershoot
    SteersTowardOffset
