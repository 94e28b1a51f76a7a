SPECIFICATION ClockSpec
CONSTANTS
    MAXPHASE = 2
    MAXFREQ = 3
    MINSEC = 2
    MAXSEC = 3
    NANOSECOND = 15
    NSPERUS = 1
    SCALE_PPM = 1
    MAXTC = 1
    FRAC = 2
    LONG_HALF = 64
    hz = 3
    DAY = 4
    SHIFT_PLL = 1
    SHIFT_FLL = 0
    PPS_SYNC = FALSE
    PPS_FAVG = 1
    PPS_FAVGDEF = 1
    PPS_FAVGMAX = 2
    PPS_VALID = 2
    StartSecs = {1}
    Requests <- LeapRequests
    Offsets = {}
    MaxSec = 4
    HRC_PERIOD = 2
    HIRES = TRUE
    ULONG = 64
    BootTicks = 16
    MaxLate = 0
    MaxReads = 2
PROPERTIES
    LeapReads
CHECK_DEADLOCK FALSE
