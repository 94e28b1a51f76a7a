SPECIFICATION DaemonSpec
CONSTANTS
    MAXPHASE = 2
    MAXFREQ = 1
    MINSEC = 2
    MAXSEC = 3
    NANOSECOND = 4
    NSPERUS = 1
    SCALE_PPM = 1
    FRAC = 2
    LONG_HALF = 64
    hz = 2
    SHIFT_PLL = 1
    SHIFT_FLL = 0
    PPS_SYNC = FALSE
    PPS_FAVG = 1
    PPS_FAVGDEF = 1
    PPS_FAVGMAX = 2
    PPS_VALID = 2
    StartSecs = {1}
    Requests = {}
    MAXTC = 2
    DAY = 6
    MaxSec = 20
    Offsets = {0}
    MAX_FAILED_SYNCS = 1
    ULONG = 64
    Delays = {0}
    Outages = FALSE
    LeapDay = 1
    LeapKinds = {"LEAP_INS", "LEAP_DEL", "LEAP_NO"}
    PollSeconds = {}
    MaxSettings = 0
    MaxAge = 2
INVARIANTS
    ShowsTrueTime
    RearmedAfterLeap
CHECK_DEADLOCK FALSE
