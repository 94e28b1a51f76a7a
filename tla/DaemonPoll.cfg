SPECIFICATION FairDaemonSpec
CONSTANTS
    MAXPHASE = 2
    MAXFREQ = 1
    MINSEC = 2
    MAXSEC = 3
    NANOSECOND = 4
    NSPERUS = 1
    SCALE_PPM = 1
    FRAC = 2
    LONG_HALF = 64
    hz = 2
    SHIFT_PLL = 1
    SHIFT_FLL = 0
    PPS_SYNC = FALSE
    PPS_FAVG = 1
    PPS_FAVGDEF = 1
    PPS_FAVGMAX = 2
    PPS_VALID = 2
    StartSecs = {1}
    Requests = {}
    MAXTC = 4
    DAY = 6
    MaxSec = 1
    Offsets = {3}
    MAX_FAILED_SYNCS = 1
    ULONG = 64
    Delays = {8, 20}
    Outages = TRUE
    LeapDay = 5
    LeapKinds = {"LEAP_NO"}
    PollSeconds = {80, 120}
    MaxSettings = 1
    MaxAge = 0
INVARIANTS
    BestShot
    DropsBounded
PROPERTIES
    SilenceTold
    ClosestInterval
    Resynchronizes
