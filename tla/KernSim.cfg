SPECIFICATION SimSpec
CONSTANTS
    MAXPHASE = 512
    MAXFREQ = 64
    MINSEC = 4
    MAXSEC = 8
    NANOSECOND = 1024
    NSPERUS = 8
    SCALE_PPM = 1
    MAXTC = 1
    FRAC = 256
    LONG_HALF = 1048576
    hz = 4
    DAY = 10000
    SHIFT_PLL = 2
    SHIFT_FLL = 0
    PPS_SYNC = TRUE
    PPS_FAVG = 1
    PPS_FAVGDEF = 2
    PPS_FAVGMAX = 3
    PPS_VALID = 4
    StartSecs = {0}
    Requests = {}
    Offsets = {}
    MaxSec = 1000
    PPS_MAXWANDER = 16
    PPS_POPCORN = 2
    Drifts = {0}
    Jitter = {0}
    Spikes = {}
    NCPUS = 2
    PCC_RANGE = 16384
    CPU_CLOCK = 4096
    CommandLines <- SimLines
    cpu_clock <- Counters
    Settled = 286720
    Tolerance = 25
INVARIANTS
    LoopConverges
PROPERTIES
    ReadsLater
CHECK_DEADLOCK FALSE
