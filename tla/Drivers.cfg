SPECIFICATION DriversSpec
CONSTANTS
    c1 = c1
    c2 = c2
    None = None
    Hosts = {"OSF1", "SunOS", "Solaris"}
    NLINES <- HostLines
    Clients = {c1, c2}
    Superusers = {c2}
    Fetchers = {c1}
    Settings <- PpsSettings
    Modes = {{}, {"PPS_CAPTUREASSERT"}}
    Formats = {{}, {"PPS_TSFMT_TSPEC"}}
    Gaps = {3}
    MaxTime = 6
    PPS_NANOSECOND = 4
    PPS_FRAC = 8
    PPS_JAN_1970 = 1
    MICROS = 6
    W0 = 4
    W2 = 2
    TICK = 3
    HIGHDIFF = 1
    Boards = {TRUE, FALSE}
    Counts = {4}
    SystemTimes = {2}
    MaxCount = 13
    Advances = {1, 3, 6}
    DAY = 2
    DAYS = 3
    MAXDIFF = 1
    Leads <- TproLeads
    BoardTimes = {1, 5, 16}
    MaxIrig = 40
    HALFBITS = 2
INVARIANTS
    HookSound
    PairsImplementFixed
    HighReads
PROPERTIES
    RereadConfirms
    AnswersIrig
CHECK_DEADLOCK FALSE
