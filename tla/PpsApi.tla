------------------------------- MODULE PpsApi -------------------------------
(***************************************************************************)
(* The pulse-per-second API: the user library of timepps.h and the kernel  *)
(* half under it, on the three hosts that have their own: OSF1 (the line   *)
(* discipline of alpha/ppsapi.c), SunOS (the STREAMS module of             *)
(* sunos/ppsapi.c) and Solaris (a kernel interface that is not in this     *)
(* repository).  Clients are processes with at most one handle each.  The  *)
(* DCD interrupt comes between any two words that a fetch copies, and is   *)
(* one step: nothing reads what it has half written, as on one processor.  *)
(* (On several, a fetch on OSF1 could read a new sequence number with the  *)
(* old timestamp, alpha/ppsapi.c:161-169.)  A call with a null handle or   *)
(* argument, or with a format that is refused, changes nothing and has no  *)
(* step here.                                                              *)
(***************************************************************************)
EXTENDS Integers, Sequences

CONSTANTS
    Hosts,          \* the operating systems
    NLINES,         \* number of serial lines, on each host
    Clients,        \* processes that use the API
    Superusers,     \* those with effective user id 0
    Fetchers,       \* those that fetch timestamps
    Settings,       \* what pps_params_t is set to
    Modes,          \* what time_pps_kcbind() asks for
    Formats,        \* the tsformat arguments; {} is zero
    Gaps,           \* times between two DCD interrupts (ns)
    MaxTime,        \* bound on the clock (ns)
    PPS_NANOSECOND, \* nanoseconds in a second
    PPS_FRAC,       \* fractions of a second in the NTP format
    PPS_JAN_1970,   \* seconds from 1900 to 1970
    None            \* no handle, call, line: a null pointer

VARIABLES
    host,           \* the operating system
    now,            \* the clock that nano_time() reads
    handle,         \* for each client, what its handle points to, or None
    call,           \* for each client, the call that it is in, or None
    fetched,        \* for each client, its last pps_info, or None
    handler,        \* for each line, who gets its DCD interrupts
    level,          \* for each line, its DCD at the last interrupt
    pps_info,       \* timestamps, one for each line except on SunOS
    pps_params,     \* OSF1: parameters of each unit
    pps_unit,       \* OSF1: unit that feeds hardpps(), -1 if none
    ppssavedzsops,  \* SunOS: the hooked line's own handler, or None
    ppssavedzscom,  \* SunOS: the hooked line, or None
    pps_kpcmode,    \* SunOS: edges that feed hardpps()
    fed,            \* the last pulse that hardpps() was given, or None
    log             \* ghost: all timestamps that pps_info has had

clientVars == <<handle, call, fetched>>
osfVars == <<pps_params, pps_unit>>
sunVars == <<ppssavedzsops, ppssavedzscom, pps_kpcmode>>
captureVars == <<now, level, pps_info, fed, log>>
apiVars == <<host, clientVars, handler, osfVars, sunVars, captureVars>>

LinesOf(h) == 0 .. NLINES[h] - 1

Lines == UNION {LinesOf(h) : h \in Hosts}

CaptureBits == {"PPS_CAPTUREASSERT", "PPS_CAPTURECLEAR"}
FormatBits == {"PPS_TSFMT_TSPEC", "PPS_TSFMT_NTPFP"}
ModeBits == CaptureBits \cup FormatBits
                \cup {"PPS_OFFSETASSERT", "PPS_OFFSETCLEAR"}

Timespec(sec, nsec) == [tv_sec |-> sec, tv_nsec |-> nsec]

ASSUME ApiAssumption ==
    /\ Hosts \subseteq {"OSF1", "SunOS", "Solaris"}
    /\ NLINES \in [Hosts -> Nat \ {0}]
    /\ {PPS_NANOSECOND, PPS_FRAC, PPS_JAN_1970} \subseteq Nat \ {0}
    /\ Superusers \subseteq Clients /\ Fetchers \subseteq Clients
    /\ Formats \subseteq SUBSET FormatBits
    /\ Modes \subseteq SUBSET CaptureBits

(* Faulty: the timestamps are in front of the sequence numbers.            *)
Words_TimesFirst ==
    <<"assert_sec", "assert_nsec", "clear_sec", "clear_nsec",
      "assert_sequence", "clear_sequence">>

(* pps_info_t, word by word as it is copied.                               *)
Words ==
    <<"assert_sequence", "clear_sequence",
      "assert_sec", "assert_nsec", "clear_sec", "clear_nsec">>

Info(m, t, n, u) ==
    [assert_sequence |-> m, clear_sequence |-> n,
     assert_sec |-> t.tv_sec, assert_nsec |-> t.tv_nsec,
     clear_sec |-> u.tv_sec, clear_nsec |-> u.tv_nsec]

assert_timestamp(info) == Timespec(info.assert_sec, info.assert_nsec)
clear_timestamp(info) == Timespec(info.clear_sec, info.clear_nsec)

NoInfo == Info(0, Timespec(0, 0), 0, Timespec(0, 0))

(* What a pps_info_t and a struct timespec may hold.                       *)
Infos ==
    [assert_sequence : Nat, clear_sequence : Nat,
     assert_sec : Int, assert_nsec : Int, clear_sec : Int, clear_nsec : Int]

Timespecs == [tv_sec : Int, tv_nsec : Int]

(* pps_params_t, and what a new handle has.                                *)
Params(mode, assert, clear) ==
    [mode |-> mode, assert_offset |-> assert, clear_offset |-> clear]

DefaultParams ==
    Params({"PPS_CAPTUREASSERT", "PPS_TSFMT_TSPEC"},
           Timespec(0, 0), Timespec(0, 0))

(* pps_unit_t, which a handle points to.                                   *)
Units ==
    [filedes : Lines, linedisc : {"own", "pps"},
     params : Settings \cup {DefaultParams}]

(* A fetch that has copied some of the words.                              *)
FetchCalls ==
    [op : {"fetch"}, tsf : SUBSET FormatBits, copied : 0 .. Len(Words) - 1,
     info : Infos]

ASSUME SettingsAssumption ==
    /\ Settings \subseteq [mode : SUBSET ModeBits, assert_offset : Timespecs,
                           clear_offset : Timespecs]
    /\ Gaps \subseteq Nat

ASSUME NoneAssumption ==
    /\ None \notin Units /\ None \notin Lines /\ None # "own"
    /\ None \notin FetchCalls

ApiInit ==
    /\ host \in Hosts
    /\ now = 0
    /\ handle = [c \in Clients |-> None]
    /\ call = [c \in Clients |-> None]
    /\ fetched = [c \in Clients |-> None]
    /\ handler = [u \in Lines |-> "own"]
    /\ level = [u \in Lines |-> FALSE]
    /\ pps_info = [u \in Lines |-> NoInfo]
    /\ pps_params = [u \in Lines |-> Params({}, Timespec(0, 0), Timespec(0, 0))]
    /\ pps_unit = -1
    /\ ppssavedzsops = None
    /\ ppssavedzscom = None
    /\ pps_kpcmode = {}
    /\ fed = None
    /\ log = [u \in Lines |-> [assert |-> <<>>, clear |-> <<>>]]

(***************************************************************************)
(* Timestamps.                                                             *)
(***************************************************************************)
PPS_NORMALIZE(t) ==
    IF t.tv_nsec >= PPS_NANOSECOND
    THEN Timespec(t.tv_sec + 1, t.tv_nsec - PPS_NANOSECOND)
    ELSE IF t.tv_nsec < 0
    THEN Timespec(t.tv_sec - 1, t.tv_nsec + PPS_NANOSECOND)
    ELSE t

Offset(t, o) ==
    PPS_NORMALIZE(Timespec(t.tv_sec + o.tv_sec, t.tv_nsec + o.tv_nsec))

AssertOffset(t, p) ==
    IF "PPS_OFFSETASSERT" \in p.mode THEN Offset(t, p.assert_offset) ELSE t

ClearOffset(t, p) ==
    IF "PPS_OFFSETCLEAR" \in p.mode THEN Offset(t, p.clear_offset) ELSE t

(* The words of the two formats share a union; a host whose timespec has   *)
(* padding between the seconds and the nanoseconds, where the fraction is, *)
(* is left out.                                                            *)
PPS_TSPECTONTP(t) ==
    Timespec(t.tv_sec + PPS_JAN_1970,
             (t.tv_nsec * PPS_FRAC) \div PPS_NANOSECOND)

InFormat(t, tsf) ==
    IF tsf = {"PPS_TSFMT_NTPFP"} THEN PPS_TSPECTONTP(t) ELSE t

(* The info that time_pps_fetch() returns for the one that it has copied.  *)
Returned(info, p, tsf) ==
    Info(info.assert_sequence,
         InFormat(AssertOffset(assert_timestamp(info), p), tsf),
         info.clear_sequence,
         InFormat(ClearOffset(clear_timestamp(info), p), tsf))

(***************************************************************************)
(* The DCD interrupt.  It reports the line's level, whether or not that is *)
(* what has changed; transitions may also have been missed.                *)
(***************************************************************************)
nano_time == Timespec(now' \div PPS_NANOSECOND, now' % PPS_NANOSECOND)

Latched(info, edge, t) ==
    IF edge
    THEN Info(info.assert_sequence + 1, t,
              info.clear_sequence, clear_timestamp(info))
    ELSE Info(info.assert_sequence, assert_timestamp(info),
              info.clear_sequence + 1, t)

Capture(p, u, edge, t, feed) ==
    /\ pps_info' = [pps_info EXCEPT ![p] = Latched(@, edge, t)]
    /\ log' = IF edge THEN [log EXCEPT ![p].assert = Append(@, t)]
              ELSE [log EXCEPT ![p].clear = Append(@, t)]
    /\ fed' = IF feed THEN [line |-> u, stamp |-> t] ELSE fed

NoCapture == UNCHANGED <<pps_info, log, fed>>

CaptureBit(edge) == IF edge THEN "PPS_CAPTUREASSERT" ELSE "PPS_CAPTURECLEAR"

Transition(u, edge) == edge # level[u]

(* OSF1: pps_dcd(), for a line in the PPS discipline.                      *)
pps_dcd(u, edge) ==
    LET p == pps_params[u]
        t == IF edge THEN AssertOffset(nano_time, p)
             ELSE ClearOffset(nano_time, p)
    IN  /\ IF Transition(u, edge)
           THEN Capture(u, u, edge, t,
                        u = pps_unit /\ CaptureBit(edge) \in p.mode)
           ELSE NoCapture
        /\ level' = [level EXCEPT ![u] = edge]

(* SunOS: ppsapi_intr(), on the line that it is hooked to.  What is not a  *)
(* transition goes to the handler that was there before, which does not    *)
(* touch any of this.                                                      *)
ppsapi_intr(u, edge) ==
    /\ IF Transition(u, edge)
       THEN Capture(0, u, edge, nano_time, CaptureBit(edge) \in pps_kpcmode)
       ELSE NoCapture
    /\ level' = [level EXCEPT ![u] = edge]

(* Solaris, not in the repository: the kernel stamps assert edges.         *)
SolarisDcd(u, edge) ==
    /\ IF edge /\ ~level[u] THEN Capture(u, u, edge, nano_time, FALSE)
       ELSE NoCapture
    /\ level' = [level EXCEPT ![u] = edge]

(* A line that is not attached is the serial driver's, which on SunOS      *)
(* keeps za_rr0 up to date as well.                                        *)
OwnDcd(u, edge) ==
    /\ NoCapture
    /\ level' = IF host = "SunOS" THEN [level EXCEPT ![u] = edge] ELSE level

DcdInterrupt(u, edge, gap) ==
    /\ now + gap <= MaxTime
    /\ now' = now + gap
    /\ CASE handler[u] = "own" -> OwnDcd(u, edge)
         [] handler[u] = "pps" /\ host = "OSF1" -> pps_dcd(u, edge)
         [] handler[u] = "pps" /\ host = "SunOS" -> ppsapi_intr(u, edge)
         [] handler[u] = "pps" /\ host = "Solaris" -> SolarisDcd(u, edge)
    /\ UNCHANGED <<host, clientVars, handler, osfVars, sunVars>>

(***************************************************************************)
(* SunOS: opening and closing a stream of the module.                      *)
(***************************************************************************)

(* Faulty: a second stream hooks as well.                                  *)
ppsapi_open_Again(u) ==
    /\ ppssavedzsops' = handler[u]
    /\ ppssavedzscom' = u
    /\ handler' = [handler EXCEPT ![u] = "pps"]

(* I_PUSH: the first stream hooks its line, the others are only opened.    *)
ppsapi_open(u) ==
    IF ppssavedzsops = None
    THEN /\ ppssavedzsops' = handler[u]
         /\ ppssavedzscom' = u
         /\ handler' = [handler EXCEPT ![u] = "pps"]
    ELSE UNCHANGED <<ppssavedzsops, ppssavedzscom, handler>>

(* I_POP: whichever stream is closed, the hook is taken off.               *)
ppsapi_close ==
    IF ppssavedzsops # None
    THEN /\ handler' = [handler EXCEPT ![ppssavedzscom] = ppssavedzsops]
         /\ ppssavedzscom' = None
         /\ ppssavedzsops' = None
    ELSE UNCHANGED <<ppssavedzsops, ppssavedzscom, handler>>

(***************************************************************************)
(* The calls of the library.                                               *)
(***************************************************************************)
Free(c) == call[c] = None

Opened(c) == handle[c] # None

NewHandle(u) ==
    [filedes |-> u, linedisc |-> handler[u], params |-> DefaultParams]

(* time_pps_create() on a serial line, which it never fails to attach.     *)
time_pps_create(c, u) ==
    /\ Free(c) /\ ~Opened(c)
    /\ handle' = [handle EXCEPT ![c] = NewHandle(u)]
    /\ IF host = "SunOS" THEN ppsapi_open(u)
       ELSE /\ handler' = [handler EXCEPT ![u] = "pps"]
            /\ UNCHANGED <<ppssavedzsops, ppssavedzscom>>
    /\ UNCHANGED <<host, call, fetched, osfVars, pps_kpcmode, captureVars>>

(* time_pps_destroy().  OSF1 returns to the line discipline that the       *)
(* handle found, Solaris leaves the line attached.                         *)
time_pps_destroy(c) ==
    /\ Free(c) /\ Opened(c)
    /\ \/ /\ host = "OSF1"
          /\ handler' = [handler EXCEPT ![handle[c].filedes] =
                            handle[c].linedisc]
          /\ UNCHANGED <<ppssavedzsops, ppssavedzscom>>
       \/ /\ host = "SunOS"
          /\ ppsapi_close
       \/ /\ host = "Solaris"
          /\ UNCHANGED <<handler, ppssavedzsops, ppssavedzscom>>
    /\ handle' = [handle EXCEPT ![c] = None]
    /\ fetched' = [fetched EXCEPT ![c] = None]
    /\ UNCHANGED <<host, call, osfVars, pps_kpcmode, captureVars>>

time_pps_setparams(c, params) ==
    /\ Free(c) /\ Opened(c)
    /\ handle' = [handle EXCEPT ![c].params = params]
    /\ UNCHANGED <<host, call, fetched, handler, osfVars, sunVars,
                   captureVars>>

(* time_pps_fetch(): on Solaris at once, elsewhere word by word.  A format *)
(* of zero stands for the handle's on OSF1 only.                           *)
Tsf(c, tsformat) ==
    IF host = "OSF1" /\ tsformat = {}
    THEN handle[c].params.mode \cap FormatBits ELSE tsformat

Fetched(c, info, tsf) ==
    fetched' = [fetched EXCEPT ![c] =
        [info |-> Returned(info, handle[c].params, tsf),
         params |-> handle[c].params, tsf |-> tsf,
         current_mode |-> handle[c].params.mode]]

SolarisFetch(c, tsformat) ==
    /\ host = "Solaris"
    /\ Free(c) /\ Opened(c)
    /\ tsformat \in {{f} : f \in FormatBits}
    /\ Fetched(c, pps_info[handle[c].filedes], tsformat)
    /\ UNCHANGED <<host, handle, call, handler, osfVars, sunVars,
                   captureVars>>

FetchBegin(c, tsformat) ==
    /\ host # "Solaris"
    /\ Free(c) /\ Opened(c)
    /\ Tsf(c, tsformat) \in {{f} : f \in FormatBits}
    /\ call' = [call EXCEPT ![c] =
                   [op |-> "fetch", tsf |-> Tsf(c, tsformat),
                    copied |-> 0, info |-> NoInfo]]
    /\ UNCHANGED <<host, handle, fetched, handler, osfVars, sunVars,
                   captureVars>>

Unit(c) == IF host = "SunOS" THEN 0 ELSE handle[c].filedes

FetchWord(c) ==
    /\ call[c] # None /\ call[c].op = "fetch"
    /\ LET word == Words[call[c].copied + 1]
           info == [call[c].info EXCEPT ![word] = pps_info[Unit(c)][word]]
       IN  IF call[c].copied + 1 < Len(Words)
           THEN /\ call' = [call EXCEPT ![c] =
                               [op |-> "fetch", tsf |-> call[c].tsf,
                                copied |-> call[c].copied + 1, info |-> info]]
                /\ UNCHANGED fetched
           ELSE /\ Fetched(c, info, call[c].tsf)
                /\ call' = [call EXCEPT ![c] = None]
    /\ UNCHANGED <<host, handle, handler, osfVars, sunVars, captureVars>>

(* time_pps_kcbind(): the parameters go to the kernel on OSF1, and then    *)
(* the mode; on Solaris nothing does.                                      *)
KcbindParams(c, mode) ==
    /\ host = "OSF1"
    /\ Free(c) /\ Opened(c) /\ c \in Superusers
    /\ pps_params' = [pps_params EXCEPT ![handle[c].filedes] =
                         handle[c].params]
    /\ call' = [call EXCEPT ![c] = [op |-> "kcbind", mode |-> mode]]
    /\ UNCHANGED <<host, handle, fetched, handler, pps_unit, sunVars,
                   captureVars>>

OsfKpcbind(c) ==
    /\ call[c] # None /\ call[c].op = "kcbind"
    /\ pps_unit' = IF call[c].mode # {} THEN handle[c].filedes ELSE -1
    /\ call' = [call EXCEPT ![c] = None]
    /\ UNCHANGED <<host, handle, fetched, handler, pps_params, sunVars,
                   captureVars>>

SunKpcbind(c, mode) ==
    /\ host = "SunOS"
    /\ Free(c) /\ Opened(c) /\ c \in Superusers
    /\ pps_kpcmode' = mode
    /\ UNCHANGED <<host, clientVars, handler, osfVars, ppssavedzsops,
                   ppssavedzscom, captureVars>>

ApiNext ==
    \/ \E u \in LinesOf(host), edge \in BOOLEAN, gap \in Gaps :
           DcdInterrupt(u, edge, gap)
    \/ \E c \in Clients :
           \/ \E u \in LinesOf(host) : time_pps_create(c, u)
           \/ time_pps_destroy(c)
           \/ \E params \in Settings : time_pps_setparams(c, params)
           \/ FetchWord(c)
           \/ \E mode \in Modes :
                  KcbindParams(c, mode) \/ SunKpcbind(c, mode)
           \/ OsfKpcbind(c)
    \/ \E c \in Fetchers, tsformat \in Formats :
           FetchBegin(c, tsformat) \/ SolarisFetch(c, tsformat)

ApiSpec == ApiInit /\ [][ApiNext]_apiVars

(***************************************************************************)
(* Properties.                                                             *)
(***************************************************************************)

(* The info that a fetch of certain sequence numbers ought to return.      *)
Stamp(stamps, n) == IF n = 0 THEN Timespec(0, 0) ELSE stamps[n]

Whole(p, f) ==
    LET m == f.info.assert_sequence
        n == f.info.clear_sequence
    IN  f.info = Returned(Info(m, Stamp(log[p].assert, m),
                               n, Stamp(log[p].clear, n)),
                          f.params, f.tsf)

Numbers(f) == <<f.info.assert_sequence, f.info.clear_sequence>>

(* pps_info is copied while the interrupt fills it, without a lock, so     *)
(* that a fetch may return the number of one pulse and half the time of    *)
(* the next.  But a client that fetches again and gets the same sequence   *)
(* numbers knows that what it got first belonged together.                 *)
FetchReturns(c) ==
    \/ host = "Solaris" /\ fetched'[c] # fetched[c]
    \/ call[c] # None /\ call[c].op = "fetch" /\ call'[c] = None

RereadConfirms ==
    [][ \A c \in Clients :
            /\ FetchReturns(c)
            /\ fetched[c] # None /\ fetched'[c] # None
            /\ Numbers(fetched'[c]) = Numbers(fetched[c])
            => Whole(Unit(c), fetched[c]) ]_apiVars

(* SunOS: in whatever order streams are opened and closed, the handler     *)
(* that interrupts are passed on to is the serial driver's own, never the  *)
(* module's (that would call itself), the line that is put right on close  *)
(* is the hooked one, and no line stays hooked after the last close.       *)
HookSound ==
    host = "SunOS" =>
        /\ \A u \in Lines : handler[u] = "pps" =>
               /\ ppssavedzscom = u
               /\ \E c \in Clients : Opened(c) /\ handle[c].filedes = u
        /\ ppssavedzscom # None =>
               /\ ppssavedzsops = "own"
               /\ handler[ppssavedzscom] = "pps"
=============================================================================
