---------------------------- MODULE PpsApiProofs ----------------------------
(***************************************************************************)
(* Proofs about PpsApi, for any number of lines and clients: the SunOS     *)
(* STREAMS module never hooks itself and never forgets a hook, and a       *)
(* client that fetches twice can tell a torn timestamp.                    *)
(***************************************************************************)
EXTENDS PpsApi, TLAPS

(* Either no line is hooked, or one is, by a stream that is still open, and*)
(* what has been saved is the serial driver's own handler.                 *)
Unhooked == ppssavedzsops = None /\ ppssavedzscom = None

Hooked ==
    /\ ppssavedzsops = "own"
    /\ ppssavedzscom \in Lines
    /\ handler[ppssavedzscom] = "pps"
    /\ \E c \in Clients : Opened(c) /\ handle[c].filedes = ppssavedzscom

SunInv ==
    /\ handle \in [Clients -> Units \cup {None}]
    /\ handler \in [Lines -> {"own", "pps"}]
    /\ Unhooked \/ Hooked
    /\ \A u \in Lines : u # ppssavedzscom => handler[u] = "own"

HookInv == host \in Hosts /\ (host = "SunOS" => SunInv)

hookVars == <<handle, handler, ppssavedzsops, ppssavedzscom>>

LEMMA HookInitInv == ApiInit => HookInv
  BY NoneAssumption DEF ApiInit, HookInv, SunInv, Unhooked

(* What leaves the handles and the hook alone leaves the invariant alone.  *)
LEMMA HookStutter ==
    ASSUME HookInv, UNCHANGED <<host, hookVars>>
    PROVE  HookInv'
  BY DEF HookInv, SunInv, Unhooked, Hooked, Opened, hookVars, LinesOf, Lines

LEMMA HostLines_Lines == ASSUME host \in Hosts PROVE LinesOf(host) \subseteq Lines
  BY DEF Lines

(* A new handle is one more; who was open remains open.                    *)
LEMMA CreateInv ==
    ASSUME HookInv, NEW c \in Clients, NEW u \in LinesOf(host),
           time_pps_create(c, u)
    PROVE  HookInv'
  <1> SUFFICES ASSUME host = "SunOS" PROVE SunInv'
    BY DEF HookInv, time_pps_create
  <1>1. SunInv /\ u \in Lines /\ handle[c] = None
    BY HostLines_Lines DEF HookInv, time_pps_create, Opened
  <1>2. handle' = [handle EXCEPT ![c] = NewHandle(u)] /\ ppsapi_open(u)
    BY DEF time_pps_create
  <1>3. NewHandle(u) \in Units
    BY <1>1 DEF NewHandle, Units, SunInv
  <1>4. handle' \in [Clients -> Units \cup {None}]
    BY <1>1, <1>2, <1>3 DEF SunInv
  <1>5. Opened(c)' /\ handle'[c].filedes = u
    BY <1>1, <1>2, <1>3, NoneAssumption DEF Opened, SunInv, NewHandle
  <1>6. CASE Unhooked
    <2>1. /\ ppssavedzsops' = handler[u] /\ ppssavedzscom' = u
          /\ handler' = [handler EXCEPT ![u] = "pps"]
      BY <1>2, <1>6 DEF ppsapi_open, Unhooked
    <2>2. handler[u] = "own"
      BY <1>1, <1>6, NoneAssumption DEF SunInv, Unhooked
    <2>3. Hooked'
      BY <1>1, <1>5, <2>1, <2>2 DEF Hooked, SunInv
    <2>4. handler' \in [Lines -> {"own", "pps"}]
          /\ \A v \in Lines : v # ppssavedzscom' => handler'[v] = "own"
      BY <1>1, <1>6, <2>1, NoneAssumption DEF SunInv, Unhooked
    <2> QED BY <1>4, <2>3, <2>4 DEF SunInv
  <1>7. CASE Hooked
    <2>1. UNCHANGED <<ppssavedzsops, ppssavedzscom, handler>>
      BY <1>2, <1>7, NoneAssumption DEF ppsapi_open, Hooked
    <2>2. PICK d \in Clients : Opened(d) /\ handle[d].filedes = ppssavedzscom
      BY <1>7 DEF Hooked
    <2>3. d # c
      BY <1>1, <2>2 DEF Opened
    <2>4. handle'[d] = handle[d]
      BY <1>1, <1>2, <2>3 DEF SunInv
    <2>5. Opened(d)' /\ handle'[d].filedes = ppssavedzscom'
      BY <2>1, <2>2, <2>4 DEF Opened
    <2>6. Hooked'
      BY <1>7, <2>1, <2>5 DEF Hooked
    <2> QED BY <1>1, <1>4, <2>1, <2>6 DEF SunInv
  <1> QED BY <1>1, <1>6, <1>7 DEF SunInv

(* Whichever stream is closed, the hook is gone.                           *)
LEMMA DestroyInv ==
    ASSUME HookInv, NEW c \in Clients, time_pps_destroy(c)
    PROVE  HookInv'
  <1> SUFFICES ASSUME host = "SunOS" PROVE SunInv'
    BY DEF HookInv, time_pps_destroy
  <1>1. SunInv
    BY DEF HookInv
  <1>2. handle' = [handle EXCEPT ![c] = None] /\ ppsapi_close
    BY DEF time_pps_destroy
  <1>3. handle' \in [Clients -> Units \cup {None}]
    BY <1>1, <1>2 DEF SunInv
  <1>4. CASE Unhooked
    <2>1. UNCHANGED <<ppssavedzsops, ppssavedzscom, handler>>
      BY <1>2, <1>4 DEF ppsapi_close, Unhooked
    <2> QED BY <1>1, <1>3, <1>4, <2>1 DEF SunInv, Unhooked
  <1>5. CASE Hooked
    <2>1. /\ handler' = [handler EXCEPT ![ppssavedzscom] = "own"]
          /\ ppssavedzscom' = None /\ ppssavedzsops' = None
      BY <1>2, <1>5, NoneAssumption DEF ppsapi_close, Hooked
    <2>2. handler' \in [Lines -> {"own", "pps"}]
          /\ \A v \in Lines : handler'[v] = "own"
      BY <1>1, <1>5, <2>1 DEF SunInv, Hooked
    <2> QED BY <1>3, <2>1, <2>2 DEF SunInv, Unhooked
  <1> QED BY <1>1, <1>4, <1>5 DEF SunInv

(* Setting parameters keeps the handle's file.                             *)
LEMMA SetparamsInv ==
    ASSUME HookInv, NEW c \in Clients, NEW params \in Settings,
           time_pps_setparams(c, params)
    PROVE  HookInv'
  <1> SUFFICES ASSUME host = "SunOS" PROVE SunInv'
    BY DEF HookInv, time_pps_setparams
  <1>1. SunInv /\ handle[c] \in Units
    BY DEF HookInv, time_pps_setparams, Opened, SunInv
  <1>2. /\ handle' = [handle EXCEPT ![c] = [handle[c] EXCEPT !.params = params]]
        /\ UNCHANGED <<handler, ppssavedzsops, ppssavedzscom>>
    BY DEF time_pps_setparams, sunVars
  <1> DEFINE unit == [handle[c] EXCEPT !.params = params]
  <1>3. unit \in Units /\ unit.filedes = handle[c].filedes
    BY <1>1 DEF Units
  <1> HIDE DEF unit
  <1>4. handle' = [handle EXCEPT ![c] = unit]
    BY <1>2 DEF unit
  <1>5. handle' \in [Clients -> Units \cup {None}]
    BY <1>1, <1>3, <1>4 DEF SunInv
  <1>6. ASSUME NEW d \in Clients, Opened(d)
        PROVE  Opened(d)' /\ handle'[d].filedes = handle[d].filedes
    BY <1>1, <1>3, <1>4, <1>6, NoneAssumption DEF SunInv, Opened
  <1>7. Hooked => Hooked'
    BY <1>2, <1>6 DEF Hooked
  <1> QED BY <1>1, <1>2, <1>5, <1>7 DEF SunInv, Unhooked

LEMMA HookStep == HookInv /\ [ApiNext]_apiVars => HookInv'
  <1> SUFFICES ASSUME HookInv, [ApiNext]_apiVars PROVE HookInv'
    OBVIOUS
  <1>1. CASE \E u \in LinesOf(host), edge \in BOOLEAN, gap \in Gaps :
                 DcdInterrupt(u, edge, gap)
    BY <1>1, HookStutter DEF DcdInterrupt, clientVars, sunVars, hookVars
  <1>2. CASE \E c \in Clients : \E u \in LinesOf(host) : time_pps_create(c, u)
    BY <1>2, CreateInv
  <1>3. CASE \E c \in Clients : time_pps_destroy(c)
    BY <1>3, DestroyInv
  <1>4. CASE \E c \in Clients : \E params \in Settings :
                 time_pps_setparams(c, params)
    BY <1>4, SetparamsInv
  <1>5. CASE \E c \in Clients : FetchWord(c)
    BY <1>5, HookStutter DEF FetchWord, sunVars, hookVars
  <1>6. CASE \E c \in Clients : \E mode \in Modes :
                 KcbindParams(c, mode) \/ SunKpcbind(c, mode)
    BY <1>6, HookStutter DEF KcbindParams, SunKpcbind, clientVars, sunVars,
                             hookVars
  <1>7. CASE \E c \in Clients : OsfKpcbind(c)
    BY <1>7, HookStutter DEF OsfKpcbind, sunVars, hookVars
  <1>8. CASE \E c \in Fetchers, tsformat \in Formats :
                 FetchBegin(c, tsformat) \/ SolarisFetch(c, tsformat)
    BY <1>8, HookStutter DEF FetchBegin, SolarisFetch, sunVars, hookVars
  <1>9. CASE UNCHANGED apiVars
    BY <1>9, HookStutter DEF apiVars, clientVars, sunVars, hookVars
  <1> QED BY <1>1, <1>2, <1>3, <1>4, <1>5, <1>6, <1>7, <1>8, <1>9 DEF ApiNext

(* However many streams are opened and closed, in whatever order, on       *)
(* however many lines: the saved handler is the serial driver's own, the   *)
(* line that a close puts right is the hooked one, and a hooked line has a *)
(* stream open on it.                                                      *)
THEOREM HookSoundHolds == ApiSpec => []HookSound
  <1>1. HookInv => HookSound
    BY NoneAssumption DEF HookInv, SunInv, Unhooked, Hooked, HookSound
  <1> QED BY <1>1, HookInitInv, HookStep, PTL DEF ApiSpec

(***************************************************************************)
(* The words of a fetch.  Numbers are counts of the timestamps so far, and *)
(* the stamp of a number never changes.                                    *)
(***************************************************************************)
ParamsType ==
    [mode : SUBSET ModeBits, assert_offset : Timespecs,
     clear_offset : Timespecs]

Fetches ==
    [info : Infos, params : ParamsType, tsf : SUBSET FormatBits,
     current_mode : SUBSET ModeBits]

Asserts(c) == log[Unit(c)].assert
Clears(c) == log[Unit(c)].clear

(* The words of a fetch that has returned are those of its own number.     *)
AssertWhole(stamps, f) ==
    LET t == InFormat(AssertOffset(Stamp(stamps, f.info.assert_sequence),
                                   f.params), f.tsf)
    IN  f.info.assert_sec = t.tv_sec /\ f.info.assert_nsec = t.tv_nsec

ClearWhole(stamps, f) ==
    LET t == InFormat(ClearOffset(Stamp(stamps, f.info.clear_sequence),
                                  f.params), f.tsf)
    IN  f.info.clear_sec = t.tv_sec /\ f.info.clear_nsec = t.tv_nsec

ApiTypeInv ==
    /\ host \in Hosts
    /\ now \in Nat
    /\ handle \in [Clients -> Units \cup {None}]
    /\ handler \in [Lines -> {"own", "pps"}]
    /\ pps_params \in [Lines -> ParamsType]
    /\ pps_info \in [Lines -> Infos]
    /\ log \in [Lines -> [assert : Seq(Timespecs), clear : Seq(Timespecs)]]
    /\ call \in [Clients -> FetchCalls \cup {None}
                    \cup [op : {"kcbind"}, mode : Modes]]
    /\ fetched \in [Clients -> Fetches \cup {None}]
    /\ \A c \in Clients : handle[c] = None => fetched[c] = None
                                              /\ call[c] = None

(* pps_info is the last of each edge.                                      *)
LogKept ==
    \A p \in Lines :
        LET a == log[p].assert
            b == log[p].clear
        IN  pps_info[p] = Info(Len(a), Stamp(a, Len(a)),
                               Len(b), Stamp(b, Len(b)))

(* What a fetch has returned is whole unless there has been a pulse since  *)
(* its number was copied.                                                  *)
FetchedInv(c) ==
    LET f == fetched[c]
        a == Asserts(c)
        b == Clears(c)
    IN  f # None =>
            /\ f.info.assert_sequence <= Len(a)
            /\ f.info.clear_sequence <= Len(b)
            /\ f.info.assert_sequence = Len(a) => AssertWhole(a, f)
            /\ f.info.clear_sequence = Len(b) => ClearWhole(b, f)
            /\ host = "Solaris" => AssertWhole(a, f) /\ ClearWhole(b, f)

(* Nor is what it has copied; and when it has copied the number that the   *)
(* fetch before returned, there has been no pulse since that one.          *)
CallInv(c) ==
    LET f == fetched[c]
        i == call[c].info
        k == call[c].copied
        a == Asserts(c)
        b == Clears(c)
        s == Stamp(a, i.assert_sequence)
        t == Stamp(b, i.clear_sequence)
    IN  (call[c] # None /\ call[c].op = "fetch") =>
            /\ host # "Solaris"
            /\ k >= 1 =>
                 /\ i.assert_sequence <= Len(a)
                 /\ (f # None /\ f.info.assert_sequence = i.assert_sequence)
                        => AssertWhole(a, f)
            /\ k >= 2 =>
                 /\ i.clear_sequence <= Len(b)
                 /\ (f # None /\ f.info.clear_sequence = i.clear_sequence)
                        => ClearWhole(b, f)
            /\ i.assert_sequence = Len(a) =>
                 /\ k >= 3 => i.assert_sec = s.tv_sec
                 /\ k >= 4 => i.assert_nsec = s.tv_nsec
            /\ i.clear_sequence = Len(b) =>
                 /\ k >= 5 => i.clear_sec = t.tv_sec

FetchInv ==
    /\ ApiTypeInv
    /\ LogKept
    /\ \A c \in Clients : FetchedInv(c) /\ CallInv(c)

fetchVars == <<fetched, call>>

LEMMA SettingsParams ==
    Settings \cup {DefaultParams} \subseteq ParamsType
  BY SettingsAssumption DEF ParamsType, DefaultParams, Params, ModeBits,
        Timespec, Timespecs, CaptureBits, FormatBits

LEMMA ConstantTypes ==
    /\ PPS_NANOSECOND \in Nat /\ PPS_NANOSECOND > 0
    /\ PPS_FRAC \in Nat /\ PPS_JAN_1970 \in Nat
  BY ApiAssumption

LEMMA HostHasLine == ASSUME host \in Hosts PROVE 0 \in LinesOf(host)
  BY ApiAssumption DEF LinesOf

(* The stamp of a number, and that another stamp does not change it.       *)
LEMMA StampType ==
    ASSUME NEW s \in Seq(Timespecs), NEW n \in Nat, n <= Len(s)
    PROVE  Stamp(s, n) \in Timespecs
  <1>1. CASE n = 0
    BY <1>1 DEF Stamp, Timespec, Timespecs
  <1>2. CASE n # 0
    <2>1. n \in 1 .. Len(s)
      BY <1>2
    <2> QED BY <1>2, <2>1 DEF Stamp
  <1> QED BY <1>1, <1>2

LEMMA StampKept ==
    ASSUME NEW s \in Seq(Timespecs), NEW t \in Timespecs
    PROVE  /\ Append(s, t) \in Seq(Timespecs)
           /\ Len(Append(s, t)) = Len(s) + 1
           /\ Stamp(Append(s, t), Len(s) + 1) = t
           /\ \A n \in Nat : n <= Len(s) =>
                  Stamp(Append(s, t), n) = Stamp(s, n)
  <1>1. Append(s, t) \in Seq(Timespecs) /\ Len(Append(s, t)) = Len(s) + 1
    OBVIOUS
  <1>2. Append(s, t)[Len(s) + 1] = t /\ Len(s) + 1 # 0
    OBVIOUS
  <1>3. ASSUME NEW n \in Nat, n <= Len(s)
        PROVE  Stamp(Append(s, t), n) = Stamp(s, n)
    <2>1. CASE n = 0
      BY <2>1 DEF Stamp
    <2>2. CASE n # 0
      <3>1. n \in 1 .. Len(s)
        BY <1>3, <2>2
      <3>2. Append(s, t)[n] = s[n]
        BY <3>1
      <3> QED BY <2>2, <3>2 DEF Stamp
    <2> QED BY <2>1, <2>2
  <1> QED BY <1>1, <1>2, <1>3 DEF Stamp

LEMMA OffsetType ==
    ASSUME NEW t \in Timespecs, NEW o \in Timespecs
    PROVE  Offset(t, o) \in Timespecs
  BY ConstantTypes DEF Offset, PPS_NORMALIZE, Timespec, Timespecs

LEMMA InFormatType ==
    ASSUME NEW t \in Timespecs, NEW tsf
    PROVE  InFormat(t, tsf) \in Timespecs
  <1>1. t.tv_sec \in Int /\ t.tv_nsec \in Int
    BY DEF Timespecs
  <1>2. (t.tv_nsec * PPS_FRAC) \in Int
    BY <1>1, ConstantTypes
  <1>3. ((t.tv_nsec * PPS_FRAC) \div PPS_NANOSECOND) \in Int
    BY <1>2, ConstantTypes
  <1>4. PPS_TSPECTONTP(t) \in Timespecs
    BY <1>1, <1>3, ConstantTypes DEF PPS_TSPECTONTP, Timespec, Timespecs
  <1> QED BY <1>4 DEF InFormat

LEMMA OffsetsType ==
    ASSUME NEW t \in Timespecs, NEW p \in ParamsType
    PROVE  AssertOffset(t, p) \in Timespecs /\ ClearOffset(t, p) \in Timespecs
  <1>1. p.assert_offset \in Timespecs /\ p.clear_offset \in Timespecs
    BY DEF ParamsType
  <1> QED BY <1>1, OffsetType DEF AssertOffset, ClearOffset

LEMMA InfoType ==
    ASSUME NEW m \in Nat, NEW n \in Nat, NEW t \in Timespecs,
           NEW u \in Timespecs
    PROVE  Info(m, t, n, u) \in Infos
  BY DEF Info, Infos, Timespecs

LEMMA StampsOfInfo ==
    ASSUME NEW i \in Infos
    PROVE  assert_timestamp(i) \in Timespecs /\ clear_timestamp(i) \in Timespecs
  BY DEF Infos, Timespecs, Timespec, assert_timestamp, clear_timestamp

(* What time_pps_fetch() makes of an info keeps its numbers.               *)
LEMMA ReturnedInfo ==
    ASSUME NEW i \in Infos, NEW p \in ParamsType, NEW tsf,
           NEW r, r = Returned(i, p, tsf),
           NEW t, t = InFormat(AssertOffset(assert_timestamp(i), p), tsf),
           NEW u, u = InFormat(ClearOffset(clear_timestamp(i), p), tsf)
    PROVE  /\ r \in Infos
           /\ r.assert_sequence = i.assert_sequence
           /\ r.clear_sequence = i.clear_sequence
           /\ r.assert_sec = t.tv_sec /\ r.assert_nsec = t.tv_nsec
           /\ r.clear_sec = u.tv_sec /\ r.clear_nsec = u.tv_nsec
  <1>1. t \in Timespecs /\ u \in Timespecs
    BY StampsOfInfo, OffsetsType, InFormatType
  <1>2. i.assert_sequence \in Nat /\ i.clear_sequence \in Nat
    BY DEF Infos
  <1>3. r = Info(i.assert_sequence, t, i.clear_sequence, u)
    BY DEF Returned
  <1> HIDE DEF Info
  <1>4. r \in Infos
    BY <1>1, <1>2, <1>3, InfoType
  <1> QED BY <1>3, <1>4 DEF Info

LEMMA FetchInit == ApiInit => FetchInv
  <1> SUFFICES ASSUME ApiInit PROVE FetchInv
    OBVIOUS
  <1>1. /\ host \in Hosts /\ now = 0
        /\ handle = [c \in Clients |-> None]
        /\ call = [c \in Clients |-> None]
        /\ fetched = [c \in Clients |-> None]
        /\ handler = [u \in Lines |-> "own"]
        /\ pps_info = [u \in Lines |-> NoInfo]
        /\ pps_params = [u \in Lines |->
                            Params({}, Timespec(0, 0), Timespec(0, 0))]
        /\ log = [u \in Lines |-> [assert |-> <<>>, clear |-> <<>>]]
    BY DEF ApiInit
  <1>2. Timespec(0, 0) \in Timespecs
    BY DEF Timespec, Timespecs
  <1>3. NoInfo \in Infos
    BY <1>2, InfoType DEF NoInfo
  <1>4. Params({}, Timespec(0, 0), Timespec(0, 0)) \in ParamsType
    BY <1>2 DEF Params, ParamsType
  <1>5. [assert |-> <<>>, clear |-> <<>>]
            \in [assert : Seq(Timespecs), clear : Seq(Timespecs)]
    OBVIOUS
  <1>6. ApiTypeInv
    BY <1>1, <1>3, <1>4, <1>5 DEF ApiTypeInv
  <1>7. LogKept
    BY <1>1 DEF LogKept, NoInfo, Stamp
  <1> QED BY <1>1, <1>6, <1>7 DEF FetchInv, FetchedInv, CallInv

(* A step that leaves a client, its line and the timestamps alone.         *)
LEMMA ClientStutter ==
    ASSUME ApiTypeInv, NEW c \in Clients, FetchedInv(c), CallInv(c),
           UNCHANGED <<host, log>>,
           handle'[c] = handle[c] \/
               (Opened(c) /\ handle'[c].filedes = handle[c].filedes),
           fetched'[c] = fetched[c], call'[c] = call[c]
    PROVE  FetchedInv(c)' /\ CallInv(c)'
  <1>1. Opened(c) => Unit(c)' = Unit(c)
    BY DEF Unit, Opened
  <1>2. CASE Opened(c)
    <2>1. Asserts(c)' = Asserts(c) /\ Clears(c)' = Clears(c)
      BY <1>1, <1>2 DEF Asserts, Clears
    <2>2. FetchedInv(c)'
      BY <2>1 DEF FetchedInv, AssertWhole, ClearWhole
    <2>3. CallInv(c)'
      BY <2>1 DEF CallInv, AssertWhole, ClearWhole
    <2> QED BY <2>2, <2>3
  <1>3. CASE ~Opened(c)
    <2>1. fetched'[c] = None /\ call'[c] = None
      BY <1>3 DEF ApiTypeInv, Opened
    <2> QED BY <2>1 DEF FetchedInv, CallInv
  <1> QED BY <1>2, <1>3

LEMMA ApiStutter ==
    ASSUME FetchInv,
           UNCHANGED <<host, now, clientVars, handler, pps_info, log>>,
           pps_params' \in [Lines -> ParamsType]
    PROVE  FetchInv'
  <1>1. ApiTypeInv /\ LogKept
    BY DEF FetchInv
  <1>2. UNCHANGED <<host, now, handle, call, fetched, pps_info, log>>
    BY DEF clientVars
  <1>3. ApiTypeInv'
    BY <1>1, <1>2 DEF ApiTypeInv
  <1>4. LogKept'
    BY <1>1, <1>2 DEF LogKept
  <1>5. \A c \in Clients : FetchedInv(c)' /\ CallInv(c)'
    BY <1>1, <1>2, ClientStutter DEF FetchInv
  <1> QED BY <1>3, <1>4, <1>5 DEF FetchInv

LEMMA LogRecord ==
    ASSUME NEW r \in [assert : Seq(Timespecs), clear : Seq(Timespecs)],
           NEW s \in Seq(Timespecs)
    PROVE  /\ [r EXCEPT !.assert = s] = [assert |-> s, clear |-> r.clear]
           /\ [r EXCEPT !.clear = s] = [assert |-> r.assert, clear |-> s]
  <1> DEFINE x == [r EXCEPT !.assert = s]
             y == [r EXCEPT !.clear = s]
  <1>1. /\ x \in [assert : Seq(Timespecs), clear : Seq(Timespecs)]
        /\ x.assert = s /\ x.clear = r.clear
    OBVIOUS
  <1>2. /\ y \in [assert : Seq(Timespecs), clear : Seq(Timespecs)]
        /\ y.assert = r.assert /\ y.clear = s
    OBVIOUS
  <1> HIDE DEF x, y
  <1>3. x = [assert |-> s, clear |-> r.clear]
    BY <1>1
  <1>4. y = [assert |-> r.assert, clear |-> s]
    BY <1>2
  <1> QED BY <1>3, <1>4 DEF x, y

(* The interrupt: the next number of an edge, with its timestamp.          *)
Latching(p, edge, t) ==
    /\ pps_info' = [pps_info EXCEPT ![p] = Latched(@, edge, t)]
    /\ log' = IF edge THEN [log EXCEPT ![p].assert = Append(@, t)]
              ELSE [log EXCEPT ![p].clear = Append(@, t)]

LEMMA LatchingLog ==
    ASSUME ApiTypeInv, LogKept, NEW p \in Lines, NEW edge \in BOOLEAN,
           NEW t \in Timespecs, Latching(p, edge, t)
    PROVE  /\ pps_info' \in [Lines -> Infos]
           /\ log' \in [Lines -> [assert : Seq(Timespecs),
                                  clear : Seq(Timespecs)]]
           /\ LogKept'
           /\ \A q \in Lines :
                 /\ log'[q].assert = log[q].assert
                        \/ log'[q].assert = Append(log[q].assert, t)
                 /\ log'[q].clear = log[q].clear
                        \/ log'[q].clear = Append(log[q].clear, t)
  <1> DEFINE a == log[p].assert
             b == log[p].clear
             i == pps_info[p]
  <1>1. /\ a \in Seq(Timespecs) /\ b \in Seq(Timespecs) /\ i \in Infos
        /\ pps_info \in [Lines -> Infos]
        /\ log \in [Lines -> [assert : Seq(Timespecs),
                              clear : Seq(Timespecs)]]
    BY DEF ApiTypeInv
  <1>2. i = Info(Len(a), Stamp(a, Len(a)), Len(b), Stamp(b, Len(b)))
    BY DEF LogKept
  <1>3. Len(a) \in Nat /\ Len(b) \in Nat
    BY <1>1
  <1>4. /\ Stamp(a, Len(a)) \in Timespecs
        /\ Stamp(b, Len(b)) \in Timespecs
    BY <1>1, <1>3, StampType
  <1>5. /\ assert_timestamp(i) = Stamp(a, Len(a))
        /\ clear_timestamp(i) = Stamp(b, Len(b))
        /\ i.assert_sequence = Len(a) /\ i.clear_sequence = Len(b)
    BY <1>2, <1>4 DEF Info, assert_timestamp, clear_timestamp, Timespec,
                      Timespecs
  <1> HIDE DEF a, b, i
  <1>6. CASE edge
    <2>1. /\ pps_info' = [pps_info EXCEPT ![p] =
                 Info(Len(a) + 1, t, Len(b), Stamp(b, Len(b)))]
          /\ log' = [log EXCEPT ![p] =
                        [assert |-> Append(a, t), clear |-> b]]
      <3>1. pps_info' = [pps_info EXCEPT ![p] = Latched(i, edge, t)]
        BY DEF Latching, i
      <3>2. log' = [log EXCEPT ![p].assert = Append(a, t)]
        BY <1>6 DEF Latching, a
      <3>3. [log[p] EXCEPT !.assert = Append(a, t)]
                = [assert |-> Append(a, t), clear |-> b]
        <4>1. log[p] \in [assert : Seq(Timespecs), clear : Seq(Timespecs)]
          BY <1>1
        <4>2. Append(a, t) \in Seq(Timespecs)
          BY <1>1
        <4> QED BY <4>1, <4>2, LogRecord DEF b
      <3>4. log' = [log EXCEPT ![p] =
                       [log[p] EXCEPT !.assert = Append(a, t)]]
        BY <3>2
      <3>5. log' = [log EXCEPT ![p] = [assert |-> Append(a, t), clear |-> b]]
        BY <3>3, <3>4
      <3>6. Latched(i, edge, t) = Info(Len(a) + 1, t, Len(b), Stamp(b, Len(b)))
        BY <1>5, <1>6 DEF Latched
      <3> QED BY <3>1, <3>5, <3>6
    <2>2. /\ Append(a, t) \in Seq(Timespecs)
          /\ Len(Append(a, t)) = Len(a) + 1
          /\ Stamp(Append(a, t), Len(a) + 1) = t
      BY <1>1, StampKept
    <2>3. Info(Len(a) + 1, t, Len(b), Stamp(b, Len(b))) \in Infos
      BY <1>3, <1>4, InfoType
    <2>4. /\ pps_info' \in [Lines -> Infos]
          /\ log' \in [Lines -> [assert : Seq(Timespecs),
                                 clear : Seq(Timespecs)]]
      BY <1>1, <2>1, <2>2, <2>3
    <2>5. \A q \in Lines : q # p =>
              log'[q] = log[q] /\ pps_info'[q] = pps_info[q]
      BY <1>1, <2>1
    <2>6. /\ log'[p].assert = Append(a, t) /\ log'[p].clear = b
          /\ pps_info'[p] = Info(Len(a) + 1, t, Len(b), Stamp(b, Len(b)))
      BY <1>1, <2>1
    <2>7. LogKept'
      BY <2>2, <2>5, <2>6 DEF LogKept
    <2> QED BY <2>4, <2>5, <2>6, <2>7 DEF a, b
  <1>7. CASE ~edge
    <2>1. /\ pps_info' = [pps_info EXCEPT ![p] =
                 Info(Len(a), Stamp(a, Len(a)), Len(b) + 1, t)]
          /\ log' = [log EXCEPT ![p] =
                        [assert |-> a, clear |-> Append(b, t)]]
      <3>1. pps_info' = [pps_info EXCEPT ![p] = Latched(i, edge, t)]
        BY DEF Latching, i
      <3>2. log' = [log EXCEPT ![p].clear = Append(b, t)]
        BY <1>7 DEF Latching, b
      <3>3. [log[p] EXCEPT !.clear = Append(b, t)]
                = [assert |-> a, clear |-> Append(b, t)]
        <4>1. log[p] \in [assert : Seq(Timespecs), clear : Seq(Timespecs)]
          BY <1>1
        <4>2. Append(b, t) \in Seq(Timespecs)
          BY <1>1
        <4> QED BY <4>1, <4>2, LogRecord DEF a
      <3>4. log' = [log EXCEPT ![p] =
                       [log[p] EXCEPT !.clear = Append(b, t)]]
        BY <3>2
      <3>5. log' = [log EXCEPT ![p] = [assert |-> a, clear |-> Append(b, t)]]
        BY <3>3, <3>4
      <3>6. Latched(i, edge, t) = Info(Len(a), Stamp(a, Len(a)), Len(b) + 1, t)
        BY <1>5, <1>7 DEF Latched
      <3> QED BY <3>1, <3>5, <3>6
    <2>2. /\ Append(b, t) \in Seq(Timespecs)
          /\ Len(Append(b, t)) = Len(b) + 1
          /\ Stamp(Append(b, t), Len(b) + 1) = t
      BY <1>1, StampKept
    <2>3. Info(Len(a), Stamp(a, Len(a)), Len(b) + 1, t) \in Infos
      BY <1>3, <1>4, InfoType
    <2>4. /\ pps_info' \in [Lines -> Infos]
          /\ log' \in [Lines -> [assert : Seq(Timespecs),
                                 clear : Seq(Timespecs)]]
      BY <1>1, <2>1, <2>2, <2>3
    <2>5. \A q \in Lines : q # p =>
              log'[q] = log[q] /\ pps_info'[q] = pps_info[q]
      BY <1>1, <2>1
    <2>6. /\ log'[p].clear = Append(b, t) /\ log'[p].assert = a
          /\ pps_info'[p] = Info(Len(a), Stamp(a, Len(a)), Len(b) + 1, t)
      BY <1>1, <2>1
    <2>7. LogKept'
      BY <2>2, <2>5, <2>6 DEF LogKept
    <2> QED BY <2>4, <2>5, <2>6, <2>7 DEF a, b
  <1> QED BY <1>6, <1>7

LEMMA UnitIsLine ==
    ASSUME ApiTypeInv, NEW c \in Clients, Opened(c)
    PROVE  Unit(c) \in Lines
  <1>1. host \in Hosts /\ handle[c] \in Units
    BY DEF ApiTypeInv, Opened
  <1>2. 0 \in Lines /\ handle[c].filedes \in Lines
    BY <1>1, HostHasLine, HostLines_Lines DEF Units
  <1> QED BY <1>2 DEF Unit

(* A pulse only adds to what the numbers so far stand for.                 *)
Extends(s, r) ==
    \A n \in Nat : n <= Len(s) =>
        n <= Len(r) /\ Stamp(r, n) = Stamp(s, n) /\ (n = Len(r) => n = Len(s))

LEMMA AppendExtends ==
    ASSUME NEW s \in Seq(Timespecs), NEW t \in Timespecs, NEW r,
           r = s \/ r = Append(s, t)
    PROVE  Extends(s, r)
  <1>1. CASE r = s
    BY <1>1 DEF Extends
  <1>2. CASE r = Append(s, t)
    <2>1. /\ Len(s) \in Nat /\ Len(r) = Len(s) + 1
          /\ \A n \in Nat : n <= Len(s) => Stamp(r, n) = Stamp(s, n)
      BY <1>2, StampKept
    <2> QED BY <2>1 DEF Extends
  <1> QED BY <1>1, <1>2

LEMMA ClientLatching ==
    ASSUME ApiTypeInv, NEW c \in Clients, FetchedInv(c), CallInv(c),
           UNCHANGED <<host, clientVars>>,
           Opened(c) => Extends(Asserts(c), Asserts(c)')
                        /\ Extends(Clears(c), Clears(c)')
    PROVE  FetchedInv(c)' /\ CallInv(c)'
  <1>1. handle' = handle /\ call' = call /\ fetched' = fetched /\ host' = host
    BY DEF clientVars
  <1>2. CASE Opened(c)
    <2> DEFINE f == fetched[c]
               i == call[c].info
               a == Asserts(c)
               b == Clears(c)
               x == Asserts(c)'
               y == Clears(c)'
    <2>1. f # None => /\ f.info.assert_sequence \in Nat
                      /\ f.info.clear_sequence \in Nat
      BY DEF ApiTypeInv, Fetches, Infos
    <2>2. (call[c] # None /\ call[c].op = "fetch") =>
              i.assert_sequence \in Nat /\ i.clear_sequence \in Nat
      BY DEF ApiTypeInv, FetchCalls, Infos
    <2>3. Extends(a, x) /\ Extends(b, y)
      BY <1>2
    <2>4. FetchedInv(c)'
      <3> SUFFICES ASSUME f # None
                   PROVE  /\ f.info.assert_sequence <= Len(x)
                          /\ f.info.clear_sequence <= Len(y)
                          /\ f.info.assert_sequence = Len(x) =>
                                 AssertWhole(x, f)
                          /\ f.info.clear_sequence = Len(y) => ClearWhole(y, f)
                          /\ host = "Solaris" => AssertWhole(x, f)
                                                 /\ ClearWhole(y, f)
        BY <1>1 DEF FetchedInv, AssertWhole, ClearWhole
      <3>1. /\ f.info.assert_sequence <= Len(a)
            /\ f.info.clear_sequence <= Len(b)
            /\ f.info.assert_sequence = Len(a) => AssertWhole(a, f)
            /\ f.info.clear_sequence = Len(b) => ClearWhole(b, f)
            /\ host = "Solaris" => AssertWhole(a, f) /\ ClearWhole(b, f)
        BY DEF FetchedInv
      <3>2. /\ f.info.assert_sequence <= Len(x)
            /\ Stamp(x, f.info.assert_sequence)
                   = Stamp(a, f.info.assert_sequence)
            /\ f.info.assert_sequence = Len(x) =>
                   f.info.assert_sequence = Len(a)
        BY <2>1, <2>3, <3>1 DEF Extends
      <3>3. /\ f.info.clear_sequence <= Len(y)
            /\ Stamp(y, f.info.clear_sequence)
                   = Stamp(b, f.info.clear_sequence)
            /\ f.info.clear_sequence = Len(y) => f.info.clear_sequence = Len(b)
        BY <2>1, <2>3, <3>1 DEF Extends
      <3>4. /\ AssertWhole(a, f) => AssertWhole(x, f)
            /\ ClearWhole(b, f) => ClearWhole(y, f)
        BY <3>2, <3>3 DEF AssertWhole, ClearWhole
      <3> HIDE DEF f, a, b, x, y
      <3> QED BY <3>1, <3>2, <3>3, <3>4
    <2>5. CallInv(c)'
      <3> DEFINE k == call[c].copied
                 s(z) == Stamp(z, i.assert_sequence)
                 t(z) == Stamp(z, i.clear_sequence)
                 ACopied(z) == k >= 1 =>
                     /\ i.assert_sequence <= Len(z)
                     /\ (f # None /\ f.info.assert_sequence = i.assert_sequence)
                            => AssertWhole(z, f)
                 CCopied(z) == k >= 2 =>
                     /\ i.clear_sequence <= Len(z)
                     /\ (f # None /\ f.info.clear_sequence = i.clear_sequence)
                            => ClearWhole(z, f)
                 AWords(z) == i.assert_sequence = Len(z) =>
                     /\ k >= 3 => i.assert_sec = s(z).tv_sec
                     /\ k >= 4 => i.assert_nsec = s(z).tv_nsec
                 CWords(z) == i.clear_sequence = Len(z) =>
                     (k >= 5 => i.clear_sec = t(z).tv_sec)
      <3> SUFFICES ASSUME call[c] # None, call[c].op = "fetch"
                   PROVE  /\ host # "Solaris"
                          /\ ACopied(x) /\ CCopied(y) /\ AWords(x) /\ CWords(y)
        BY <1>1 DEF CallInv, AssertWhole, ClearWhole
      <3>1. /\ host # "Solaris"
            /\ ACopied(a) /\ CCopied(b) /\ AWords(a) /\ CWords(b)
        BY DEF CallInv
      <3>2. k \in 0 .. 5
        BY DEF ApiTypeInv, FetchCalls, Words
      <3>3. ACopied(x)
        <4> SUFFICES ASSUME k >= 1 PROVE ACopied(x)
          OBVIOUS
        <4>1. i.assert_sequence <= Len(a)
          BY <3>1
        <4>2. i.assert_sequence <= Len(x)
              /\ Stamp(x, i.assert_sequence) = Stamp(a, i.assert_sequence)
          BY <2>2, <2>3, <4>1 DEF Extends
        <4>3. (f # None /\ f.info.assert_sequence = i.assert_sequence)
                  => AssertWhole(x, f)
          BY <3>1, <4>2 DEF AssertWhole
        <4> QED BY <4>2, <4>3
      <3>4. CCopied(y)
        <4> SUFFICES ASSUME k >= 2 PROVE CCopied(y)
          OBVIOUS
        <4>1. i.clear_sequence <= Len(b)
          BY <3>1
        <4>2. i.clear_sequence <= Len(y)
              /\ Stamp(y, i.clear_sequence) = Stamp(b, i.clear_sequence)
          BY <2>2, <2>3, <4>1 DEF Extends
        <4>3. (f # None /\ f.info.clear_sequence = i.clear_sequence)
                  => ClearWhole(y, f)
          BY <3>1, <4>2 DEF ClearWhole
        <4> QED BY <4>2, <4>3
      <3>5. AWords(x)
        <4> SUFFICES ASSUME i.assert_sequence = Len(x), k >= 3 PROVE AWords(x)
          BY <3>2
        <4>1. i.assert_sequence <= Len(a)
          BY <3>1, <3>2
        <4>2. i.assert_sequence = Len(a)
              /\ Stamp(x, i.assert_sequence) = Stamp(a, i.assert_sequence)
          BY <2>2, <2>3, <4>1 DEF Extends
        <4> QED BY <3>1, <4>2
      <3>6. CWords(y)
        <4> SUFFICES ASSUME i.clear_sequence = Len(y), k >= 5 PROVE CWords(y)
          OBVIOUS
        <4>1. i.clear_sequence <= Len(b)
          BY <3>1, <3>2
        <4>2. i.clear_sequence = Len(b)
              /\ Stamp(y, i.clear_sequence) = Stamp(b, i.clear_sequence)
          BY <2>2, <2>3, <4>1 DEF Extends
        <4> QED BY <3>1, <4>2
      <3> QED BY <3>1, <3>3, <3>4, <3>5, <3>6
    <2> QED BY <2>4, <2>5
  <1>3. CASE ~Opened(c)
    <2>1. fetched'[c] = None /\ call'[c] = None
      BY <1>1, <1>3 DEF ApiTypeInv, Opened
    <2> QED BY <2>1 DEF FetchedInv, CallInv
  <1> QED BY <1>2, <1>3

LEMMA DcdLatches ==
    ASSUME ApiTypeInv, NEW u \in LinesOf(host), NEW edge \in BOOLEAN,
           NEW gap \in Gaps, DcdInterrupt(u, edge, gap)
    PROVE  \/ UNCHANGED <<pps_info, log>>
           \/ \E p \in Lines, t \in Timespecs : Latching(p, edge, t)
  <1>1. /\ u \in Lines /\ host \in Hosts /\ gap \in Nat /\ now \in Nat
        /\ pps_params[u] \in ParamsType
    BY HostLines_Lines, SettingsAssumption DEF ApiTypeInv
  <1>2. now' \in Nat
    BY <1>1 DEF DcdInterrupt
  <1>3. (now' \div PPS_NANOSECOND) \in Int /\ (now' % PPS_NANOSECOND) \in Int
    BY <1>2, ConstantTypes
  <1>4. nano_time \in Timespecs
    BY <1>3 DEF nano_time, Timespec, Timespecs
  <1>5. /\ AssertOffset(nano_time, pps_params[u]) \in Timespecs
        /\ ClearOffset(nano_time, pps_params[u]) \in Timespecs
    BY <1>1, <1>4, OffsetsType
  <1>6. CASE OwnDcd(u, edge)
    BY <1>6 DEF OwnDcd, NoCapture
  <1>7. CASE host = "OSF1" /\ pps_dcd(u, edge)
    BY <1>1, <1>5, <1>7 DEF pps_dcd, NoCapture, Capture, Latching
  <1>8. CASE ppsapi_intr(u, edge)
    <2>1. 0 \in Lines
      BY <1>1, HostHasLine, HostLines_Lines
    <2> QED BY <1>4, <1>8, <2>1 DEF ppsapi_intr, NoCapture, Capture, Latching
  <1>9. CASE SolarisDcd(u, edge)
    BY <1>1, <1>4, <1>9 DEF SolarisDcd, NoCapture, Capture, Latching
  <1>10. \/ handler[u] = "own" /\ OwnDcd(u, edge)
         \/ handler[u] = "pps" /\ host = "OSF1" /\ pps_dcd(u, edge)
         \/ handler[u] = "pps" /\ host = "SunOS" /\ ppsapi_intr(u, edge)
         \/ handler[u] = "pps" /\ host = "Solaris" /\ SolarisDcd(u, edge)
    <2>1. handler[u] \in {"own", "pps"}
      BY <1>1 DEF ApiTypeInv
    <2>2. host \in {"OSF1", "SunOS", "Solaris"}
      BY <1>1, ApiAssumption
    <2> QED BY <2>1, <2>2 DEF DcdInterrupt
  <1> QED BY <1>6, <1>7, <1>8, <1>9, <1>10

LEMMA InterruptFetch ==
    ASSUME FetchInv, NEW u \in LinesOf(host), NEW edge \in BOOLEAN,
           NEW gap \in Gaps, DcdInterrupt(u, edge, gap)
    PROVE  FetchInv'
  <1>1. ApiTypeInv /\ LogKept /\ now' \in Nat /\ now \in Nat
    BY SettingsAssumption DEF FetchInv, ApiTypeInv, DcdInterrupt
  <1>2. UNCHANGED <<host, clientVars, handler, pps_params>>
    BY DEF DcdInterrupt, osfVars
  <1>3. CASE UNCHANGED <<pps_info, log>>
    <2>1. ApiTypeInv'
      BY <1>1, <1>2, <1>3 DEF ApiTypeInv, clientVars
    <2>2. LogKept'
      BY <1>1, <1>3 DEF LogKept
    <2>3. \A c \in Clients : FetchedInv(c)' /\ CallInv(c)'
      BY <1>1, <1>2, <1>3, ClientStutter DEF FetchInv, clientVars
    <2> QED BY <2>1, <2>2, <2>3 DEF FetchInv
  <1>4. CASE \E p \in Lines, t \in Timespecs : Latching(p, edge, t)
    <2>1. PICK p \in Lines, t \in Timespecs : Latching(p, edge, t)
      BY <1>4
    <2>2. /\ pps_info' \in [Lines -> Infos]
          /\ log' \in [Lines -> [assert : Seq(Timespecs),
                                 clear : Seq(Timespecs)]]
          /\ LogKept'
          /\ \A q \in Lines :
                /\ log'[q].assert = log[q].assert
                       \/ log'[q].assert = Append(log[q].assert, t)
                /\ log'[q].clear = log[q].clear
                       \/ log'[q].clear = Append(log[q].clear, t)
      BY <1>1, <2>1, LatchingLog
    <2>3. ApiTypeInv'
      BY <1>1, <1>2, <2>2 DEF ApiTypeInv, clientVars
    <2>4. ASSUME NEW c \in Clients
          PROVE  FetchedInv(c)' /\ CallInv(c)'
      <3>1. ASSUME Opened(c)
            PROVE  Extends(Asserts(c), Asserts(c)')
                   /\ Extends(Clears(c), Clears(c)')
        <4>1. Unit(c) \in Lines /\ Unit(c)' = Unit(c)
          BY <1>1, <1>2, <3>1, UnitIsLine DEF Unit, clientVars
        <4>2. /\ log[Unit(c)].assert \in Seq(Timespecs)
              /\ log[Unit(c)].clear \in Seq(Timespecs)
          BY <1>1, <4>1 DEF ApiTypeInv
        <4>3. /\ Extends(log[Unit(c)].assert, log'[Unit(c)].assert)
              /\ Extends(log[Unit(c)].clear, log'[Unit(c)].clear)
          BY <2>2, <4>1, <4>2, AppendExtends
        <4> QED BY <4>1, <4>3 DEF Asserts, Clears
      <3> QED BY <1>1, <1>2, <3>1, ClientLatching DEF FetchInv
    <2> QED BY <2>2, <2>3, <2>4 DEF FetchInv
  <1> QED BY <1>1, <1>3, <1>4, DcdLatches

(* Another client's handle, fetch or call is nobody else's.                *)
LEMMA OthersKept ==
    ASSUME FetchInv, NEW c \in Clients, NEW d \in Clients, d # c,
           UNCHANGED <<host, log>>,
           NEW h, NEW f, NEW g,
           handle' = handle \/ handle' = [handle EXCEPT ![c] = h],
           fetched' = fetched \/ fetched' = [fetched EXCEPT ![c] = f],
           call' = call \/ call' = [call EXCEPT ![c] = g]
    PROVE  FetchedInv(d)' /\ CallInv(d)'
  <1>1. ApiTypeInv /\ FetchedInv(d) /\ CallInv(d)
    BY DEF FetchInv
  <1>2. /\ handle'[d] = handle[d] /\ fetched'[d] = fetched[d]
        /\ call'[d] = call[d]
    BY <1>1 DEF ApiTypeInv
  <1> QED BY <1>1, <1>2, ClientStutter

LEMMA LogStutter ==
    ASSUME LogKept, UNCHANGED <<pps_info, log>> PROVE LogKept'
  BY DEF LogKept

LEMMA CreateFetch ==
    ASSUME FetchInv, HookInv, HookInv', NEW c \in Clients,
           NEW u \in LinesOf(host), time_pps_create(c, u)
    PROVE  FetchInv'
  <1>1. ApiTypeInv /\ LogKept /\ u \in Lines
    BY HostLines_Lines DEF FetchInv, ApiTypeInv
  <1>2. /\ handle' = [handle EXCEPT ![c] = NewHandle(u)]
        /\ UNCHANGED <<host, call, fetched, pps_params, now, pps_info, log>>
        /\ handle[c] = None
    BY DEF time_pps_create, osfVars, captureVars, Opened
  <1>3. NewHandle(u) \in Units
    BY <1>1 DEF NewHandle, Units, ApiTypeInv
  <1>4. handler' \in [Lines -> {"own", "pps"}]
    <2>1. CASE host = "SunOS"
      BY <1>2, <2>1 DEF HookInv, SunInv
    <2>2. CASE host # "SunOS"
      <3>1. handler' = [handler EXCEPT ![u] = "pps"]
        BY <2>2 DEF time_pps_create
      <3> QED BY <1>1, <3>1 DEF ApiTypeInv
    <2> QED BY <2>1, <2>2
  <1>5. ApiTypeInv'
    BY <1>1, <1>2, <1>3, <1>4, NoneAssumption DEF ApiTypeInv
  <1>6. fetched'[c] = None /\ call'[c] = None
    BY <1>1, <1>2 DEF ApiTypeInv
  <1>7. FetchedInv(c)' /\ CallInv(c)'
    BY <1>6 DEF FetchedInv, CallInv
  <1>8. \A d \in Clients : d # c => FetchedInv(d)' /\ CallInv(d)'
    BY <1>2, OthersKept
  <1>9. LogKept'
    BY <1>1, <1>2, LogStutter
  <1> QED BY <1>5, <1>7, <1>8, <1>9 DEF FetchInv

LEMMA DestroyFetch ==
    ASSUME FetchInv, HookInv', NEW c \in Clients, time_pps_destroy(c)
    PROVE  FetchInv'
  <1>1. ApiTypeInv /\ LogKept
    BY DEF FetchInv
  <1>2. /\ handle' = [handle EXCEPT ![c] = None]
        /\ fetched' = [fetched EXCEPT ![c] = None]
        /\ UNCHANGED <<host, call, pps_params, now, pps_info, log>>
        /\ handle[c] # None /\ call[c] = None
    BY DEF time_pps_destroy, osfVars, captureVars, Opened, Free
  <1>3. handler' \in [Lines -> {"own", "pps"}]
    <2>1. CASE host = "SunOS"
      BY <1>2, <2>1 DEF HookInv, SunInv
    <2>2. CASE host = "OSF1"
      <3>1. handler' = [handler EXCEPT ![handle[c].filedes] =
                           handle[c].linedisc]
        BY <2>2 DEF time_pps_destroy
      <3>2. handle[c] \in Units
        BY <1>1, <1>2 DEF ApiTypeInv
      <3> QED BY <1>1, <3>1, <3>2 DEF ApiTypeInv, Units
    <2>3. CASE host = "Solaris"
      BY <1>1, <2>3 DEF time_pps_destroy, ApiTypeInv
    <2> QED BY <1>1, <2>1, <2>2, <2>3, ApiAssumption DEF ApiTypeInv
  <1>4. ApiTypeInv'
    BY <1>1, <1>2, <1>3 DEF ApiTypeInv
  <1>5. fetched'[c] = None /\ call'[c] = None
    BY <1>1, <1>2 DEF ApiTypeInv
  <1>6. FetchedInv(c)' /\ CallInv(c)'
    BY <1>5 DEF FetchedInv, CallInv
  <1>7. \A d \in Clients : d # c => FetchedInv(d)' /\ CallInv(d)'
    BY <1>2, OthersKept
  <1>8. LogKept'
    BY <1>1, <1>2, LogStutter
  <1> QED BY <1>4, <1>6, <1>7, <1>8 DEF FetchInv

LEMMA SetparamsFetch ==
    ASSUME FetchInv, NEW c \in Clients, NEW params \in Settings,
           time_pps_setparams(c, params)
    PROVE  FetchInv'
  <1>1. ApiTypeInv /\ LogKept /\ FetchedInv(c) /\ CallInv(c)
    BY DEF FetchInv
  <1> DEFINE unit == [handle[c] EXCEPT !.params = params]
  <1>2. handle[c] \in Units
    BY <1>1 DEF ApiTypeInv, time_pps_setparams, Opened
  <1>3. unit \in Units /\ unit.filedes = handle[c].filedes
    BY <1>2 DEF Units
  <1>4. /\ handle' = [handle EXCEPT ![c] = unit]
        /\ UNCHANGED <<host, call, fetched, handler, pps_params, now,
                       pps_info, log>>
    BY DEF time_pps_setparams, osfVars, captureVars
  <1> HIDE DEF unit
  <1>5. ApiTypeInv'
    BY <1>1, <1>2, <1>3, <1>4, NoneAssumption DEF ApiTypeInv
  <1>6. handle'[c] = unit
    BY <1>1, <1>4 DEF ApiTypeInv
  <1>7. Opened(c)
    BY DEF time_pps_setparams
  <1>8. FetchedInv(c)' /\ CallInv(c)'
    BY <1>1, <1>3, <1>4, <1>6, <1>7, ClientStutter
  <1>9. \A d \in Clients : d # c => FetchedInv(d)' /\ CallInv(d)'
    BY <1>4, OthersKept
  <1>10. LogKept'
    BY <1>1, <1>4, LogStutter
  <1> QED BY <1>5, <1>8, <1>9, <1>10 DEF FetchInv

(* Binding to the kernel is a call of another kind, and OSF1's first half  *)
(* changes what the interrupt adds, not what it has latched.               *)
LEMMA KcbindFetch ==
    ASSUME FetchInv, NEW c \in Clients, NEW mode \in Modes,
           KcbindParams(c, mode)
    PROVE  FetchInv'
  <1>1. ApiTypeInv /\ LogKept
    BY DEF FetchInv
  <1>2. handle[c] \in Units /\ handle[c] # None
    BY <1>1 DEF ApiTypeInv, KcbindParams, Opened
  <1> DEFINE bind == [op |-> "kcbind", mode |-> mode]
  <1>3. /\ call' = [call EXCEPT ![c] = bind]
        /\ pps_params' = [pps_params EXCEPT ![handle[c].filedes] =
                             handle[c].params]
        /\ UNCHANGED <<host, handle, fetched, handler, now, pps_info, log>>
    BY DEF KcbindParams, captureVars
  <1>4. handle[c].params \in ParamsType
    BY <1>2, SettingsParams DEF Units
  <1>5. bind \in [op : {"kcbind"}, mode : Modes] /\ bind.op = "kcbind"
    OBVIOUS
  <1> HIDE DEF bind
  <1>6. ApiTypeInv'
    <2>1. call' \in [Clients -> FetchCalls \cup {None}
                        \cup [op : {"kcbind"}, mode : Modes]]
      BY <1>1, <1>3, <1>5 DEF ApiTypeInv
    <2>2. pps_params' \in [Lines -> ParamsType]
      BY <1>1, <1>3, <1>4 DEF ApiTypeInv
    <2>3. \A d \in Clients : handle'[d] = None => fetched'[d] = None
                                                  /\ call'[d] = None
      BY <1>1, <1>2, <1>3 DEF ApiTypeInv
    <2> QED BY <1>1, <1>3, <2>1, <2>2, <2>3 DEF ApiTypeInv
  <1>7. call'[c] = bind
    BY <1>1, <1>3 DEF ApiTypeInv
  <1>8. CallInv(c)'
    BY <1>5, <1>7 DEF CallInv
  <1>9. FetchedInv(c)'
    <2>1. FetchedInv(c)
      BY DEF FetchInv
    <2> QED BY <1>3, <2>1 DEF FetchedInv, AssertWhole, ClearWhole, Asserts,
                              Clears, Unit
  <1>10. \A d \in Clients : d # c => FetchedInv(d)' /\ CallInv(d)'
    BY <1>3, OthersKept
  <1>11. LogKept'
    BY <1>1, <1>3, LogStutter
  <1> QED BY <1>6, <1>8, <1>9, <1>10, <1>11 DEF FetchInv

LEMMA KpcbindFetch ==
    ASSUME FetchInv, NEW c \in Clients, OsfKpcbind(c)
    PROVE  FetchInv'
  <1>1. ApiTypeInv /\ LogKept
    BY DEF FetchInv
  <1>2. /\ call' = [call EXCEPT ![c] = None]
        /\ UNCHANGED <<host, handle, fetched, handler, pps_params, now,
                       pps_info, log>>
    BY DEF OsfKpcbind, captureVars
  <1>3. ApiTypeInv'
    BY <1>1, <1>2 DEF ApiTypeInv
  <1>4. call'[c] = None
    BY <1>1, <1>2 DEF ApiTypeInv
  <1>5. CallInv(c)'
    BY <1>4 DEF CallInv
  <1>6. FetchedInv(c)'
    <2>1. FetchedInv(c)
      BY DEF FetchInv
    <2> QED BY <1>2, <2>1 DEF FetchedInv, AssertWhole, ClearWhole, Asserts,
                              Clears, Unit
  <1>7. \A d \in Clients : d # c => FetchedInv(d)' /\ CallInv(d)'
    BY <1>2, OthersKept
  <1>8. LogKept'
    BY <1>1, <1>2, LogStutter
  <1> QED BY <1>3, <1>5, <1>6, <1>7, <1>8 DEF FetchInv

(* One word more.                                                          *)
Copy(i, r, n) == [i EXCEPT ![Words[n + 1]] = r[Words[n + 1]]]

LEMMA CopyWord ==
    ASSUME NEW i \in Infos, NEW r \in Infos, NEW n \in 0 .. 5,
           NEW j, j = Copy(i, r, n)
    PROVE  /\ j \in Infos
           /\ j.assert_sequence = IF n = 0 THEN r.assert_sequence
                                  ELSE i.assert_sequence
           /\ j.clear_sequence = IF n = 1 THEN r.clear_sequence
                                 ELSE i.clear_sequence
           /\ j.assert_sec = IF n = 2 THEN r.assert_sec ELSE i.assert_sec
           /\ j.assert_nsec = IF n = 3 THEN r.assert_nsec ELSE i.assert_nsec
           /\ j.clear_sec = IF n = 4 THEN r.clear_sec ELSE i.clear_sec
           /\ j.clear_nsec = IF n = 5 THEN r.clear_nsec ELSE i.clear_nsec
  <1>1. CASE n = 0
    <2>1. Words[n + 1] = "assert_sequence"
      BY <1>1 DEF Words
    <2> QED BY <1>1, <2>1 DEF Infos, Copy
  <1>2. CASE n = 1
    <2>1. Words[n + 1] = "clear_sequence"
      BY <1>2 DEF Words
    <2> QED BY <1>2, <2>1 DEF Infos, Copy
  <1>3. CASE n = 2
    <2>1. Words[n + 1] = "assert_sec"
      BY <1>3 DEF Words
    <2> QED BY <1>3, <2>1 DEF Infos, Copy
  <1>4. CASE n = 3
    <2>1. Words[n + 1] = "assert_nsec"
      BY <1>4 DEF Words
    <2> QED BY <1>4, <2>1 DEF Infos, Copy
  <1>5. CASE n = 4
    <2>1. Words[n + 1] = "clear_sec"
      BY <1>5 DEF Words
    <2> QED BY <1>5, <2>1 DEF Infos, Copy
  <1>6. CASE n = 5
    <2>1. Words[n + 1] = "clear_nsec"
      BY <1>6 DEF Words
    <2> QED BY <1>6, <2>1 DEF Infos, Copy
  <1> QED BY <1>1, <1>2, <1>3, <1>4, <1>5, <1>6

(* What a call has copied after n words, given what it returned before.    *)
Copied(j, n, a, b, f) ==
    /\ n >= 1 =>
         /\ j.assert_sequence <= Len(a)
         /\ (f # None /\ f.info.assert_sequence = j.assert_sequence)
                => AssertWhole(a, f)
    /\ n >= 2 =>
         /\ j.clear_sequence <= Len(b)
         /\ (f # None /\ f.info.clear_sequence = j.clear_sequence)
                => ClearWhole(b, f)
    /\ j.assert_sequence = Len(a) =>
         /\ n >= 3 => j.assert_sec = Stamp(a, j.assert_sequence).tv_sec
         /\ n >= 4 => j.assert_nsec = Stamp(a, j.assert_sequence).tv_nsec
    /\ j.clear_sequence = Len(b) =>
         /\ n >= 5 => j.clear_sec = Stamp(b, j.clear_sequence).tv_sec
         /\ n >= 6 => j.clear_nsec = Stamp(b, j.clear_sequence).tv_nsec

LEMMA CopiedOneMore ==
    ASSUME NEW i \in Infos, NEW r \in Infos, NEW n \in 0 .. 5,
           NEW j, j = Copy(i, r, n),
           NEW a \in Seq(Timespecs), NEW b \in Seq(Timespecs), NEW f,
           r = Info(Len(a), Stamp(a, Len(a)), Len(b), Stamp(b, Len(b))),
           f # None => /\ f.info.assert_sequence = Len(a) => AssertWhole(a, f)
                       /\ f.info.clear_sequence = Len(b) => ClearWhole(b, f),
           Copied(i, n, a, b, f)
    PROVE  j \in Infos /\ Copied(j, n + 1, a, b, f)
  <1>1. /\ j \in Infos
        /\ j.assert_sequence = IF n = 0 THEN r.assert_sequence
                               ELSE i.assert_sequence
        /\ j.clear_sequence = IF n = 1 THEN r.clear_sequence
                              ELSE i.clear_sequence
        /\ j.assert_sec = IF n = 2 THEN r.assert_sec ELSE i.assert_sec
        /\ j.assert_nsec = IF n = 3 THEN r.assert_nsec ELSE i.assert_nsec
        /\ j.clear_sec = IF n = 4 THEN r.clear_sec ELSE i.clear_sec
        /\ j.clear_nsec = IF n = 5 THEN r.clear_nsec ELSE i.clear_nsec
    BY CopyWord
  <1>2. /\ r.assert_sequence = Len(a) /\ r.clear_sequence = Len(b)
        /\ r.assert_sec = Stamp(a, Len(a)).tv_sec
        /\ r.assert_nsec = Stamp(a, Len(a)).tv_nsec
        /\ r.clear_sec = Stamp(b, Len(b)).tv_sec
        /\ r.clear_nsec = Stamp(b, Len(b)).tv_nsec
    BY DEF Info
  <1>3. Len(a) \in Nat /\ Len(b) \in Nat
    OBVIOUS
  <1>4. n + 1 >= 1 =>
            /\ j.assert_sequence <= Len(a)
            /\ (f # None /\ f.info.assert_sequence = j.assert_sequence)
                   => AssertWhole(a, f)
    BY <1>1, <1>2, <1>3 DEF Copied
  <1>5. n + 1 >= 2 =>
            /\ j.clear_sequence <= Len(b)
            /\ (f # None /\ f.info.clear_sequence = j.clear_sequence)
                   => ClearWhole(b, f)
    BY <1>1, <1>2, <1>3 DEF Copied
  <1>6. j.assert_sequence = Len(a) =>
            /\ n + 1 >= 3 => j.assert_sec = Stamp(a, j.assert_sequence).tv_sec
            /\ n + 1 >= 4 =>
                   j.assert_nsec = Stamp(a, j.assert_sequence).tv_nsec
    BY <1>1, <1>2, <1>3 DEF Copied
  <1>7. j.clear_sequence = Len(b) =>
            /\ n + 1 >= 5 => j.clear_sec = Stamp(b, j.clear_sequence).tv_sec
            /\ n + 1 >= 6 => j.clear_nsec = Stamp(b, j.clear_sequence).tv_nsec
    BY <1>1, <1>2, <1>3 DEF Copied
  <1> QED BY <1>1, <1>4, <1>5, <1>6, <1>7 DEF Copied

(* All six words, formatted, are a fetch that may be believed.             *)
LEMMA CopiedReturns ==
    ASSUME NEW j \in Infos, NEW p \in ParamsType, NEW tsf,
           NEW a \in Seq(Timespecs), NEW b \in Seq(Timespecs), NEW g,
           Copied(j, 6, a, b, g),
           NEW f, f.info = Returned(j, p, tsf), f.params = p, f.tsf = tsf
    PROVE  /\ f.info \in Infos
           /\ f.info.assert_sequence <= Len(a)
           /\ f.info.clear_sequence <= Len(b)
           /\ f.info.assert_sequence = Len(a) => AssertWhole(a, f)
           /\ f.info.clear_sequence = Len(b) => ClearWhole(b, f)
  <1> DEFINE t == InFormat(AssertOffset(assert_timestamp(j), p), tsf)
             u == InFormat(ClearOffset(clear_timestamp(j), p), tsf)
  <1>1. /\ f.info \in Infos
        /\ f.info.assert_sequence = j.assert_sequence
        /\ f.info.clear_sequence = j.clear_sequence
        /\ f.info.assert_sec = t.tv_sec /\ f.info.assert_nsec = t.tv_nsec
        /\ f.info.clear_sec = u.tv_sec /\ f.info.clear_nsec = u.tv_nsec
    BY ReturnedInfo
  <1>2. j.assert_sequence \in Nat /\ j.clear_sequence \in Nat
    BY DEF Infos
  <1>3. ASSUME NEW s \in Timespecs, NEW v \in Timespecs,
               s.tv_sec = v.tv_sec, s.tv_nsec = v.tv_nsec
        PROVE  s = v
    <2>1. /\ s = [tv_sec |-> s.tv_sec, tv_nsec |-> s.tv_nsec]
          /\ v = [tv_sec |-> v.tv_sec, tv_nsec |-> v.tv_nsec]
      BY DEF Timespecs
    <2> QED BY <1>3, <2>1
  <1>4. ASSUME j.assert_sequence = Len(a)
        PROVE  assert_timestamp(j) = Stamp(a, j.assert_sequence)
    <2>1. /\ j.assert_sec = Stamp(a, j.assert_sequence).tv_sec
          /\ j.assert_nsec = Stamp(a, j.assert_sequence).tv_nsec
      BY <1>4 DEF Copied
    <2>2. /\ assert_timestamp(j).tv_sec = j.assert_sec
          /\ assert_timestamp(j).tv_nsec = j.assert_nsec
      BY DEF assert_timestamp, Timespec
    <2>3. assert_timestamp(j) \in Timespecs
      BY StampsOfInfo
    <2>4. Stamp(a, j.assert_sequence) \in Timespecs
      BY <1>2, <1>4, StampType
    <2> QED BY <1>3, <2>1, <2>2, <2>3, <2>4
  <1>5. ASSUME j.clear_sequence = Len(b)
        PROVE  clear_timestamp(j) = Stamp(b, j.clear_sequence)
    <2>1. /\ j.clear_sec = Stamp(b, j.clear_sequence).tv_sec
          /\ j.clear_nsec = Stamp(b, j.clear_sequence).tv_nsec
      BY <1>5 DEF Copied
    <2>2. /\ clear_timestamp(j).tv_sec = j.clear_sec
          /\ clear_timestamp(j).tv_nsec = j.clear_nsec
      BY DEF clear_timestamp, Timespec
    <2>3. clear_timestamp(j) \in Timespecs
      BY StampsOfInfo
    <2>4. Stamp(b, j.clear_sequence) \in Timespecs
      BY <1>2, <1>5, StampType
    <2> QED BY <1>3, <2>1, <2>2, <2>3, <2>4
  <1>6. f.info.assert_sequence = Len(a) => AssertWhole(a, f)
    BY <1>1, <1>4 DEF AssertWhole
  <1>7. f.info.clear_sequence = Len(b) => ClearWhole(b, f)
    BY <1>1, <1>5 DEF ClearWhole
  <1>8. j.assert_sequence <= Len(a) /\ j.clear_sequence <= Len(b)
    BY DEF Copied
  <1> QED BY <1>1, <1>6, <1>7, <1>8

LEMMA CallCopied ==
    ASSUME ApiTypeInv, NEW c \in Clients, CallInv(c),
           call[c] # None, call[c].op = "fetch"
    PROVE  /\ call[c] \in FetchCalls
           /\ call[c].copied \in 0 .. 5
           /\ Copied(call[c].info, call[c].copied, Asserts(c), Clears(c),
                     fetched[c])
  <1>1. call[c] \in FetchCalls
    BY DEF ApiTypeInv
  <1>2. call[c].copied \in 0 .. 5
    BY <1>1 DEF FetchCalls, Words
  <1> QED BY <1>1, <1>2 DEF CallInv, Copied

LEMMA BeginFetch ==
    ASSUME FetchInv, NEW c \in Clients, NEW tsformat, FetchBegin(c, tsformat)
    PROVE  FetchInv'
  <1>1. ApiTypeInv /\ LogKept /\ FetchedInv(c)
    BY DEF FetchInv
  <1> DEFINE begun == [op |-> "fetch", tsf |-> Tsf(c, tsformat),
                       copied |-> 0, info |-> NoInfo]
  <1>2. /\ call' = [call EXCEPT ![c] = begun]
        /\ UNCHANGED <<host, handle, fetched, handler, pps_params, now,
                       pps_info, log>>
        /\ host # "Solaris" /\ handle[c] # None
    BY DEF FetchBegin, osfVars, captureVars, Opened
  <1>3. begun \in FetchCalls /\ begun.copied = 0
    <2>1. NoInfo \in Infos
      BY InfoType DEF NoInfo, Timespec, Timespecs
    <2>2. Tsf(c, tsformat) \in SUBSET FormatBits
      BY DEF FetchBegin
    <2> QED BY <2>1, <2>2 DEF FetchCalls, Words
  <1> HIDE DEF begun
  <1>4. ApiTypeInv'
    <2>1. call' \in [Clients -> FetchCalls \cup {None}
                        \cup [op : {"kcbind"}, mode : Modes]]
      BY <1>1, <1>2, <1>3 DEF ApiTypeInv
    <2>2. \A d \in Clients : handle'[d] = None => fetched'[d] = None
                                                  /\ call'[d] = None
      BY <1>1, <1>2 DEF ApiTypeInv
    <2> QED BY <1>1, <1>2, <2>1, <2>2 DEF ApiTypeInv
  <1>5. call'[c] = begun
    BY <1>1, <1>2 DEF ApiTypeInv
  <1>6. CallInv(c)'
    BY <1>2, <1>3, <1>5 DEF CallInv
  <1>7. FetchedInv(c)'
    BY <1>1, <1>2 DEF FetchedInv, AssertWhole, ClearWhole, Asserts, Clears,
                      Unit
  <1>8. \A d \in Clients : d # c => FetchedInv(d)' /\ CallInv(d)'
    BY <1>2, OthersKept
  <1>9. LogKept'
    BY <1>1, <1>2, LogStutter
  <1> QED BY <1>4, <1>6, <1>7, <1>8, <1>9 DEF FetchInv

(* The record that Fetched() leaves.                                       *)
Leaves(c, info, tsf) ==
    [info |-> Returned(info, handle[c].params, tsf),
     params |-> handle[c].params, tsf |-> tsf,
     current_mode |-> handle[c].params.mode]

LEMMA LeavesType ==
    ASSUME NEW c \in Clients, handle[c] \in Units, NEW i \in Infos,
           NEW tsf \in SUBSET FormatBits
    PROVE  /\ handle[c].params \in ParamsType
           /\ Leaves(c, i, tsf) \in Fetches
  <1>1. handle[c].params \in ParamsType
    BY SettingsParams DEF Units
  <1>2. Returned(i, handle[c].params, tsf) \in Infos
    BY <1>1, ReturnedInfo
  <1>3. handle[c].params.mode \in SUBSET ModeBits
    BY <1>1 DEF ParamsType
  <1> QED BY <1>1, <1>2, <1>3 DEF Leaves, Fetches

LEMMA WordFetch ==
    ASSUME FetchInv, NEW c \in Clients, FetchWord(c)
    PROVE  FetchInv'
  <1> DEFINE i == call[c].info
             n == call[c].copied
             r == pps_info[Unit(c)]
             j == Copy(i, r, n)
             a == Asserts(c)
             b == Clears(c)
             f == fetched[c]
             tsf == call[c].tsf
  <1>1. ApiTypeInv /\ LogKept /\ FetchedInv(c) /\ CallInv(c)
    BY DEF FetchInv
  <1>2. /\ call[c] # None /\ call[c].op = "fetch"
        /\ UNCHANGED <<host, handle, handler, pps_params, now,
                       pps_info, log>>
    BY DEF FetchWord, osfVars, captureVars
  <1>3. /\ call[c] \in FetchCalls /\ n \in 0 .. 5
        /\ Copied(i, n, a, b, f)
    BY <1>1, <1>2, CallCopied
  <1>4. i \in Infos /\ tsf \in SUBSET FormatBits
    BY <1>3 DEF FetchCalls
  <1>5. handle[c] \in Units /\ handle[c] # None
    BY <1>1, <1>2 DEF ApiTypeInv
  <1>6. Unit(c) \in Lines
    BY <1>1, <1>5, UnitIsLine DEF Opened
  <1>7. /\ a \in Seq(Timespecs) /\ b \in Seq(Timespecs) /\ r \in Infos
        /\ r = Info(Len(a), Stamp(a, Len(a)), Len(b), Stamp(b, Len(b)))
    BY <1>1, <1>6 DEF ApiTypeInv, LogKept, Asserts, Clears
  <1>8. f # None =>
            /\ f.info.assert_sequence = Len(a) => AssertWhole(a, f)
            /\ f.info.clear_sequence = Len(b) => ClearWhole(b, f)
    BY <1>1 DEF FetchedInv
  <1>9. j \in Infos /\ Copied(j, n + 1, a, b, f)
    <2> HIDE DEF i, n, r, a, b, f
    <2> QED BY <1>3, <1>4, <1>7, <1>8, CopiedOneMore
  <1>10. Len(Words) = 6
    BY DEF Words
  <1>11. Asserts(c)' = a /\ Clears(c)' = b /\ Unit(c)' = Unit(c)
    BY <1>2 DEF Asserts, Clears, Unit
  <1>12. CASE n < 5
    <2> DEFINE more == [op |-> "fetch", tsf |-> tsf, copied |-> n + 1,
                        info |-> j]
    <2>1. /\ call' = [call EXCEPT ![c] = more]
          /\ UNCHANGED fetched
      BY <1>3, <1>10, <1>12 DEF FetchWord, Copy
    <2>2. /\ more \in FetchCalls /\ more.copied = n + 1 /\ more.info = j
          /\ more.op = "fetch"
      BY <1>3, <1>4, <1>9, <1>10, <1>12 DEF FetchCalls
    <2> HIDE DEF more
    <2>3. call'[c] = more /\ fetched'[c] = f
      BY <1>1, <2>1 DEF ApiTypeInv
    <2>4. ApiTypeInv'
      <3>1. call' \in [Clients -> FetchCalls \cup {None}
                          \cup [op : {"kcbind"}, mode : Modes]]
        BY <1>1, <2>1, <2>2 DEF ApiTypeInv
      <3>2. \A d \in Clients : handle'[d] = None => fetched'[d] = None
                                                    /\ call'[d] = None
        BY <1>1, <1>2, <1>5, <2>1 DEF ApiTypeInv
      <3> QED BY <1>1, <1>2, <2>1, <3>1, <3>2 DEF ApiTypeInv
    <2>5. CallInv(c)'
      <3>1. host # "Solaris"
        BY <1>1, <1>2 DEF CallInv
      <3> HIDE DEF j, n, a, b, f
      <3> QED BY <1>2, <1>3, <1>9, <1>11, <2>2, <2>3, <3>1
              DEF CallInv, Copied, AssertWhole, ClearWhole
    <2>6. FetchedInv(c)'
      BY <1>1, <1>2, <2>1 DEF FetchedInv, AssertWhole, ClearWhole, Asserts,
                              Clears, Unit
    <2>7. \A d \in Clients : d # c => FetchedInv(d)' /\ CallInv(d)'
      BY <1>2, <2>1, OthersKept
    <2>8. LogKept'
      BY <1>1, <1>2, LogStutter
    <2> QED BY <2>4, <2>5, <2>6, <2>7, <2>8 DEF FetchInv
  <1>13. CASE n = 5
    <2> DEFINE left == Leaves(c, j, tsf)
    <2>1. /\ call' = [call EXCEPT ![c] = None]
          /\ fetched' = [fetched EXCEPT ![c] = left]
      BY <1>3, <1>10, <1>13 DEF FetchWord, Copy, Fetched, Leaves
    <2>2. left \in Fetches /\ handle[c].params \in ParamsType
      BY <1>4, <1>5, <1>9, LeavesType
    <2>3. /\ left.info = Returned(j, handle[c].params, tsf)
          /\ left.params = handle[c].params /\ left.tsf = tsf
      BY DEF Leaves
    <2> HIDE DEF left
    <2>4. call'[c] = None /\ fetched'[c] = left
      BY <1>1, <2>1 DEF ApiTypeInv
    <2>5. ApiTypeInv'
      <3>1. call' \in [Clients -> FetchCalls \cup {None}
                          \cup [op : {"kcbind"}, mode : Modes]]
        BY <1>1, <2>1 DEF ApiTypeInv
      <3>2. fetched' \in [Clients -> Fetches \cup {None}]
        BY <1>1, <2>1, <2>2 DEF ApiTypeInv
      <3>3. \A d \in Clients : handle'[d] = None => fetched'[d] = None
                                                    /\ call'[d] = None
        BY <1>1, <1>2, <1>5, <2>1 DEF ApiTypeInv
      <3> QED BY <1>1, <1>2, <3>1, <3>2, <3>3 DEF ApiTypeInv
    <2>6. CallInv(c)'
      BY <2>4 DEF CallInv
    <2>7. FetchedInv(c)'
      <3>1. host # "Solaris"
        BY <1>1, <1>2 DEF CallInv
      <3>2. Copied(j, 6, a, b, f)
        BY <1>9, <1>13
      <3>3. /\ left.info.assert_sequence <= Len(a)
            /\ left.info.clear_sequence <= Len(b)
            /\ left.info.assert_sequence = Len(a) => AssertWhole(a, left)
            /\ left.info.clear_sequence = Len(b) => ClearWhole(b, left)
        <4> HIDE DEF j, a, b, f, tsf
        <4> QED BY <1>7, <1>9, <2>2, <2>3, <3>2, CopiedReturns
      <3> HIDE DEF j, a, b, f, tsf
      <3> QED BY <1>2, <1>11, <2>4, <3>1, <3>3
              DEF FetchedInv, AssertWhole, ClearWhole
    <2>8. \A d \in Clients : d # c => FetchedInv(d)' /\ CallInv(d)'
      BY <1>2, <2>1, OthersKept
    <2>9. LogKept'
      BY <1>1, <1>2, LogStutter
    <2> QED BY <2>5, <2>6, <2>7, <2>8, <2>9 DEF FetchInv
  <1> QED BY <1>3, <1>12, <1>13

LEMMA AtOnceFetch ==
    ASSUME FetchInv, NEW c \in Clients, NEW tsformat, SolarisFetch(c, tsformat)
    PROVE  FetchInv'
  <1> DEFINE r == pps_info[Unit(c)]
             a == Asserts(c)
             b == Clears(c)
             left == Leaves(c, r, tsformat)
  <1>1. ApiTypeInv /\ LogKept
    BY DEF FetchInv
  <1>2. /\ host = "Solaris" /\ handle[c] # None /\ call[c] = None
        /\ tsformat \in SUBSET FormatBits
        /\ UNCHANGED <<host, handle, call, handler, pps_params, now,
                       pps_info, log>>
    BY DEF SolarisFetch, Opened, Free, osfVars, captureVars
  <1>3. handle[c] \in Units /\ Unit(c) = handle[c].filedes
    BY <1>1, <1>2 DEF ApiTypeInv, Unit
  <1>4. Unit(c) \in Lines
    BY <1>1, <1>2, UnitIsLine DEF Opened
  <1>5. /\ a \in Seq(Timespecs) /\ b \in Seq(Timespecs) /\ r \in Infos
        /\ r = Info(Len(a), Stamp(a, Len(a)), Len(b), Stamp(b, Len(b)))
    BY <1>1, <1>4 DEF ApiTypeInv, LogKept, Asserts, Clears
  <1>6. fetched' = [fetched EXCEPT ![c] = left]
    BY <1>3 DEF SolarisFetch, Fetched, Leaves
  <1>7. left \in Fetches /\ handle[c].params \in ParamsType
    BY <1>2, <1>3, <1>5, LeavesType
  <1>8. /\ left.info = Returned(r, handle[c].params, tsformat)
        /\ left.params = handle[c].params /\ left.tsf = tsformat
    BY DEF Leaves
  <1> HIDE DEF left
  <1>9. fetched'[c] = left /\ call'[c] = None
    BY <1>1, <1>2, <1>6 DEF ApiTypeInv
  <1>10. ApiTypeInv'
    <2>1. fetched' \in [Clients -> Fetches \cup {None}]
      BY <1>1, <1>6, <1>7 DEF ApiTypeInv
    <2>2. \A d \in Clients : handle'[d] = None => fetched'[d] = None
                                                  /\ call'[d] = None
      BY <1>1, <1>2, <1>6 DEF ApiTypeInv
    <2> QED BY <1>1, <1>2, <2>1, <2>2 DEF ApiTypeInv
  <1>11. Copied(r, 6, a, b, None)
    <2>1. /\ r.assert_sequence = Len(a) /\ r.clear_sequence = Len(b)
          /\ r.assert_sec = Stamp(a, Len(a)).tv_sec
          /\ r.assert_nsec = Stamp(a, Len(a)).tv_nsec
          /\ r.clear_sec = Stamp(b, Len(b)).tv_sec
          /\ r.clear_nsec = Stamp(b, Len(b)).tv_nsec
      BY <1>5 DEF Info
    <2>2. Len(a) \in Nat /\ Len(b) \in Nat
      BY <1>5
    <2> HIDE DEF r, a, b
    <2> QED BY <2>1, <2>2 DEF Copied
  <1>12. /\ left.info.assert_sequence = Len(a)
         /\ left.info.clear_sequence = Len(b)
    <2>1. /\ left.info.assert_sequence = r.assert_sequence
          /\ left.info.clear_sequence = r.clear_sequence
      BY <1>5, <1>7, <1>8, ReturnedInfo
    <2> QED BY <1>5, <2>1 DEF Info
  <1>13. AssertWhole(a, left) /\ ClearWhole(b, left)
    <2> HIDE DEF r, a, b
    <2> QED BY <1>5, <1>7, <1>8, <1>11, <1>12, CopiedReturns
  <1>14. FetchedInv(c)'
    <2>1. Asserts(c)' = a /\ Clears(c)' = b
      BY <1>2 DEF Asserts, Clears, Unit
    <2>2. Len(a) \in Nat /\ Len(b) \in Nat
      BY <1>5
    <2> HIDE DEF a, b
    <2> QED BY <1>9, <1>12, <1>13, <2>1, <2>2
            DEF FetchedInv, AssertWhole, ClearWhole
  <1>15. CallInv(c)'
    BY <1>9 DEF CallInv
  <1>16. \A d \in Clients : d # c => FetchedInv(d)' /\ CallInv(d)'
    BY <1>2, <1>6, OthersKept
  <1>17. LogKept'
    BY <1>1, <1>2, LogStutter
  <1> QED BY <1>10, <1>14, <1>15, <1>16, <1>17 DEF FetchInv

LEMMA FetchStep == FetchInv /\ HookInv /\ HookInv' /\ [ApiNext]_apiVars
                       => FetchInv'
  <1> SUFFICES ASSUME FetchInv, HookInv, HookInv', [ApiNext]_apiVars
               PROVE  FetchInv'
    OBVIOUS
  <1>1. CASE \E u \in LinesOf(host), edge \in BOOLEAN, gap \in Gaps :
                 DcdInterrupt(u, edge, gap)
    BY <1>1, InterruptFetch
  <1>2. CASE \E c \in Clients : \E u \in LinesOf(host) : time_pps_create(c, u)
    BY <1>2, CreateFetch
  <1>3. CASE \E c \in Clients : time_pps_destroy(c)
    BY <1>3, DestroyFetch
  <1>4. CASE \E c \in Clients : \E params \in Settings :
                 time_pps_setparams(c, params)
    BY <1>4, SetparamsFetch
  <1>5. CASE \E c \in Clients : FetchWord(c)
    BY <1>5, WordFetch
  <1>6. CASE \E c \in Clients : \E mode \in Modes : KcbindParams(c, mode)
    BY <1>6, KcbindFetch
  <1>7. CASE \E c \in Clients : \E mode \in Modes : SunKpcbind(c, mode)
    <2>1. UNCHANGED <<host, now, clientVars, handler, pps_info, log, pps_params>>
      BY <1>7 DEF SunKpcbind, osfVars, captureVars
    <2>2. pps_params \in [Lines -> ParamsType]
      BY DEF FetchInv, ApiTypeInv
    <2> QED BY <2>1, <2>2, ApiStutter
  <1>8. CASE \E c \in Clients : OsfKpcbind(c)
    BY <1>8, KpcbindFetch
  <1>9. CASE \E c \in Fetchers, tsformat \in Formats :
                 FetchBegin(c, tsformat)
    BY <1>9, BeginFetch, ApiAssumption
  <1>10. CASE \E c \in Fetchers, tsformat \in Formats :
                 SolarisFetch(c, tsformat)
    BY <1>10, AtOnceFetch, ApiAssumption
  <1>11. CASE UNCHANGED apiVars
    <2>1. UNCHANGED <<host, now, clientVars, handler, pps_info, log, pps_params>>
      BY <1>11 DEF apiVars, osfVars, captureVars
    <2>2. pps_params \in [Lines -> ParamsType]
      BY DEF FetchInv, ApiTypeInv
    <2> QED BY <2>1, <2>2, ApiStutter
  <1> QED BY <1>1, <1>2, <1>3, <1>4, <1>5, <1>6, <1>7, <1>8, <1>9, <1>10,
             <1>11 DEF ApiNext

LEMMA BothWhole ==
    ASSUME NEW p, NEW f, f.info \in Infos, f.params \in ParamsType,
           log[p].assert \in Seq(Timespecs), log[p].clear \in Seq(Timespecs),
           f.info.assert_sequence <= Len(log[p].assert),
           f.info.clear_sequence <= Len(log[p].clear),
           AssertWhole(log[p].assert, f), ClearWhole(log[p].clear, f)
    PROVE  Whole(p, f)
  <1> DEFINE i == f.info
             m == i.assert_sequence
             n == i.clear_sequence
             s == Stamp(log[p].assert, m)
             t == Stamp(log[p].clear, n)
             whole == Info(m, s, n, t)
             r == Returned(whole, f.params, f.tsf)
  <1>1. m \in Nat /\ n \in Nat
    BY DEF Infos
  <1>2. s \in Timespecs /\ t \in Timespecs
    BY <1>1, StampType
  <1>3. whole \in Infos
    BY <1>1, <1>2, InfoType
  <1>4. assert_timestamp(whole) = s /\ clear_timestamp(whole) = t
        /\ whole.assert_sequence = m /\ whole.clear_sequence = n
    BY <1>2 DEF Info, assert_timestamp, clear_timestamp, Timespec, Timespecs
  <1> DEFINE u == InFormat(AssertOffset(s, f.params), f.tsf)
             v == InFormat(ClearOffset(t, f.params), f.tsf)
  <1>5. /\ i.assert_sec = u.tv_sec /\ i.assert_nsec = u.tv_nsec
        /\ i.clear_sec = v.tv_sec /\ i.clear_nsec = v.tv_nsec
    BY DEF AssertWhole, ClearWhole
  <1> HIDE DEF whole, s, t
  <1>6. /\ r \in Infos
        /\ r.assert_sequence = m /\ r.clear_sequence = n
        /\ r.assert_sec = u.tv_sec /\ r.assert_nsec = u.tv_nsec
        /\ r.clear_sec = v.tv_sec /\ r.clear_nsec = v.tv_nsec
    <2> HIDE DEF u, v, r
    <2>1. /\ r = Returned(whole, f.params, f.tsf)
          /\ u = InFormat(AssertOffset(assert_timestamp(whole), f.params),
                          f.tsf)
          /\ v = InFormat(ClearOffset(clear_timestamp(whole), f.params),
                          f.tsf)
      BY <1>4 DEF r, u, v
    <2> QED BY <1>3, <1>4, <2>1, ReturnedInfo
  <1> HIDE DEF r, u, v, i
  <1>7. i \in Infos
    BY DEF i
  <1>8. i = [assert_sequence |-> i.assert_sequence,
             clear_sequence |-> i.clear_sequence,
             assert_sec |-> i.assert_sec, assert_nsec |-> i.assert_nsec,
             clear_sec |-> i.clear_sec, clear_nsec |-> i.clear_nsec]
    BY <1>7 DEF Infos
  <1>9. r = [assert_sequence |-> r.assert_sequence,
             clear_sequence |-> r.clear_sequence,
             assert_sec |-> r.assert_sec, assert_nsec |-> r.assert_nsec,
             clear_sec |-> r.clear_sec, clear_nsec |-> r.clear_nsec]
    BY <1>6 DEF Infos
  <1>10. i = r
    BY <1>5, <1>6, <1>8, <1>9
  <1> QED BY <1>10 DEF Whole, i, r, whole, s, t

(* Only its last word brings a fetch back.                                 *)
LEMMA OnlyLastWord ==
    ASSUME FetchInv, [ApiNext]_apiVars, NEW c \in Clients,
           call[c] # None, call[c].op = "fetch", call'[c] = None
    PROVE  FetchWord(c)
  <1>1. ApiTypeInv
    BY DEF FetchInv
  <1>2. \A d \in Clients : \A g : call' = [call EXCEPT ![d] = g] => d = c
    BY <1>1 DEF ApiTypeInv
  <1>3. call' # call
    OBVIOUS
  <1>4. ASSUME NEW u \in LinesOf(host), NEW edge \in BOOLEAN,
               NEW gap \in Gaps, DcdInterrupt(u, edge, gap)
        PROVE  FALSE
    BY <1>3, <1>4 DEF DcdInterrupt, clientVars
  <1>5. ASSUME NEW d \in Clients, NEW u \in LinesOf(host),
               time_pps_create(d, u)
        PROVE  FALSE
    BY <1>3, <1>5 DEF time_pps_create
  <1>6. ASSUME NEW d \in Clients, time_pps_destroy(d)
        PROVE  FALSE
    BY <1>3, <1>6 DEF time_pps_destroy
  <1>7. ASSUME NEW d \in Clients, NEW params \in Settings,
               time_pps_setparams(d, params)
        PROVE  FALSE
    BY <1>3, <1>7 DEF time_pps_setparams
  <1>8. ASSUME NEW d \in Clients, FetchWord(d)
        PROVE  FetchWord(c)
    <2>1. CASE call' = call
      BY <1>3, <2>1
    <2>2. CASE \E g : call' = [call EXCEPT ![d] = g]
      BY <1>2, <1>8, <2>2
    <2> QED BY <1>8, <2>1, <2>2 DEF FetchWord
  <1>9. ASSUME NEW d \in Clients, NEW mode \in Modes, KcbindParams(d, mode)
        PROVE  FALSE
    <2>1. call[d] = None /\ \E g : call' = [call EXCEPT ![d] = g]
      BY <1>9 DEF KcbindParams, Free
    <2> QED BY <1>2, <2>1
  <1>10. ASSUME NEW d \in Clients, NEW mode \in Modes, SunKpcbind(d, mode)
         PROVE  FALSE
    BY <1>3, <1>10 DEF SunKpcbind, clientVars
  <1>11. ASSUME NEW d \in Clients, OsfKpcbind(d)
         PROVE  FALSE
    <2>1. call[d].op = "kcbind" /\ \E g : call' = [call EXCEPT ![d] = g]
      BY <1>11 DEF OsfKpcbind
    <2> QED BY <1>2, <2>1
  <1>12. ASSUME NEW d \in Clients, NEW tsformat, FetchBegin(d, tsformat)
         PROVE  FALSE
    <2>1. call[d] = None /\ \E g : call' = [call EXCEPT ![d] = g]
      BY <1>12 DEF FetchBegin, Free
    <2> QED BY <1>2, <2>1
  <1>13. ASSUME NEW d \in Clients, NEW tsformat, SolarisFetch(d, tsformat)
         PROVE  FALSE
    BY <1>3, <1>13 DEF SolarisFetch
  <1>14. CASE UNCHANGED apiVars
    BY <1>3, <1>14 DEF apiVars, clientVars
  <1> QED BY <1>4, <1>5, <1>6, <1>7, <1>8, <1>9, <1>10, <1>11, <1>12, <1>13,
             <1>14, ApiAssumption DEF ApiNext

LEMMA RereadStep ==
    ASSUME FetchInv, [ApiNext]_apiVars, NEW c \in Clients, FetchReturns(c),
           fetched[c] # None, fetched'[c] # None,
           Numbers(fetched'[c]) = Numbers(fetched[c])
    PROVE  Whole(Unit(c), fetched[c])
  <1> DEFINE a == Asserts(c)
             b == Clears(c)
             f == fetched[c]
             i == call[c].info
             j == Copy(i, pps_info[Unit(c)], call[c].copied)
  <1>1. ApiTypeInv /\ LogKept /\ FetchedInv(c) /\ CallInv(c)
    BY DEF FetchInv
  <1>2. handle[c] # None /\ handle[c] \in Units /\ f \in Fetches
    BY <1>1 DEF ApiTypeInv
  <1>3. f.info \in Infos /\ f.params \in ParamsType
    BY <1>2 DEF Fetches
  <1>4. Unit(c) \in Lines
    BY <1>1, <1>2, UnitIsLine DEF Opened
  <1>5. /\ a \in Seq(Timespecs) /\ b \in Seq(Timespecs)
        /\ pps_info[Unit(c)] \in Infos
        /\ pps_info[Unit(c)] = Info(Len(a), Stamp(a, Len(a)),
                                    Len(b), Stamp(b, Len(b)))
    BY <1>1, <1>4 DEF ApiTypeInv, LogKept, Asserts, Clears
  <1>6. /\ f.info.assert_sequence <= Len(a)
        /\ f.info.clear_sequence <= Len(b)
        /\ f.info.assert_sequence = Len(a) => AssertWhole(a, f)
        /\ f.info.clear_sequence = Len(b) => ClearWhole(b, f)
    BY <1>1 DEF FetchedInv
  <1>7. AssertWhole(a, f) /\ ClearWhole(b, f)
    <2>1. CASE host = "Solaris"
      BY <1>1, <2>1 DEF FetchedInv
    <2>2. CASE host # "Solaris"
      <3>1. call[c] # None /\ call[c].op = "fetch" /\ call'[c] = None
        BY <2>2 DEF FetchReturns
      <3>2. FetchWord(c)
        BY <3>1, OnlyLastWord
      <3>3. /\ call[c] \in FetchCalls /\ call[c].copied \in 0 .. 5
            /\ Copied(i, call[c].copied, a, b, f)
        BY <1>1, <3>1, CallCopied
      <3>4. i \in Infos /\ call[c].tsf \in SUBSET FormatBits
        BY <3>3 DEF FetchCalls
      <3>5. j \in Infos /\ Copied(j, call[c].copied + 1, a, b, f)
        <4> HIDE DEF i, a, b, f
        <4> QED BY <1>5, <1>6, <3>3, <3>4, CopiedOneMore
      <3>6. Len(Words) = 6
        BY DEF Words
      <3>7. call[c].copied = 5
        <4> SUFFICES ASSUME call[c].copied < 5 PROVE FALSE
          BY <3>3
        <4> DEFINE more == [op |-> "fetch", tsf |-> call[c].tsf,
                            copied |-> call[c].copied + 1, info |-> j]
        <4>1. call' = [call EXCEPT ![c] = more]
          BY <3>2, <3>3, <3>6 DEF FetchWord, Copy
        <4>2. more \in FetchCalls
          BY <3>3, <3>4, <3>5, <3>6 DEF FetchCalls
        <4> HIDE DEF more
        <4>3. call'[c] = more
          BY <1>1, <4>1 DEF ApiTypeInv
        <4> QED BY <3>1, <4>2, <4>3, NoneAssumption
      <3>8. fetched' = [fetched EXCEPT ![c] = Leaves(c, j, call[c].tsf)]
        BY <3>2, <3>6, <3>7 DEF FetchWord, Copy, Fetched, Leaves
      <3>9. fetched'[c] = Leaves(c, j, call[c].tsf)
        BY <1>1, <3>8 DEF ApiTypeInv
      <3>10. handle[c].params \in ParamsType
        BY <1>2, <3>4, <3>5, LeavesType
      <3>11. fetched'[c].info = Returned(j, handle[c].params, call[c].tsf)
        BY <3>9 DEF Leaves
      <3>12. /\ fetched'[c].info.assert_sequence = j.assert_sequence
             /\ fetched'[c].info.clear_sequence = j.clear_sequence
        <4> HIDE DEF j
        <4> QED BY <3>5, <3>10, <3>11, ReturnedInfo
      <3>13. /\ f.info.assert_sequence = j.assert_sequence
             /\ f.info.clear_sequence = j.clear_sequence
        BY <3>12 DEF Numbers
      <3> HIDE DEF j, a, b, f
      <3> QED BY <3>5, <3>7, <3>13 DEF Copied, f
    <2> QED BY <2>1, <2>2
  <1> QED BY <1>3, <1>5, <1>6, <1>7, BothWhole DEF Asserts, Clears

(* A client that fetches again and gets the numbers that it had, holds one *)
(* pulse's number and time, however many clients fetch, on whatever host   *)
(* and line, with whatever offsets and formats: time_pps_fetch() copies    *)
(* pps_info word by word while the interrupt may fill it.                  *)
THEOREM RereadConfirmsHolds == ApiSpec => RereadConfirms
  <1>1. ASSUME FetchInv, [ApiNext]_apiVars
        PROVE  [\A c \in Clients :
                   /\ FetchReturns(c)
                   /\ fetched[c] # None /\ fetched'[c] # None
                   /\ Numbers(fetched'[c]) = Numbers(fetched[c])
                   => Whole(Unit(c), fetched[c])]_apiVars
    BY <1>1, RereadStep
  <1>2. FetchInv /\ [ApiNext]_apiVars =>
            [\A c \in Clients :
                   /\ FetchReturns(c)
                   /\ fetched[c] # None /\ fetched'[c] # None
                   /\ Numbers(fetched'[c]) = Numbers(fetched[c])
                   => Whole(Unit(c), fetched[c])]_apiVars
    BY <1>1
  <1> QED BY <1>2, FetchInit, FetchStep, HookInitInv, HookStep, PTL
          DEF ApiSpec, RereadConfirms
=============================================================================
