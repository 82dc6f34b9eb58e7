------------------------------- MODULE Clocks --------------------------------
(* Local times of src/src/Util/util.cpp and local_time.cpp: the offset that *)
(* threads share and calibrate while daylight saving time switches, and the *)
(* calendar that no_locks_localtime counts out of a time_t.                 *)
EXTENDS Integers

CONSTANTS
  Askers,            \* threads
  RefreshInterval,   \* s_gmtoff_refresh_interval
  Zones,             \* values of timezone: seconds west of Greenwich
  Bases,             \* values of time() at the start
  TimeStep, MaxSteps \* how time goes on

SecsMin == 60
SecsHour == 3600
SecsDay == 86400

ASSUME LocalTimeAssumption ==
  /\ RefreshInterval \in Nat /\ TimeStep \in Nat \ {0} /\ MaxSteps \in Nat
  /\ \A z \in Zones, b \in Bases : z \in Int /\ b \in Nat /\ b >= z

VARIABLES
  zone, base, wall,        \* _current_timezone; time() at the start and now
  summer, switched,        \* daylight saving time is in effect; when it began
  daylight, gmtoff, gmtoffTime, \* _daylight_active, s_gmtoff, s_gmtoff_time
  asker                    \* thread -> its step, and what it has read

timeVars == <<zone, base, wall, summer, switched, daylight, gmtoff, gmtoffTime, asker>>
worldVars == <<zone, base, wall, summer, switched>>

Resting == [step |-> "none", asked |-> 0, last |-> 0, now |-> 0, isdst |-> 0, off |-> 0,
            behind |-> FALSE]  \* another thread calibrates (history)

TimeInit ==
  /\ zone \in Zones /\ base \in Bases /\ wall = base
  /\ summer = 0 /\ switched = base - RefreshInterval - TimeStep
  /\ daylight = 0 /\ gmtoff = -zone /\ gmtoffTime = base
  /\ asker = [t \in Askers |-> Resting]

(* A thread that calibrates is not put off for so long.                     *)
Passes ==
  /\ wall < base + MaxSteps * TimeStep /\ \A t \in Askers : asker[t].step # "stores"
  /\ wall' = wall + TimeStep
  /\ UNCHANGED <<zone, base, summer, switched, daylight, gmtoff, gmtoffTime, asker>>

DstBegins ==
  /\ summer = 0 /\ summer' = 1 /\ switched' = wall
  /\ UNCHANGED <<zone, base, wall, daylight, gmtoff, gmtoffTime, asker>>

-----------------------------------------------------------------------------
(* refreshGMTOff: a test, an exchange that one thread wins, and the query.  *)

Ask(t) ==
  /\ asker[t].step \in {"none", "done"}
  /\ asker' = [asker EXCEPT ![t] = [Resting EXCEPT !.step = "tests", !.asked = wall]]
  /\ UNCHANGED <<worldVars, daylight, gmtoff, gmtoffTime>>

RefreshTest(t) ==
  /\ asker[t].step = "tests"
  /\ LET fresh == wall - gmtoffTime < RefreshInterval /\ gmtoffTime - wall < RefreshInterval
     IN asker' = [asker EXCEPT ![t].step = IF fresh THEN "reads" ELSE "exchanges",
                               ![t].last = IF fresh THEN 0 ELSE gmtoffTime,
                               ![t].now = IF fresh THEN 0 ELSE wall]
  /\ UNCHANGED <<worldVars, daylight, gmtoff, gmtoffTime>>

RefreshExchange(t) ==
  /\ asker[t].step = "exchanges"
  /\ IF gmtoffTime = asker[t].last
     THEN gmtoffTime' = asker[t].now /\ asker' = [asker EXCEPT ![t].step = "queries"]
     ELSE asker' = [asker EXCEPT ![t].step = "reads"] /\ UNCHANGED gmtoffTime
  /\ UNCHANGED <<worldVars, daylight, gmtoff>>

(* local_time_refresh                                                       *)
Query(t) ==
  /\ asker[t].step = "queries"
  /\ asker' = [asker EXCEPT ![t].step = "stores", ![t].isdst = summer]
  /\ UNCHANGED <<worldVars, daylight, gmtoff, gmtoffTime>>

(* Mutant: the flag is kept as it was when the program started.             *)
StoreOffsetOnly(t) ==
  /\ asker[t].step = "stores"
  /\ gmtoff' = 3600 * asker[t].isdst - zone
  /\ asker' = [asker EXCEPT ![t].step = "reads"]
  /\ UNCHANGED <<worldVars, daylight, gmtoffTime>>

Store(t) ==
  /\ asker[t].step = "stores"
  /\ daylight' = asker[t].isdst /\ gmtoff' = 3600 * asker[t].isdst - zone
  /\ asker' = [asker EXCEPT ![t].step = "reads"]
  /\ UNCHANGED <<worldVars, gmtoffTime>>

Calibrating == \E u \in Askers : asker[u].step \in {"queries", "stores"}

(* no_locks_localtime reads the flag once; getGMTOff reads s_gmtoff.        *)
Read(t) ==
  /\ asker[t].step = "reads"
  /\ asker' = [asker EXCEPT ![t].step = "done", ![t].isdst = daylight, ![t].off = gmtoff,
                            ![t].last = 0, ![t].now = 0, ![t].behind = Calibrating]
  /\ UNCHANGED <<worldVars, daylight, gmtoff, gmtoffTime>>

TimeNext ==
  \/ Passes \/ DstBegins
  \/ \E t \in Askers : \/ Ask(t) \/ RefreshTest(t) \/ RefreshExchange(t) \/ Query(t) \/ Store(t)
                       \/ Read(t)

TimeSpec == TimeInit /\ [][TimeNext]_timeVars

-----------------------------------------------------------------------------
(* no_locks_localtime                                                       *)

(* Mutant: no century is a leap year.                                       *)
LeapNoCentury(year) == IF year % 4 = 0 /\ year % 100 # 0 THEN 1 ELSE 0
IsLeapYear(year) == IF year % 4 = 0 /\ (year % 100 # 0 \/ year % 400 = 0) THEN 1 ELSE 0

MonthDays(year) == <<31, 28 + IsLeapYear(year), 31, 30, 31, 30, 31, 31, 30, 31, 30, 31>>

YearOf(days) ==
  LET from[d \in 0 .. days, y \in 1970 .. 1970 + days \div 365] ==
        IF d < 365 + IsLeapYear(y) THEN [year |-> y, yday |-> d]
        ELSE from[d - 365 - IsLeapYear(y), y + 1]
  IN from[days, 1970]

MonthOf(year, yday) ==
  LET from[d \in 0 .. 365, m \in 1 .. 12] ==
        IF d < MonthDays(year)[m] THEN [mon |-> m - 1, mday |-> d + 1]
        ELSE from[d - MonthDays(year)[m], m + 1]
  IN from[yday, 1]

Broken(time, isdst) ==
  LET off == 3600 * isdst - zone
      days == (time + off) \div SecsDay
      seconds == (time + off) % SecsDay
      y == YearOf(days)
      m == MonthOf(y.year, y.yday)
  IN [isdst |-> isdst, gmtoff |-> off, wday |-> (days + 4) % 7,
      year |-> y.year - 1900, yday |-> y.yday, mon |-> m.mon, mday |-> m.mday,
      hour |-> seconds \div SecsHour, min |-> (seconds % SecsHour) \div SecsMin,
      sec |-> (seconds % SecsHour) % SecsMin]

-----------------------------------------------------------------------------
(* The days before a date of the Gregorian calendar, in one formula: years  *)
(* that begin in March, so that a leap day is the last of its year.         *)
DaysBefore(year, mon, mday) ==
  LET m == (mon + 10) % 12
      y == year - m \div 10
      count == 365 * y + y \div 4 - y \div 100 + y \div 400 + (m * 306 + 5) \div 10 + mday - 1
  IN count - 719468

Same(tm, time) ==
  LET days == DaysBefore(tm.year + 1900, tm.mon, tm.mday)
  IN /\ SecsDay * days + SecsHour * tm.hour + SecsMin * tm.min + tm.sec = time + tm.gmtoff
     /\ tm.mon \in 0 .. 11 /\ tm.mday \in 1 .. 31 /\ tm.hour \in 0 .. 23
     /\ tm.min \in 0 .. 59 /\ tm.sec \in 0 .. 59
     /\ tm.yday = days - DaysBefore(tm.year + 1900, 0, 1)
     /\ tm.wday = (days + 4) % 7

(* A broken-down time is the instant it was made of, in its own offset; and *)
(* it and getGMTOff() are in daylight saving time at the latest an interval *)
(* after the switch, though one thread alone calibrates, but for the calls  *)
(* that do not wait for the one that does.                                  *)
LocalTimeRight ==
  \A t \in Askers : asker[t].step = "done" =>
    /\ Same(Broken(asker[t].asked, asker[t].isdst), asker[t].asked)
    /\ asker[t].asked > switched + RefreshInterval /\ ~asker[t].behind =>
         asker[t].isdst = summer /\ asker[t].off = 3600 * summer - zone

-----------------------------------------------------------------------------
(* The stamps of src/src/Util: the thread of util.cpp that samples the      *)
(* system time, which may be set, and the objects that live on its elapsed  *)
(* time: SmoothTicker of TimeTicker.h and BytesSpeed of SpeedStatistic.h.   *)
CONSTANTS
  MaxGap,        \* 1000 * 1000: a longer time between two samples is not counted
  MaxPassed,     \* how long the program runs
  Shifts,        \* by how much the system time is set forward or back
  MaxShifts,
  ResetMs,       \* _reset_ms
  MaxAsks,       \* calls of elapsedTime
  SpeedPeriod, BytesAtOnce, SomeBytes \* 1000 ms, 1 MB, and sizes that are sent

ASSUME StampAssumption ==
  /\ {MaxGap, MaxPassed, MaxShifts, ResetMs, MaxAsks, SpeedPeriod, BytesAtOnce} \subseteq Nat
  /\ MaxAsks <= 6 /\ SomeBytes \subseteq Nat /\ Shifts \subseteq Int

VARIABLES
  passed, system, shifts,  \* time since the start, the system time, times it was set
  sampled, stamp,          \* last, and s_currentMicrosecond
  honest,                  \* of the last sample: when, by how much the stamp grew, how long the
                           \* sample before was ago; and the time was set since (history)
  smooth,                  \* SmoothTicker
  speed                    \* BytesSpeed

stampVars == <<passed, system, shifts, sampled, stamp, honest, smooth, speed>>

(* Fractions of _time_inc, which is a double: divisions by 3 * n, n <= 5.   *)
Scale == 180

StampInit ==
  /\ passed = 0 /\ system = 0 /\ shifts = 0 /\ sampled = 0 /\ stamp = 0
  /\ honest = [passed |-> 0, grew |-> 0, due |-> 0, set |-> FALSE]
  /\ smooth = [first |-> 0, last |-> 0, inc |-> 0, count |-> 0, asks |-> 0, before |-> 0]
  /\ speed = [speed |-> 0, bytes |-> 0, total |-> 0, since |-> 0, computed |-> 0]

TimePasses ==
  /\ passed < MaxPassed /\ passed' = passed + 1 /\ system' = system + 1
  /\ UNCHANGED <<shifts, sampled, stamp, honest, smooth, speed>>

SetSystemTime(by) ==
  /\ shifts < MaxShifts /\ shifts' = shifts + 1
  /\ system' = system + by /\ honest' = [honest EXCEPT !.set = TRUE]
  /\ UNCHANGED <<passed, sampled, stamp, smooth, speed>>

(* A time that was set, and one that is too long, are not relied on.        *)
Sampled(grew) ==
  LET ago == passed - honest.passed
  IN [passed |-> passed, grew |-> grew, set |-> FALSE,
      due |-> IF honest.set \/ ago >= MaxGap THEN grew ELSE ago]

(* Mutant: what is out of range is compared with the same time again.       *)
SampleKeepsLast ==
  LET expired == system - sampled
      counts == 0 < expired /\ expired < MaxGap
  IN /\ sampled' = IF counts THEN system ELSE sampled
     /\ stamp' = stamp + IF counts THEN expired ELSE 0
     /\ honest' = Sampled(stamp' - stamp)
     /\ UNCHANGED <<passed, system, shifts, smooth, speed>>

(* One turn of the stamp thread.                                            *)
Sample ==
  LET expired == system - sampled
      counts == 0 < expired /\ expired < MaxGap
  IN /\ sampled' = system
     /\ stamp' = stamp + IF counts THEN expired ELSE 0
     /\ honest' = Sampled(stamp' - stamp)
     /\ UNCHANGED <<passed, system, shifts, smooth, speed>>

-----------------------------------------------------------------------------
(* SmoothTicker::elapsedTime: the stretches by which the time grows are     *)
(* averaged; after ResetMs it waits for the time to catch up.               *)

(* Mutant: it does not wait for the time to catch up.                       *)
SmoothedAtOnce(now) ==
  LET s == smooth
      fast == s.inc + ((now - s.first) \div (s.count + 1)) * Scale
  IN IF s.first = 0
     THEN [s EXCEPT !.first = now, !.last = now, !.count = 0, !.inc = 0]
     ELSE [s EXCEPT !.inc = fast, !.count = @ + 1, !.last = (s.first * Scale + fast) \div Scale,
                    !.first = IF now - s.first > ResetMs THEN 0 ELSE @]

Smoothed(now) ==
  LET s == smooth
      n == s.count + 1
      behind == s.last * Scale - s.inc
      slow == s.inc + (now * Scale - behind) \div (n * 3)
      fast == s.inc + ((now - s.first) \div n) * Scale
  IN IF s.first = 0 /\ now < s.last
     THEN [s EXCEPT !.inc = slow, !.count = n, !.last = (behind + slow) \div Scale]
     ELSE IF s.first = 0
     THEN [s EXCEPT !.first = now, !.last = now, !.count = 0, !.inc = 0]
     ELSE [s EXCEPT !.inc = fast, !.count = n, !.last = (s.first * Scale + fast) \div Scale,
                    !.first = IF now - s.first > ResetMs THEN 0 ELSE @]

AskSmooth ==
  /\ smooth.asks < MaxAsks
  /\ smooth' = [Smoothed(stamp) EXCEPT !.asks = @ + 1, !.before = smooth.last]
  /\ UNCHANGED <<passed, system, shifts, sampled, stamp, honest, speed>>

-----------------------------------------------------------------------------
(* Mutant: what comes while no time has passed is dropped.                  *)
ComputedDrops(s) ==
  [s EXCEPT !.speed = IF stamp = s.since THEN @ ELSE (s.bytes * SpeedPeriod) \div (stamp - s.since),
            !.computed = IF stamp = s.since THEN @ ELSE @ + s.bytes,
            !.since = stamp, !.bytes = 0]

(* computeSpeed                                                             *)
Computed(s) ==
  IF stamp = s.since THEN s
  ELSE [s EXCEPT !.speed = (s.bytes * SpeedPeriod) \div (stamp - s.since),
                 !.computed = @ + s.bytes, !.since = stamp, !.bytes = 0]

AddBytes(n) ==
  /\ speed.total < 2 * BytesAtOnce
  /\ LET s == [speed EXCEPT !.bytes = @ + n]
     IN speed' = [(IF s.bytes > BytesAtOnce THEN Computed(s) ELSE s) EXCEPT !.total = @ + n]
  /\ UNCHANGED <<passed, system, shifts, sampled, stamp, honest, smooth>>

GetSpeed ==
  /\ stamp - speed.since >= SpeedPeriod
  /\ speed' = Computed(speed)
  /\ UNCHANGED <<passed, system, shifts, sampled, stamp, honest, smooth>>

StampNext ==
  \/ TimePasses \/ Sample \/ AskSmooth \/ GetSpeed
  \/ \E by \in Shifts : SetSystemTime(by)
  \/ \E n \in SomeBytes : AddBytes(n)

StampSpec == StampInit /\ [][StampNext]_stampVars

-----------------------------------------------------------------------------
(* The elapsed stamp "cannot be rolled back" (util.h), and once the system  *)
(* time is left alone it goes on as fast as time does, whatever it was set  *)
(* to before.                                                               *)
StampGoesOn == honest.grew >= 0 /\ honest.grew = honest.due

(* A smoothed time never goes back, and every byte counts for one speed.    *)
TickersInOrder ==
  /\ smooth.before <= smooth.last
  /\ speed.total = speed.computed + speed.bytes

=============================================================================
