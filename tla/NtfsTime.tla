------------------------------ MODULE NtfsTime ------------------------------
(***************************************************************************)
(* The time conversions of NtfsDxe/Misc.c, as operators, and what they     *)
(* promise along the calendar.                                             *)
(*                                                                         *)
(* A time stamp on the volume is a signed 64-bit number of 100 ns units.   *)
(* Here it is kept in mixed radix, [days, seconds, ticks], with ticks      *)
(* below TicksPerSecond and seconds below SECONDS_PER_DAY: the code's      *)
(* first three divisions take a stamp apart into just these.               *)
(***************************************************************************)
EXTENDS Calendar, FiniteSets

CONSTANTS Nanoseconds,   \* the Nanosecond fields a caller may set
          MaxYear        \* the last year of the leap year table

ASSUME TimeAssumption == /\ Nanoseconds \subseteq 0 .. 999999999
                         /\ MaxYear \in Nat

BASE_YEAR        == 1601
DAYS_PER_YEAR    == 365
SECONDS_PER_DAY  == 86400
SECONDS_PER_HOUR == 3600
DaysOfMonth      == <<31, 28, 31, 30, 31, 30, 31, 31, 30, 31, 30, 31>>

IS_LEAP_YEAR(a) == a % 4 = 0 /\ (a % 100 # 0 \/ a % 400 = 0)

-----------------------------------------------------------------------------
(* NtfsIsValidTime                                                         *)

InRange(t) ==
    /\ t.Year >= 1980
    /\ t.Month \in 1 .. 12
    /\ t.Day \in 1 .. 31
    /\ t.Hour <= 23 /\ t.Minute <= 59 /\ t.Second <= 59
    /\ t.Nanosecond <= 999999999

NtfsIsValidTime_NoLeapDay(t) ==
    InRange(t) /\ t.Day <= DaysOfMonth[t.Month]

NtfsIsValidTime(t) ==
    /\ InRange(t)
    /\ t.Day <= DaysOfMonth[t.Month]
                   + (IF t.Month = 2 /\ IS_LEAP_YEAR(t.Year) THEN 1 ELSE 0)

-----------------------------------------------------------------------------
(* EfiTime2NtfsTime                                                        *)

(***************************************************************************)
(* The loop that counts the leap years before the year of the date.        *)
(***************************************************************************)
AddedDays ==
    [y \in BASE_YEAR .. MaxYear |->
        Cardinality({x \in BASE_YEAR .. y - 1 : IS_LEAP_YEAR(x)})]

(***************************************************************************)
(* The loop over the months before the month of the date.                  *)
(***************************************************************************)
DaysBeforeMonth[m \in 1 .. 12] ==
    IF m = 1 THEN 0 ELSE DaysBeforeMonth[m - 1] + DaysOfMonth[m - 1]

DaysOf_LeapFromFebruary(t) ==
    (t.Year - BASE_YEAR) * DAYS_PER_YEAR + AddedDays[t.Year]
        + DaysBeforeMonth[t.Month] + t.Day - 1
        + (IF IS_LEAP_YEAR(t.Year) /\ t.Month >= 2 THEN 1 ELSE 0)

DaysOf(t) ==
    (t.Year - BASE_YEAR) * DAYS_PER_YEAR + AddedDays[t.Year]
        + DaysBeforeMonth[t.Month] + t.Day - 1
        + (IF IS_LEAP_YEAR(t.Year) /\ t.Month > 2 THEN 1 ELSE 0)

EfiTime2NtfsTime(t) ==
    [days    |-> DaysOf(t),
     seconds |-> t.Hour * SECONDS_PER_HOUR + t.Minute * 60 + t.Second,
     ticks   |-> t.Nanosecond \div 100]

-----------------------------------------------------------------------------
(* NtfsTime2EfiTime                                                        *)

(***************************************************************************)
(* The year a day is in and the day of that year, from 0, found by taking  *)
(* out periods of 400, 100, 4 years and a year.  The day number is the low *)
(* 19 bits of the quotient.                                                *)
(***************************************************************************)
YearAndDay_PlainCentury(days) ==
    LET d    == days % 2^19
        d400 == d % 146097
        c100 == d400 \div 36524
        d100 == d400 - 36524 * c100
        d4   == d100 % 1461
        c1   == (3 * d4 + 3) \div 1096
    IN  [year |-> BASE_YEAR + 400 * (d \div 146097) + 100 * c100
                     + 4 * (d100 \div 1461) + c1,
         day  |-> d4 - DAYS_PER_YEAR * c1]

YearAndDay(days) ==
    LET d    == days % 2^19
        d400 == d % 146097
        c100 == (3 * d400 + 3) \div 109573
        d100 == d400 - 36524 * c100
        d4   == d100 % 1461
        c1   == (3 * d4 + 3) \div 1096
    IN  [year |-> BASE_YEAR + 400 * (d \div 146097) + 100 * c100
                     + 4 * (d100 \div 1461) + c1,
         day  |-> d4 - DAYS_PER_YEAR * c1]

(***************************************************************************)
(* The month and the day in it.  A year without a leap day skips number    *)
(* 59, which stands for 29 February.                                       *)
(***************************************************************************)
MonthAndDay(y) ==
    LET noLeapDay == IF y.year % 100 = 0 THEN y.year % 400 # 0
                                         ELSE y.year % 4 # 0
        day == IF noLeapDay /\ y.day > 58 THEN y.day + 1 ELSE y.day
        mon == IF day > 59 THEN (5 * day + 161) \div 153 ELSE day \div 31 + 1
    IN  [month |-> mon,
         day   |-> IF day > 59 THEN day - (153 * mon - 162) \div 5
                               ELSE day - 31 * (mon - 1) + 1]

NtfsTime2EfiTime(s) ==
    LET y == YearAndDay(s.days)
        m == MonthAndDay(y)
    IN  [Year |-> y.year, Month |-> m.month, Day |-> m.day,
         Hour |-> s.seconds \div SECONDS_PER_HOUR,
         Minute |-> (s.seconds \div 60) % 60,
         Second |-> s.seconds % 60,
         Nanosecond |-> s.ticks * 100]

-----------------------------------------------------------------------------
(* Properties                                                              *)

EfiTime(c, ns) ==
    [Year |-> c.Year, Month |-> c.Month, Day |-> c.Day, Hour |-> c.Hour,
     Minute |-> c.Minute, Second |-> c.Second, Nanosecond |-> ns]

(***************************************************************************)
(* What GetInfo and a directory listing show: the date and the time        *)
(* NtfsTime2EfiTime finds, by its divisions by periods of years, for every *)
(* stamp are the ones the calendar has arrived at by counting.             *)
(***************************************************************************)
StampShowsItsDate ==
    NtfsTime2EfiTime([days |-> stamp.days, seconds |-> stamp.seconds,
                      ticks |-> 0]) = EfiTime(civil, 0)

(***************************************************************************)
(* What SetInfo stores: EfiTime2NtfsTime maps every date to the number of  *)
(* days and seconds the calendar has counted up to it, so a caller that    *)
(* reads the time back sees the one it set, to the 100 ns the stamp holds. *)
(***************************************************************************)
SetTimeReadsBack ==
    \A ns \in Nanoseconds :
        LET stored == EfiTime2NtfsTime(EfiTime(civil, ns))
        IN  /\ stored.days = stamp.days /\ stored.seconds = stamp.seconds
            /\ NtfsTime2EfiTime(stored) = EfiTime(civil, ns - (ns % 100))

(***************************************************************************)
(* SetInfo refuses a time with NtfsIsValidTime before it converts it: from *)
(* 1980 on the days it accepts are the days of the calendar, no day of a   *)
(* month too few or too many, and before 1980 it accepts none.             *)
(***************************************************************************)
AcceptsCalendarDays ==
    \A d \in {0, civil.Day} \cup 29 .. 32 :
        NtfsIsValidTime(EfiTime([civil EXCEPT !.Day = d], 0))
            <=> /\ civil.Year >= 1980
                /\ d \in 1 .. MonthLength(civil.Year, civil.Month)
=============================================================================
