------------------------------ MODULE Calendar ------------------------------
(***************************************************************************)
(* The Gregorian calendar as a clock, the reference the driver's time      *)
(* conversions are checked against.  It knows no formula: a day follows    *)
(* another, a month ends after its last day, and `stamp' counts the days   *)
(* and the seconds since midnight of 1 January 1601, the origin of the     *)
(* time stamps on an NTFS volume.                                          *)
(*                                                                         *)
(* A second passes at a time on the days of TickDays, the last of which    *)
(* carries into the next day; on the others the clock goes from midnight   *)
(* to midnight, up to MaxDay.                                              *)
(***************************************************************************)
EXTENDS Naturals

CONSTANTS MaxDay,      \* the last day the clock reaches
          TickDays     \* the days on which every second is visited

ASSUME CalendarAssumption == /\ MaxDay \in Nat
                             /\ TickDays \subseteq Nat

VARIABLES civil,       \* the date and the time of day
          stamp        \* the days since 1601 and the seconds of the day

vars == <<civil, stamp>>

LeapYear(y) == y % 400 = 0 \/ (y % 4 = 0 /\ y % 100 # 0)

MonthLength(y, m) ==
    CASE m = 2                 -> IF LeapYear(y) THEN 29 ELSE 28
      [] m \in {4, 6, 9, 11}   -> 30
      [] OTHER                 -> 31

(***************************************************************************)
(* The same time of the following day.                                     *)
(***************************************************************************)
Tomorrow(c) ==
    LET lastOfMonth == c.Day = MonthLength(c.Year, c.Month)
        lastOfYear  == lastOfMonth /\ c.Month = 12
    IN  [c EXCEPT !.Day   = IF lastOfMonth THEN 1 ELSE @ + 1,
                  !.Month = IF lastOfYear THEN 1
                            ELSE IF lastOfMonth THEN @ + 1 ELSE @,
                  !.Year  = IF lastOfYear THEN @ + 1 ELSE @]

-----------------------------------------------------------------------------

Init ==
    /\ civil = [Year |-> 1601, Month |-> 1, Day |-> 1,
                Hour |-> 0, Minute |-> 0, Second |-> 0]
    /\ stamp = [days |-> 0, seconds |-> 0]

NextDay ==
    /\ stamp.days < MaxDay
    /\ stamp.seconds = 0
    /\ civil' = Tomorrow(civil)
    /\ stamp' = [stamp EXCEPT !.days = @ + 1]

NextSecond ==
    LET lastSecond == civil.Second = 59
        lastMinute == lastSecond /\ civil.Minute = 59
        midnight   == lastMinute /\ civil.Hour = 23
        later      == [civil EXCEPT
                          !.Second = IF lastSecond THEN 0 ELSE @ + 1,
                          !.Minute = IF lastMinute THEN 0
                                     ELSE IF lastSecond THEN @ + 1 ELSE @,
                          !.Hour   = IF midnight THEN 0
                                     ELSE IF lastMinute THEN @ + 1 ELSE @]
    IN  /\ stamp.days \in TickDays
        /\ stamp.days < MaxDay
        /\ civil' = IF midnight THEN Tomorrow(later) ELSE later
        /\ stamp' = IF midnight
                    THEN [days |-> stamp.days + 1, seconds |-> 0]
                    ELSE [stamp EXCEPT !.seconds = @ + 1]

Next == NextDay \/ NextSecond

Spec == Init /\ [][Next]_vars
=============================================================================
