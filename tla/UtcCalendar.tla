----------------------------- MODULE UtcCalendar ----------------------------
(***************************************************************************)
(* A walk through the timestamps that secure_time accepts, in the order of *)
(* their texts, by days or by seconds. The acceptance of a date (month     *)
(* lengths, leap years) and the count of its days are separate algorithms  *)
(* in the code; the walk uses the first and the property compares it with  *)
(* the second.                                                             *)
(***************************************************************************)
EXTENDS UtcTime

CONSTANT Walks    \* records [by, first, last]

ASSUME WalksAssumption ==
  /\ Walks \subseteq [by : {"day", "second"}, first : Timestamp, last : Timestamp]
  /\ \A w \in Walks : IsUtc(w.first)

VARIABLES walk, now

calendar_vars == <<walk, now>>

\* The first accepted of the candidates, from the smallest step to the largest.
FollowingDay(t) ==
  LET tomorrow   == [t EXCEPT !.day = @ + 1]
      next_month == [t EXCEPT !.day = 1, !.month = @ + 1]
  IN IF IsUtc(tomorrow) THEN tomorrow
     ELSE IF IsUtc(next_month) THEN next_month
     ELSE [t EXCEPT !.day = 1, !.month = 1, !.year = @ + 1]

FollowingSecond(t) ==
  LET next_second == [t EXCEPT !.second = @ + 1]
      next_minute == [t EXCEPT !.second = 0, !.minute = @ + 1]
      next_hour   == [t EXCEPT !.second = 0, !.minute = 0, !.hour = @ + 1]
  IN IF IsUtc(next_second) THEN next_second
     ELSE IF IsUtc(next_minute) THEN next_minute
     ELSE IF IsUtc(next_hour) THEN next_hour
     ELSE FollowingDay([t EXCEPT !.second = 0, !.minute = 0, !.hour = 0])

CalendarInit ==
  /\ walk \in Walks
  /\ now = walk.first

\* A year has four digits.
Move(following) ==
  /\ now # walk.last /\ following \in Timestamp
  /\ now' = following
  /\ UNCHANGED walk

NextDay == walk.by = "day" /\ Move(FollowingDay(now))

NextSecond == walk.by = "second" /\ Move(FollowingSecond(now))

CalendarNext == NextDay \/ NextSecond

CalendarSpec == CalendarInit /\ [][CalendarNext]_calendar_vars

-----------------------------------------------------------------------------
(* Properties *)

\* A timestamp that follows another by a day or a second is counted one day or
\* one second later: what the parser accepts has no gap and no date twice, at
\* the ends of months, in leap years and in the first year of a century.
EachStepCounts ==
  [][IF walk.by = "day" THEN EpochDays(now') = EpochDays(now) + 1
     ELSE EpochSeconds(now') = EpochSeconds(now) + 1]_calendar_vars
=============================================================================
