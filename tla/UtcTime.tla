------------------------------- MODULE UtcTime ------------------------------
(***************************************************************************)
(* How secure_time reads a UTC timestamp (parse_utc_timestamp): which of   *)
(* the texts "YYYY-MM-DDThh:mm:ssZ" it accepts and the seconds since 1970  *)
(* that it makes of them. A text of that form is the record of its numbers;*)
(* one of another form is refused and is left to the modules that use this *)
(* one. A definition whose name starts with Mut is a plausible mistake in  *)
(* the definition after it.                                                *)
(***************************************************************************)
EXTENDS Integers

Timestamp == [year : 0 .. 9999, month : 0 .. 99, day : 0 .. 99,
              hour : 0 .. 99, minute : 0 .. 99, second : 0 .. 99]

MutIsLeapYear(year) == year % 4 = 0 /\ year % 100 # 0

IsLeapYear(year) == (year % 4 = 0 /\ year % 100 # 0) \/ year % 400 = 0

DaysInMonth(year, month) ==
  IF month \in {4, 6, 9, 11} THEN 30
  ELSE IF month # 2 THEN 31
  ELSE IF IsLeapYear(year) THEN 29 ELSE 28

\* Years are counted from March, so that the leap day is their last. The only
\* year before 0 is -1, where the division of C++ and the one here agree.
DaysFromCivil(year, month, day) ==
  LET y   == IF month <= 2 THEN year - 1 ELSE year
      era == (IF y >= 0 THEN y ELSE y - 399) \div 400
      yoe == y - era * 400
      doy == (153 * (IF month > 2 THEN month - 3 ELSE month + 9) + 2) \div 5 + day - 1
      doe == yoe * 365 + yoe \div 4 - yoe \div 100 + doy
  IN era * 146097 + doe - 719468

\* The texts that parse_utc_timestamp accepts.
IsUtc(t) ==
  /\ t.month \in 1 .. 12
  /\ t.day \in 1 .. DaysInMonth(t.year, t.month)
  /\ t.hour <= 23 /\ t.minute <= 59 /\ t.second <= 59

EpochDays(t) == DaysFromCivil(t.year, t.month, t.day)

SecondOfDay(t) == t.hour * 3600 + t.minute * 60 + t.second

EpochSeconds(t) == EpochDays(t) * 86400 + SecondOfDay(t)
=============================================================================
