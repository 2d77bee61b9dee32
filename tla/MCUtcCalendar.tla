---------------------------- MODULE MCUtcCalendar ---------------------------
(***************************************************************************)
(* Walks for UtcCalendar: by days through a whole cycle of 400 years, the  *)
(* first years (where March years start before 0) and the last ones, and   *)
(* by seconds over a leap day and over a new year.                         *)
(***************************************************************************)
EXTENDS UtcCalendar

At(year, month, day, hour) ==
  [year |-> year, month |-> month, day |-> day, hour |-> hour, minute |-> 0, second |-> 0]

MCWalks ==
  {[by |-> "day", first |-> At(0, 1, 1, 0), last |-> At(5, 1, 1, 0)],
   [by |-> "day", first |-> At(1600, 1, 1, 0), last |-> At(2001, 1, 1, 0)],
   [by |-> "day", first |-> At(9990, 1, 1, 0), last |-> At(9999, 12, 31, 0)],
   [by |-> "second", first |-> At(2024, 2, 28, 22), last |-> At(2024, 3, 1, 2)],
   [by |-> "second", first |-> At(2023, 12, 31, 23), last |-> At(2024, 1, 1, 1)]}
=============================================================================
