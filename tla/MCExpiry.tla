-------------------------------- MODULE MCExpiry --------------------------------
(* A small instance of Expiry for TLC: a day of three seconds of two parts.  *)
EXTENDS Expiry, TLC

Time(at, part, east) == [form |-> "time", at |-> at, part |-> part, east |-> east]
OnDay(d) == [Time(d, 0, 0) EXCEPT !.form = "date"]

FirstSecond == -1

(* Times around each other, with offsets and fractions, dates, the first and *)
(* last that can be written and those that cannot once in UTC, none, junk.   *)
SomeTexts ==
  {Time(3, 0, 0), Time(3, 1, 0), Time(4, 0, 1), Time(2, 1, -1), Time(5, 0, 0),
   OnDay(1), OnDay(2), Time(Last, 0, -1), Time(Last, 1, 1), Time(First, 0, 1),
   [Time(0, 0, 0) EXCEPT !.form = "empty"], [Time(0, 0, 0) EXCEPT !.form = "junk"]}
================================================================================
