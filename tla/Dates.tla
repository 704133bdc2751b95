------------------------------- MODULE Dates -------------------------------
(***************************************************************************)
(* The dates of src/dt, from 1583 on, and the timestamps of HTTP. Months   *)
(* and days of week are counted from zero, as their enumerations, and the  *)
(* first day of the week is Sunday.                                        *)
(***************************************************************************)
EXTENDS Integers, SequencesExt

CONSTANTS
  FirstYears,  \* years the calendar starts with
  MaxDays      \* bound: days it is turned

VARIABLE today  \* the timestamp, its number from the first year on, and the days turned

First_year == 1583
Month == 0..11

is_leap_year(year) == (year % 100 # 0 /\ year % 4 = 0) \/ year % 400 = 0

days_of_year(year) == IF is_leap_year(year) THEN 366 ELSE 365

day_count(year, month) ==
  CASE month = 1 -> IF is_leap_year(year) THEN 29 ELSE 28
    [] month \in {3, 5, 8, 10} -> 30
    [] month \in Month \ {1, 3, 5, 8, 10} -> 31

is_date_acceptable(year, month, day) == year >= First_year /\ day \in 1..day_count(year, month)

day_of_week(year, month, day) ==
  LET a == (14 - (month + 1)) \div 12
      y == year - a
      m == month + 1 + 12 * a - 2
  IN (day + y + y \div 4 - y \div 100 + y \div 400 + (31 * m) \div 12) % 7

day_of_year(year, month, day) ==
  FoldLeft(LAMBDA n, m : n + day_count(year, m - 1), day, [m \in 1..month |-> m])

day_of_epoch(year, month, day) ==
  LET before[y \in Nat] == IF y = First_year THEN 0 ELSE before[y - 1] + days_of_year(y - 1)
  IN before[year] + day_of_year(year, month, day)

-----------------------------------------------------------------------------
(* A timestamp.                                                            *)

\* The default constructor.
Start == [year |-> First_year, month |-> 0, day |-> 1, hour |-> 0, minute |-> 0, second |-> 0]

is_invariant_ok(ts) ==
  /\ ts.year >= First_year /\ ts.day \in 1..day_count(ts.year, ts.month)
  /\ ts.hour \in 0..23 /\ ts.minute \in 0..59 /\ ts.second \in 0..59

set_date(ts, year, month, day) == [ts EXCEPT !.year = year, !.month = month, !.day = day]

\* set_date() of a day of the epoch: whole years are taken from it, and then months.
set_day_of_epoch(ts, day) ==
  LET years[y \in Nat, n \in Nat] ==
        IF n > days_of_year(y) THEN years[y + 1, n - days_of_year(y)] ELSE <<y, n>>
      year == years[First_year, day]
      months[m \in Nat, n \in Nat] ==
        IF n > day_count(year[1], m) THEN months[m + 1, n - day_count(year[1], m)] ELSE <<m, n>>
      month == months[0, year[2]]
  IN set_date(ts, year[1], month[1], month[2])

\* set_time(): more hours than a day has pass the check of the arguments, but not the
\* assertion behind it.
set_time(ts, hour, minute, second) ==
  LET set == [ts EXCEPT !.hour = hour, !.minute = minute, !.second = second] IN
  IF ~(hour \in 0..59 /\ minute \in 0..59 /\ second \in 0..59) THEN [what |-> "thrown", ts |-> ts]
  ELSE IF ~is_invariant_ok(set) THEN [what |-> "terminated", ts |-> set]
  ELSE [what |-> "set", ts |-> set]

set_hour(ts, hour) ==
  IF hour \in 0..23 THEN [what |-> "set", ts |-> [ts EXCEPT !.hour = hour]] ELSE [what |-> "thrown", ts |-> ts]

set_minute(ts, minute) ==
  IF minute \in 0..59 THEN [what |-> "set", ts |-> [ts EXCEPT !.minute = minute]] ELSE [what |-> "thrown", ts |-> ts]

set_second(ts, second) ==
  IF second \in 0..59 THEN [what |-> "set", ts |-> [ts EXCEPT !.second = second]] ELSE [what |-> "thrown", ts |-> ts]

\* The comparisons: any field that is less, or greater, is enough.
Less(lhs, rhs) == \E field \in DOMAIN lhs : lhs[field] < rhs[field]

Less_or_equal(lhs, rhs) == \E field \in DOMAIN lhs : lhs[field] <= rhs[field]

Equal(lhs, rhs) == \A field \in DOMAIN lhs : lhs[field] = rhs[field]

Greater(lhs, rhs) == \E field \in DOMAIN lhs : lhs[field] > rhs[field]

Greater_or_equal(lhs, rhs) == \E field \in DOMAIN lhs : lhs[field] >= rhs[field]

-----------------------------------------------------------------------------
(* The timestamps of HTTP. A text is the record of its fields, as the      *)
(* characters between them are not looked at; a number is a sequence of    *)
(* characters.                                                             *)

\* to_string() of a day of week and of a month.
Days == <<"Sun", "Mon", "Tue", "Wed", "Thu", "Fri", "Sat">>
Months == <<"Jan", "Feb", "Mar", "Apr", "May", "Jun", "Jul", "Aug", "Sep", "Oct", "Nov", "Dec">>
Digits == <<"0", "1", "2", "3", "4", "5", "6", "7", "8", "9">>

DigitOf(c) == (CHOOSE i \in DOMAIN Digits : Digits[i] = c) - 1

to_fmt_string(num) ==
  LET of[n \in Nat] == IF n < 10 THEN <<Digits[n + 1]>> ELSE Append(of[n \div 10], Digits[(n % 10) + 1])
  IN IF num < 10 THEN <<"0">> \o of[num] ELSE of[num]

\* Bound: years of four digits, as the fields of a text are found by their places.
to_rfc7231(ts) ==
  [weekday |-> Days[day_of_week(ts.year, ts.month, ts.day) + 1], day |-> to_fmt_string(ts.day),
   month |-> Months[ts.month + 1], year |-> to_fmt_string(ts.year), hour |-> to_fmt_string(ts.hour),
   minute |-> to_fmt_string(ts.minute), second |-> to_fmt_string(ts.second), zone |-> "GMT"]

\* std::stoi() of the whole of a text: spaces and a sign may stand before the digits.
process_integer(extracted) ==
  LET ink == {i \in DOMAIN extracted : extracted[i] # " "}
      from == IF ink = {} THEN Len(extracted) + 1 ELSE Min(ink)
      signed == from <= Len(extracted) /\ extracted[from] \in {"-", "+"}
      digits == SubSeq(extracted, IF signed THEN from + 1 ELSE from, Len(extracted))
      size == FoldLeft(LAMBDA n, c : 10 * n + DigitOf(c), 0, digits)
  IN
  IF digits = <<>> \/ ~(ToSet(digits) \subseteq ToSet(Digits)) THEN {}
  ELSE {IF signed /\ extracted[from] = "-" THEN -size ELSE size}

to_day_of_week(str) == {i - 1 : i \in {i \in DOMAIN Days : Days[i] = str}}

to_month(str) == {i - 1 : i \in {i \in DOMAIN Months : Months[i] = str}}

\* What a text is read as, and nothing if that throws: the day of week asks for a day that
\* the month has.
from_rfc7231(text) ==
  {ts \in [year : process_integer(text.year), month : to_month(text.month),
           day : process_integer(text.day), hour : process_integer(text.hour),
           minute : process_integer(text.minute), second : process_integer(text.second)] :
     /\ ts.day \in 1..31 /\ ts.year >= First_year
     /\ is_date_acceptable(ts.year, ts.month, ts.day)
     /\ to_day_of_week(text.weekday) = {day_of_week(ts.year, ts.month, ts.day)}
     /\ ts.hour \in 0..23 /\ ts.minute \in 0..59 /\ ts.second \in 0..59
     /\ text.zone = "GMT"}

-----------------------------------------------------------------------------
(* A calendar that is turned day by day.                                   *)

\* The leap days before a year, of the Gregorian calendar.
LeapDays(year) == (year - 1) \div 4 - (year - 1) \div 100 + (year - 1) \div 400

Init ==
  \E year \in FirstYears :
    today = [ts |-> [Start EXCEPT !.year = year], turned |-> 0,
             number |-> 365 * (year - First_year) + LeapDays(year) - LeapDays(First_year) + 1]

Tomorrow(ts) ==
  IF ts.day < day_count(ts.year, ts.month) THEN [ts EXCEPT !.day = @ + 1]
  ELSE IF ts.month < 11 THEN [ts EXCEPT !.day = 1, !.month = @ + 1]
  ELSE [ts EXCEPT !.day = 1, !.month = 0, !.year = @ + 1]

Next ==
  /\ today.turned < MaxDays
  /\ today' = [ts |-> Tomorrow(today.ts), number |-> today.number + 1, turned |-> today.turned + 1]

Times == {<<0, 0, 0>>, <<23, 59, 59>>, <<9, 10, 9>>, <<24, 0, 0>>, <<60, 0, 0>>, <<0, 60, 0>>, <<0, 0, -1>>}

\* The days of the epoch are counted one by one over the ends of months, leap years and
\* centuries, and lead back to their dates; a week has seven of them, from a Saturday on;
\* a later timestamp is greater, and is read as it has been written.
CalendarKept ==
  LET ts == today.ts
      number == day_of_epoch(ts.year, ts.month, ts.day)
  IN
  /\ number = today.number /\ set_day_of_epoch(Start, number) = ts
  /\ day_of_week(ts.year, ts.month, ts.day) = (number + 5) % 7
  /\ Less(ts, Tomorrow(ts)) /\ Greater(Tomorrow(ts), ts) /\ ~Less(ts, ts) /\ ~Greater(ts, ts)
  /\ Less_or_equal(ts, Tomorrow(ts)) /\ Greater_or_equal(Tomorrow(ts), ts)
  /\ Equal(ts, ts) /\ ~Equal(ts, Tomorrow(ts))
  /\ \A t \in Times :
       LET set == set_time(ts, t[1], t[2], t[3]) IN
       /\ set.what = "set" =>
            /\ from_rfc7231(to_rfc7231(set.ts)) = {set.ts}
            /\ set = set_second(set_minute(set_hour(ts, t[1]).ts, t[2]).ts, t[3])
       /\ set.what = "terminated" => set_hour(ts, t[1]).what = "thrown"

\* A text is read only as a timestamp that is written as it, whatever spaces and signs its
\* numbers have.
TimestampRead(text) ==
  \A ts \in from_rfc7231(text) :
    /\ is_invariant_ok(ts)
    /\ \A field \in {"weekday", "month", "zone"} : to_rfc7231(ts)[field] = text[field]
    /\ \A field \in {"day", "year", "hour", "minute", "second"} :
         process_integer(to_rfc7231(ts)[field]) = process_integer(text[field])
=============================================================================
