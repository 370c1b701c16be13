------------------------------ MODULE WktSerde ------------------------------
(***************************************************************************)
(* The protojson form of google.protobuf.Timestamp and Duration             *)
(* (wkt_serde.rs): the civil calendar and the text conversions, as          *)
(* functions, and a walk through the calendar that they are compared with.  *)
(*                                                                         *)
(* A text is the record of its numeric fields; digits is the number of      *)
(* digits of the fraction, 0 when there is none.                            *)
(***************************************************************************)
EXTENDS Integers

-----------------------------------------------------------------------------
(* The calendar: Rust's / on numbers that are not negative, and div_euclid *)

\* An era is 400 years; its years begin in March, so that the leap day is last.
\* `let y` of days_from_civil: the year a month belongs to.
MarchYear(year, m) == IF m <= 2 THEN year - 1 ELSE year

\* `let mp`, `let doy`: the day of that year.
DayOfYear(m, d) == (153 * ((m + 9) % 12) + 2) \div 5 + d - 1

\* Mutant: the years that end a century are leap years like any fourth.
EveryFourthLeaps(yoe) == yoe * 365 + yoe \div 4

\* The days of an era before its year yoe.
DaysBefore(yoe) == yoe * 365 + yoe \div 4 - yoe \div 100

days_from_civil(year, m, d) ==
    LET y == MarchYear(year, m)
        era == y \div 400
    IN era * 146097 + DaysBefore(y - era * 400) + DayOfYear(m, d) - 719468

\* `let yoe` of civil_from_days: the year of an era a day of it is in.
YearOfEra(doe) ==
    (doe - doe \div 1460 + doe \div 36524 - doe \div 146096) \div 365

\* `let mp` to the end: the date of a day of a year.
CivilDate(y, doy) ==
    LET mp == (5 * doy + 2) \div 153
    IN [year |-> IF mp < 10 THEN y ELSE y + 1,
        month |-> IF mp < 10 THEN mp + 3 ELSE mp - 9,
        day |-> doy - (153 * mp + 2) \div 5 + 1]

civil_from_days(days) ==
    LET era == (days + 719468) \div 146097
        doe == days + 719468 - era * 146097
        yoe == YearOfEra(doe)
    IN CivilDate(yoe + era * 400, doe - DaysBefore(yoe))

-----------------------------------------------------------------------------
(* Fractions *)

\* The 3/6/9-digit rule of format_fraction and format_duration.
Digits(n) ==
    IF n = 0 THEN 0
    ELSE IF n % 1000000 = 0 THEN 3
    ELSE IF n % 1000 = 0 THEN 6
    ELSE 9

Unit(digits) ==
    IF digits = 9 THEN 1 ELSE IF digits = 6 THEN 1000 ELSE 1000000

\* parse_fraction pads the text to nine digits.
parse_fraction(digits, value) ==
    IF digits = 0 THEN 0 ELSE value * Unit(digits)

-----------------------------------------------------------------------------
(* Duration *)

Abs(n) == IF n < 0 THEN -n ELSE n

\* Mutant: the sign is taken from the seconds only.
FormatSignOfSeconds(seconds, nanos) ==
    LET digits == Digits(Abs(nanos))
    IN [negative |-> seconds < 0, secs |-> Abs(seconds), digits |-> digits,
        frac |-> IF digits = 0 THEN 0 ELSE Abs(nanos) \div Unit(digits)]

format_duration(seconds, nanos) ==
    LET digits == Digits(Abs(nanos))
    IN [negative |-> seconds < 0 \/ (seconds = 0 /\ nanos < 0),
        secs |-> Abs(seconds),
        digits |-> digits,
        frac |-> IF digits = 0 THEN 0 ELSE Abs(nanos) \div Unit(digits)]

parse_duration(text) ==
    LET sign == IF text.negative THEN -1 ELSE 1
    IN [seconds |-> sign * text.secs,
        nanos |-> sign * parse_fraction(text.digits, text.frac)]

-----------------------------------------------------------------------------
(* Timestamp *)

format_timestamp(seconds, nanos) ==
    LET civil == civil_from_days(seconds \div 86400)
        ofDay == seconds % 86400
        digits == Digits(nanos)
    IN [year |-> civil.year, month |-> civil.month, day |-> civil.day,
        hh |-> ofDay \div 3600, mm |-> (ofDay % 3600) \div 60, ss |-> ofDay % 60,
        digits |-> digits,
        frac |-> IF digits = 0 THEN 0 ELSE nanos \div Unit(digits)]

\* offset is the signed distance of the text's zone from UTC in seconds.
\* The sign of a negative year is one '-' too many for the split of the date.
parse_timestamp(text, offset) ==
    IF text.year < 0 THEN "bad date"
    ELSE [seconds |-> days_from_civil(text.year, text.month, text.day) * 86400
                        + text.hh * 3600 + text.mm * 60 + text.ss - offset,
          nanos |-> parse_fraction(text.digits, text.frac)]

-----------------------------------------------------------------------------
(* A walk through the calendar, and a value to convert *)

CONSTANTS
    Years,       \* the years the walk goes through
    Values       \* the values that are converted

ASSUME WktAssumption ==
    /\ Years \subseteq Int
    /\ \A v \in Values :
          /\ v.seconds \in Int /\ v.nanos \in Int /\ v.offset \in Int
          /\ -1000000000 < v.nanos /\ v.nanos < 1000000000

VARIABLES
    dayNumber,   \* days since 1970-01-01
    date,        \* the same day, as the Gregorian calendar counts it
    value        \* seconds, nanos, and the zone of a text in seconds

wktVars == <<dayNumber, date, value>>

LeapYear(y) == y % 4 = 0 /\ (y % 100 # 0 \/ y % 400 = 0)

LeapDaysBefore(y) == (y - 1) \div 4 - (y - 1) \div 100 + (y - 1) \div 400

MonthLength(y, m) ==
    IF m = 2 THEN IF LeapYear(y) THEN 29 ELSE 28
    ELSE IF m \in {4, 6, 9, 11} THEN 30 ELSE 31

NewYear(y) == [year |-> y, month |-> 1, day |-> 1]

Tomorrow(x) ==
    IF x.day < MonthLength(x.year, x.month)
    THEN [x EXCEPT !.day = x.day + 1]
    ELSE IF x.month < 12
         THEN [year |-> x.year, month |-> x.month + 1, day |-> 1]
         ELSE NewYear(x.year + 1)

WktInit ==
    /\ value \in Values
    /\ \E y \in Years :
          /\ date = NewYear(y)
          /\ dayNumber =
                365 * (y - 1970) + LeapDaysBefore(y) - LeapDaysBefore(1970)

WktNext ==
    /\ date.year \in Years
    /\ dayNumber' = dayNumber + 1
    /\ date' = Tomorrow(date)
    /\ UNCHANGED value

WktSpec == WktInit /\ [][WktNext]_wktVars

-----------------------------------------------------------------------------
(* Properties *)

\* civil_from_days and days_from_civil ("Howard Hinnant's algorithm") are the
\* Gregorian calendar: day by day they agree with the rule of leap years.
CalendarIsGregorian ==
    /\ civil_from_days(dayNumber) = date
    /\ days_from_civil(date.year, date.month, date.day) = dayNumber

\* A well-formed Duration: both parts have the same sign.
SameSign(v) ==
    (v.seconds > 0 => v.nanos >= 0) /\ (v.seconds < 0 => v.nanos <= 0)

DurationKept(v) ==
    parse_duration(format_duration(v.seconds, v.nanos))
        = [seconds |-> v.seconds, nanos |-> v.nanos]

TimestampKept(v) ==
    parse_timestamp(format_timestamp(v.seconds + v.offset, v.nanos), v.offset)
        = [seconds |-> v.seconds, nanos |-> v.nanos]

\* The year has no sign where the text says it.
YearHasNoSign(v) ==
    civil_from_days((v.seconds + v.offset) \div 86400).year >= 0

\* What Serialize writes Deserialize reads back: no second and no nanosecond of
\* a well-formed Duration is lost, whatever its signs and precision, and none of
\* a Timestamp from year 0 on, in whatever zone the text gives it.
TextsKept ==
    /\ SameSign(value) => DurationKept(value)
    /\ value.nanos >= 0 /\ YearHasNoSign(value) => TimestampKept(value)

=============================================================================
