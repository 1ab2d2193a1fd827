-------------------------------- MODULE Times --------------------------------
(***************************************************************************)
(* Points in time and intervals in Python: core/timeutils, and what        *)
(* protobuf/wellknown and protobuf/datetime encode of them.                *)
(*                                                                         *)
(* A program holds a TimePoint and a TimeInterval, adds and subtracts, and *)
(* writes and reads them in the forms that the classes know.  Time is a    *)
(* number of ticks: one microsecond, where a second has Thousand^2.        *)
(* A date is the clock it shows, in ticks; fields of a calendar are left   *)
(* out.  Numbers are exact: floating point is left out, and nanoseconds    *)
(* are only there as the counts that autoscaled_from() divides.            *)
(***************************************************************************)
EXTENDS Integers, Functions

CONSTANTS
    Thousand,                            \* ratio of the fractions of a second
    Minute, Hour, Day, Week, Month, Year,
    Points, Intervals,                   \* what the program starts with
    Timezone, Altzone,                   \* ticks west of UTC, and in summer
    SummerFrom, SummerTo,                \* points between which summer time holds
    MaxMoves                             \* bound on additions and subtractions

Milli == Thousand
Second == Thousand * Thousand
Leap == 4 * Year

ASSUME TimesAssumption ==
    /\ Thousand \in Nat /\ Thousand > 1
    /\ {Minute, Hour, Day, Week, Month, Year} \subseteq Nat \ {0}
    /\ Minute > Second /\ Minute % Second = 0 /\ Hour % Minute = 0 /\ Day % Hour = 0 /\ Year % Day = 0
    /\ Points \cup Intervals \cup {Timezone, Altzone, SummerFrom, SummerTo} \subseteq Int

\* Summer time begins and ends with a second; zones are whole minutes away from UTC, and to
\* the west of it whole or half hours, but more than half an hour.
ASSUME ZonesAssumption ==
    /\ \A z \in {Timezone, Altzone} : z % Minute = 0 /\ (z > 0 /\ z % Hour # 0 => z > Hour /\ 2 * (z % Hour) = Hour)
    /\ \A p \in {SummerFrom, SummerTo} : p % Second = 0

VARIABLES
    time,      \* the value the program moves, at first a point
    d,         \* an interval
    form,      \* a value that was written from either
    result,    \* what was read
    start, net, moves   \* where time started, what was added, and how often (history)

timeVars == <<time, d, form, result, start, net, moves>>

Point(v) == [k |-> "point", v |-> v]
Interval(v) == [k |-> "interval", v |-> v]
Raise == [k |-> "raise", v |-> 0]
Nothing == [k |-> "none", v |-> 0]

Abs(x) == IF x < 0 THEN -x ELSE x
\* int() of a quotient
Trunc(x, u) == IF x < 0 THEN -((-x) \div u) ELSE x \div u

--------------------------------------------------------------------------
(* Intervals *)

DateUnits == {"y", "mo", "w", "d"}

\* to_string(), as it is, as ISO 8601 and as JSON: units that are zero are left out.
\* The "T" of ISO counts as a part, so that zero has none.
IntervalText(style, x) ==
    LET a == Abs(x)
        r == IF a > Leap THEN a - Day * (a \div Leap) ELSE a
        all == IF style = "json" THEN [s |-> r]
               ELSE [y |-> r \div Year, d |-> (r % Year) \div Day, h |-> (r % Day) \div Hour,
                     m |-> (r % Hour) \div Minute, s |-> r % Minute]
        parts == Restrict(all, {u \in DOMAIN all : all[u] # 0})
    IN  [neg |-> x < 0, p |-> style = "iso",
         n |-> IF DOMAIN parts = {} /\ style # "iso" THEN [s |-> 0] ELSE parts]

\* What a text says of a unit
Count(n, u) == IF u \in DOMAIN n THEN n[u] ELSE 0

\* from_string(): a date is only read after "P"; the days of leap years are computed from
\* a number of years divided by a number of seconds.
IntervalFromText(t) ==
    LET sum == Count(t.n, "y") * Year + Count(t.n, "mo") * Month + Count(t.n, "w") * Week
               + Count(t.n, "d") * Day + Count(t.n, "h") * Hour + Count(t.n, "m") * Minute
               + Count(t.n, "s")
        leap == Day * (Count(t.n, "y") \div (Leap \div Second))
    IN  IF DOMAIN t.n = {} \/ (~t.p /\ DOMAIN t.n \cap DateUnits # {}) THEN Raise
        ELSE Interval(IF t.neg THEN -(sum + leap) ELSE sum + leap)

\* to_protobuf(), encodeDuration(); the same for points
Split(x) == [seconds |-> Trunc(x, Second), nanos |-> x - Second * Trunc(x, Second)]
TicksOf(f) == f.seconds * Second + f.nanos

\* encodeInterval(): a timedelta of whole days, or zero; the names of other units do not
\* exist, or a float is given to a field for integers.
EncodeInterval(x) == IF x % Day = 0 THEN [ok |-> TRUE, days |-> x \div Day] ELSE [ok |-> FALSE, days |-> 0]

\* decodeInterval()
DecodeInterval(i) == IF i.ok THEN Interval(i.days * Day) ELSE Raise

\* The written forms of an interval; a scaled count loses what is below its unit.
IntervalForms == {"text", "iso", "json", "timedelta", "duration", "milliseconds", "Interval"}
WriteAs(kind, x) ==
    [to |-> "interval", k |-> kind,
     v |-> CASE kind \in {"text", "iso", "json"} -> IntervalText(kind, x)
             [] kind \in {"timedelta", "number", "interval"} -> x
             [] kind = "duration" -> Split(x)
             [] kind = "milliseconds" -> Trunc(x, Milli)
             [] kind = "Interval" -> EncodeInterval(x)]

\* from_value(), from_milliseconds(), decodeDuration()
IntervalFrom(f) ==
    CASE f.k \in {"text", "iso", "json"} -> IntervalFromText(f.v)
      [] f.k \in {"timedelta", "number", "interval"} -> Interval(f.v)
      [] f.k = "duration" -> Interval(TicksOf(f.v))
      [] f.k = "milliseconds" -> Interval(f.v * Milli)
      [] f.k = "Interval" -> DecodeInterval(f.v)
      [] OTHER -> Raise

--------------------------------------------------------------------------
(* Points *)

IsSummer(p) == p \in SummerFrom..(SummerTo - 1)
West(summer) == IF summer THEN Altzone ELSE Timezone
\* The clock on the wall: to_struct_time(), without the fraction, and to_datetime().
Clock(p, utc) == IF utc THEN p ELSE p - West(IsSummer(p))
\* datetime's fold: the second of two points that show one clock
Fold(p) == ~IsSummer(p) /\ IsSummer(p - Timezone + Altzone)

\* datetime.timestamp() of a naive value
Naive(clock, fold) ==
    LET summer == clock + Altzone
        winter == clock + Timezone
    IN  IF IsSummer(summer) /\ (IsSummer(winter) \/ ~fold) THEN summer ELSE winter

\* time.mktime(), and from_struct_time() of a value in UTC
FromStruct(s, utc) ==
    LET local == s.clock + West(s.summer)
    IN  IF utc THEN local - West(s.summer) ELSE local

\* autoscaled_from(): divided until it is below a thousand years
Scaled[n \in Nat] == IF n >= Thousand * Year THEN Scaled[n \div Thousand] ELSE n
\* Fault: the number is divided once.
AutoscaledOnce(n) == IF n < 0 THEN 0 ELSE IF n >= Thousand * Year THEN n \div Thousand ELSE n

Autoscaled(n) == IF n < 0 THEN 0 ELSE Scaled[n]

\* to_string() with an offset: hours, rounded to zero, and minutes
OffsetText(p, utc) ==
    LET east == IF utc THEN 0 ELSE -West(IsSummer(p))
    IN  [hours |-> Trunc(east, Hour), minutes |-> (east % Hour) \div Minute]
\* and what fromisoformat() reads
Offset(o) == IF o.hours < 0 THEN o.hours * Hour - o.minutes * Minute ELSE o.hours * Hour + o.minutes * Minute

\* to_string(), to_iso8601_string(), to_format()
TimeText(p, utc, suffix) ==
    [clock |-> Clock((p \div Milli) * Milli, utc), suffix |-> suffix, offset |-> OffsetText(p, utc)]

\* from_string(), from_datetime(): the name of a zone is no part of ISO 8601
PointFromText(t, utc) ==
    CASE t.suffix = "Z" -> Point(t.clock)
      [] t.suffix = "offset" -> Point(t.clock - Offset(t.offset))
      [] t.suffix = "name" -> Raise
      [] t.suffix = "" -> Point(IF utc THEN t.clock ELSE Naive(t.clock, FALSE))

\* The written forms of a point.  utc is what the writer and the reader agree on.
PointForms == {"zulu", "text", "offset", "zone name", "datetime", "naive datetime", "struct_time",
               "timestamp", "seconds", "milliseconds", "microseconds", "nanoseconds", "TimeStruct"}
WritePointAs(kind, p, utc) ==
    [to |-> "point", k |-> kind, utc |-> utc,
     v |-> CASE kind = "zulu" -> TimeText(p, TRUE, "Z")
             [] kind = "text" -> TimeText(p, utc, "")
             [] kind = "offset" -> TimeText(p, utc, "offset")
             [] kind = "zone name" -> TimeText(p, utc, "name")
             [] kind = "datetime" -> p
             [] kind = "naive datetime" -> [clock |-> Clock(p, FALSE), fold |-> Fold(p)]
             [] kind \in {"struct_time", "TimeStruct"} ->
                    [clock |-> Clock((p \div Second) * Second, utc), summer |-> ~utc /\ IsSummer(p)]
             [] kind = "timestamp" -> Split(p)
             [] kind = "seconds" -> (p \div Second) * Second
             [] kind = "milliseconds" -> (p \div Milli) * Second
             [] kind = "microseconds" -> p * Second
             [] kind = "nanoseconds" -> p * Thousand * Second]

\* from_value(), decodeTimestamp(); decodeTimeStruct() asks for a class there is not.
PointFrom(f) ==
    CASE f.k \in {"zulu", "text", "offset", "zone name"} -> PointFromText(f.v, f.utc)
      [] f.k = "datetime" -> Point(f.v)
      [] f.k = "naive datetime" -> Point(Naive(f.v.clock, f.v.fold))
      [] f.k = "struct_time" -> Point(FromStruct(f.v, f.utc))
      [] f.k = "timestamp" -> Point(TicksOf(f.v))
      [] f.k \in {"seconds", "milliseconds", "microseconds", "nanoseconds"} -> Point(Autoscaled(f.v))
      [] OTHER -> Raise

--------------------------------------------------------------------------
(* Arithmetic *)

\* TimePoint.__add__()
Plus(p, f) ==
    LET i == IntervalFrom(f) IN IF i.k = "raise" THEN Raise ELSE Point(p + i.v)

\* Fault: a number is taken for a point from one year on.
MinusYears(p, f) ==
    LET i == IntervalFrom(f)
    IN  IF i.k = "raise" THEN Raise
        ELSE IF f.k \in {"number", "interval"} /\ Abs(f.v) >= Year THEN Interval(p - Autoscaled(f.v))
        ELSE Point(p - i.v)

\* TimePoint.__sub__(): a number below ten years is an interval, and so is what extends
\* float; from there on it is a point.  A text is read as a time first.
Minus(p, f) ==
    CASE f.k \in {"number", "interval"} ->
            IF Abs(f.v) < 10 * Year THEN Point(p - f.v) ELSE Interval(p - Autoscaled(f.v))
      [] f.k \in {"timedelta", "duration"} -> Point(p - IntervalFrom(f).v)
      [] f.k \in {"text", "iso", "json"} ->
            LET i == IntervalFrom(f) IN IF i.k = "raise" THEN Raise ELSE Point(p - i.v)

--------------------------------------------------------------------------
(* Steps *)

TimesInit ==
    /\ time \in {Point(p) : p \in Points}
    /\ d \in Intervals
    /\ form = Nothing /\ result = Nothing
    /\ start = time.v /\ net = 0 /\ moves = 0

WriteInterval(kind) ==
    /\ form' = WriteAs(kind, d) /\ result' = Nothing
    /\ UNCHANGED <<time, d, start, net, moves>>

WritePoint(kind, utc) ==
    /\ time.k = "point" /\ time.v >= 0
    /\ form' = WritePointAs(kind, time.v, utc) /\ result' = Nothing
    /\ UNCHANGED <<time, d, start, net, moves>>

ReadBack ==
    /\ form # Nothing /\ result = Nothing
    /\ result' = IF form.to = "interval" THEN IntervalFrom(form) ELSE PointFrom(form)
    /\ UNCHANGED <<time, d, form, start, net, moves>>

\* try_from(): a fallback that cannot be read either is returned as it is.
TryRead(fallback) ==
    /\ form # Nothing /\ result = Nothing /\ form.to = "interval"
    /\ result' = IF IntervalFrom(form) # Raise THEN IntervalFrom(form)
                 ELSE IF fallback = Nothing \/ IntervalFrom(fallback) = Raise THEN fallback
                 ELSE IntervalFrom(fallback)
    /\ UNCHANGED <<time, d, form, start, net, moves>>

\* What the program may give as an operand: an interval, a number, or a written form
OperandKinds == {"interval", "number", "text", "json", "timedelta", "duration"}

MoveBy(value, ticks) ==
    /\ time.k = "point" /\ moves < MaxMoves
    /\ moves' = moves + 1
    /\ IF value = Raise THEN UNCHANGED <<time, net>> ELSE time' = value /\ net' = net + ticks
    /\ form' = Nothing /\ result' = Nothing
    /\ UNCHANGED <<d, start>>

Add == \E kind \in OperandKinds :
    LET f == WriteAs(kind, d) IN MoveBy(Plus(time.v, f), IntervalFrom(f).v)
Subtract == \E kind \in OperandKinds :
    LET f == WriteAs(kind, d) IN MoveBy(Minus(time.v, f), -IntervalFrom(f).v)

TimesNext ==
    \/ \E kind \in IntervalForms : WriteInterval(kind)
    \/ \E kind \in PointForms, utc \in BOOLEAN : WritePoint(kind, utc)
    \/ ReadBack
    \/ \E fallback \in {Nothing, [k |-> "number", v |-> 0]} : TryRead(fallback)
    \/ Add
    \/ Subtract

TimesSpec == TimesInit /\ [][TimesNext]_timeVars

TimesTypeOK ==
    /\ time.k \in {"point", "interval"} /\ time.v \in Int
    /\ d \in Intervals
    /\ form = Nothing \/ form.to \in {"point", "interval"}
    /\ result.k \in {"point", "interval", "raise", "none", "number"}
    /\ moves \in 0..MaxMoves

--------------------------------------------------------------------------
(* Properties *)

\* An interval of up to four years that is written for another program - as ISO 8601, JSON
\* or a Duration - is read as the same interval (but for zero, which ISO 8601 writes as "PT").
IntervalReadsBack ==
    form # Nothing /\ form.to = "interval" /\ result # Nothing /\ Abs(d) <= Leap =>
        /\ form.k \in {"json", "duration", "timedelta"} \/ (form.k = "iso" /\ d # 0) =>
               result = Interval(d)
        /\ form.k = "milliseconds" => result = Interval(Trunc(d, Milli) * Milli)

\* A point that is written is read as the same point, to the precision of the form.  A clock
\* that is shown twice when summer time ends is read as the first, unless the form says more.
\* Numbers are recognised between the years 1971 and 2969, whatever their unit.
PointReadsBack ==
    form # Nothing /\ form.to = "point" /\ result # Nothing =>
        LET exact == form.k \in {"datetime", "naive datetime", "timestamp", "microseconds", "nanoseconds"}
            unit == IF exact THEN 1 ELSE IF form.k \in {"seconds", "struct_time"} THEN Second ELSE Milli
            scaled == form.k \in {"seconds", "milliseconds", "microseconds", "nanoseconds"}
        IN  \/ form.k \in {"zone name", "TimeStruct"}
            \/ form.k = "text" /\ ~form.utc /\ Fold(time.v)
            \/ scaled /\ time.v \notin Year..(Thousand * Year - 1)
            \/ result = Point((time.v \div unit) * unit)

\* Both kinds of time survive being written.
TimesReadBack == IntervalReadsBack /\ PointReadsBack

\* What was added is what subtracting takes away, in every form an interval is given in:
\* after any sequence of both, the point is where it started plus what the forms say.  (An interval
\* of ten years and more is taken for a point when it is subtracted.)
MovesAddUp == Abs(d) < 10 * Year => time = Point(start + net)
===============================================================================
