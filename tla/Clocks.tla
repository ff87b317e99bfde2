------------------------------- MODULE Clocks -------------------------------
(***************************************************************************)
(* How a run is judged alive (crates/rightsize/src/reaper/liveness.rs): the *)
(* start of a process is the wall clock minus what ps says has elapsed, it *)
(* goes into the ledger as a calendar instant, and is read again later.    *)
(* Reaper takes only the verdict; this module says when it can be wrong.   *)
(*                                                                         *)
(* A text with fixed positions is the record of its fields.                *)
(***************************************************************************)
EXTENDS Integers

\* Rust's / on integers truncates towards zero
Quotient(a, b) == IF a >= 0 THEN a \div b ELSE -((-a) \div b)

ElapsedSeconds(e) == e.days * 86400 + e.h * 3600 + e.m * 60 + e.s

\* The era of len days or years that n is in; the shift rounds down
EraOf(n, len) == Quotient(IF n >= 0 THEN n ELSE n - (len - 1), len)

\* leap days of an era before its year yoe
LeapDays(yoe) == Quotient(yoe, 4) - Quotient(yoe, 100)

YearOfEra(doe) ==
  Quotient(doe - Quotient(doe, 1460) + Quotient(doe, 36524)
             - Quotient(doe, 146096), 365)

\* years start in March: months come as 31, 30, 31, 30, 31 days, over and over
MonthStart(mp) == Quotient(153 * mp + 2, 5)
MonthOfYear(doy) == Quotient(5 * doy + 2, 153)

\* days since 1970-01-01 of a date
DaysFromCivil(year, m, d) ==
  LET y == IF m <= 2 THEN year - 1 ELSE year
      era == EraOf(y, 400)
      yoe == y - era * 400
      doy == MonthStart((m + 9) % 12) + d - 1
  IN era * 146097 + yoe * 365 + LeapDays(yoe) + doy - 719468

CivilFromDays(days) ==
  LET z == days + 719468
      era == EraOf(z, 146097)
      doe == z - era * 146097
      yoe == YearOfEra(doe)
      doy == doe - (365 * yoe + LeapDays(yoe))
      mp == MonthOfYear(doy)
      m == IF mp < 10 THEN mp + 3 ELSE mp - 9
  IN [ y |-> yoe + era * 400 + (IF m <= 2 THEN 1 ELSE 0), m |-> m,
       d |-> doy - MonthStart(mp) + 1 ]

\* div_euclid and rem_euclid are TLA+'s \div and %
UnixSecsToIso8601(secs) ==
  LET date == CivilFromDays(secs \div 86400)
      rem == secs % 86400
  IN [ y |-> date.y, m |-> date.m, d |-> date.d, hh |-> rem \div 3600,
       mm |-> (rem % 3600) \div 60, ss |-> rem % 60 ]

Iso8601ToUnixSecs(t) ==
  DaysFromCivil(t.y, t.m, t.d) * 86400 + t.hh * 3600 + t.mm * 60 + t.ss

\* process_started_iso: the clock is read after ps has run
ProcessStarted(now, etime) == now - etime

\* of the instant on the ledger and the one read now
IsAlive(recorded, actual) ==
  /\ recorded - actual <= 2
  /\ actual - recorded <= 2

-----------------------------------------------------------------------------
(* The tolerance.  Instants are in milliseconds, readings in whole seconds *)

Second == 1000

\* as_secs(), and the etime column: q is x cut to whole seconds
Cut(q, x) == Second * q <= x /\ x < Second * (q + 1)

\* What a process that started at s yields when ps looks at instant t and the
\* clock is read with the given delay, the clock being off by the given step
Reading(started, s, t, delay, step) ==
  \E now, etime \in Int :
    /\ Cut(now, t + delay + step) /\ Cut(etime, t - s)
    /\ started = ProcessStarted(now, etime)

=============================================================================
