------------------------------ MODULE MCReaper ------------------------------
(* Small instances of Reaper for TLC: processes A and B (and C, which       *)
(* creates nothing), two concurrent sandboxes a1 and a2 of A, one of B, two *)
(* Network objects of A.                                                    *)
EXTENDS Reaper, Clocks

CONSTANTS a1, a2, b1, netA, netB, A, B, C

MCRunOf == [x \in Names \cup Nets |-> IF x = b1 THEN B ELSE A]

NoNetworks == [n \in Names |-> NoNet]
EachItsOwnNet == [n \in Names |-> IF n = a1 THEN netA
                                 ELSE IF n = a2 THEN netB ELSE NoNet]

OneBackend == [r \in Runs |-> "docker"]
COnAnother == [r \in Runs |-> IF r = C THEN "microsandbox" ELSE "docker"]

OnlyAOn == [r \in Runs |-> IF r = A THEN "on" ELSE "sweep"]

-----------------------------------------------------------------------------
(* The calendar of Clocks over one era of 400 years and its borders, around *)
(* the epoch and at the ends of what a four-digit year can say              *)

Era == (-135080)..11017          \* 1600-03-01 .. 2000-03-01
Edges == ((-719528)..(-719100)) \cup (2932500..2932896)

ASSUME EveryDayHasOneDate ==
  \A d \in Era \cup Edges :
    LET date == CivilFromDays(d) IN DaysFromCivil(date.y, date.m, date.d) = d

\* consecutive days are consecutive dates of a Gregorian calendar
LeapYear(y) == y % 4 = 0 /\ (y % 100 # 0 \/ y % 400 = 0)
DaysIn(y, m) ==
  CASE m \in {4, 6, 9, 11} -> 30
    [] m = 2 -> IF LeapYear(y) THEN 29 ELSE 28
    [] OTHER -> 31
Tomorrow(date) ==
  IF date.d < DaysIn(date.y, date.m) THEN [date EXCEPT !.d = @ + 1]
  ELSE IF date.m < 12 THEN [date EXCEPT !.d = 1, !.m = @ + 1]
  ELSE [y |-> date.y + 1, m |-> 1, d |-> 1]

ASSUME DatesFollowTheCalendar ==
  /\ CivilFromDays(0) = [y |-> 1970, m |-> 1, d |-> 1]
  /\ \A d \in Era \cup Edges :
       CivilFromDays(d + 1) = Tomorrow(CivilFromDays(d))

\* what the ledger says is what was measured
ASSUME InstantsRoundTrip ==
  \A day \in {-1, 0, 10957, 20000}, at \in 0..86399 :
    LET secs == day * 86400 + at
    IN Iso8601ToUnixSecs(UnixSecsToIso8601(secs)) = secs

ASSUME ElapsedIsCounted ==
  \A d \in 0..2, h \in {0, 1, 23}, m \in {0, 59}, s \in {0, 59} :
    LET secs == ElapsedSeconds([days |-> d, h |-> h, m |-> m, s |-> s])
    IN secs \div 86400 = d /\ (secs % 86400) \div 3600 = h
       /\ (secs % 3600) \div 60 = m /\ secs % 60 = s
=============================================================================
