------------------------------- MODULE Reports -------------------------------
(***************************************************************************)
(* The roster of GET /attendance/status (AttendanceService.roster and       *)
(* buildRosterRange): a pure function of the punches on record, read at any *)
(* moment between two steps of the handlers of Attendance.                  *)
(***************************************************************************)
EXTENDS Attendance, FiniteSetsExt

\* An absent punch is shown as null, which is no instant.
ASSUME NoPunchAssumption == NoRow \notin Time

Days == {DayOf[t] : t \in Time}

\* localDateYmd of each row: the punches of one employee, type and IST day.
TimesOn(e, ty, d) ==
    {at[r] : r \in {q \in rows : emp[q] = e /\ type[q] = ty /\ DayOf[at[q]] = d}}

\* buildRoster: first clock-in and last clock-out; a day that was approved as
\* present shows neither.
RosterLine(e, d, marked) ==
    [in  |-> IF e \in marked \/ TimesOn(e, "IN", d) = {} THEN NoRow
             ELSE Min(TimesOn(e, "IN", d)),
     out |-> IF e \in marked \/ TimesOn(e, "OUT", d) = {} THEN NoRow
             ELSE Max(TimesOn(e, "OUT", d))]

\* workedHours: the hours of a line, none (the empty set) if a punch is
\* missing or the difference is negative.
WorkedHours(line) ==
    IF line.in = NoRow \/ line.out = NoRow THEN {}
    ELSE {line.out - line.in} \cap Nat

\* buildRoster, statusFromWorkedHours
Status(e, d, marked) ==
    IF e \in marked \/ WorkedHours(RosterLine(e, d, marked)) # {}
    THEN "Present" ELSE "Absent"

\* buildRosterRange: one line per employee and day.  markedByDay are the
\* approved mark_present requests of each day (see Regularization).
Roster(days, markedByDay) ==
    [e \in staff |-> [d \in days |-> Status(e, d, markedByDay[d])]]

-----------------------------------------------------------------------------
(* Properties *)

NobodyMarked == [d \in Days |-> {}]

\* A clock-out that the kiosk chose and stored on the same day comes at least
\* the cooldown after a clock-in (KioskOutFollowsIn), so that the day is Present
\* on the roster, whatever racing requests have added or moved since.
KioskDayPresent ==
    /\ KioskOutFollowsIn
    /\ \A r \in rows :
          /\ auto[r] /\ type[r] = "OUT"
          /\ DayOf[at[r]] = decided[r]
          /\ emp[r] \notin cleared
          => Roster(Days, NobodyMarked)[emp[r]][decided[r]] = "Present"
=============================================================================
