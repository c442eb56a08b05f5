---------------------------- MODULE RosterScreen ----------------------------
(***************************************************************************)
(* The Attendance screen of the mobile app (AttendanceScreen.tsx) in the   *)
(* shell of module MobileShell: it is mounted while the role may see the   *)
(* roster, loads it when its tab comes to the front, when a period is      *)
(* picked and when it is pulled down, and keeps the last answer in a cache *)
(* of the module, which outlives the screen and the login.                 *)
(*                                                                         *)
(* A day is a number, day 0 a Monday.  Rows are known by the token they    *)
(* were answered to and the range of days they are of.                     *)
(***************************************************************************)
EXTENDS MobileShell

CONSTANTS
    MonthStart,   \* the first day of each month, in order
    YearOf,       \* the year of each month
    Loads,        \* one element per load in flight
    FirstDay,     \* bounds of the calendar day
    LastDay

ASSUME CalendarAssumption ==
    /\ MonthStart \in Seq(Int)
    /\ YearOf \in Seq(Nat)
    /\ Len(YearOf) = Len(MonthStart)
    /\ FirstDay \in Int /\ LastDay \in Int
    /\ MonthStart[1] <= FirstDay /\ LastDay < MonthStart[Len(MonthStart)]

VARIABLES
    day,       \* todayIst
    roster,    \* rosterCache: [period, range, rows]
    screen,    \* the screen's state
    loads,     \* the loads in flight
    excused    \* history: a load failed, overlapped another or outlasted the
               \* day, or the login was replaced, since rows were asked for

rosterVars == <<roster, screen, loads, excused>>
attendanceVars == <<shellVars, day, rosterVars>>

-----------------------------------------------------------------------------
(* Periods *)

Fixed(kind) == [kind |-> kind, month |-> 0]

MonthOf(d) == CHOOSE m \in 1 .. Len(MonthStart) - 1 :
                 MonthStart[m] <= d /\ d < MonthStart[m + 1]

MonthRange(m) == [start |-> MonthStart[m], end |-> MonthStart[m + 1] - 1]

\* buildAttendancePeriods: the prior months of this year come after the fixed ones.
Periods(d) ==
    {Fixed(k) : k \in {"today", "weekly", "previous_week", "monthly"}}
    \cup {[kind |-> "month", month |-> m] :
            m \in {n \in 1 .. MonthOf(d) - 1 : YearOf[n] = YearOf[MonthOf(d)]}}

\* getUTCDay: 0 is Sunday.
DayOfWeek(d) == (d + 1) % 7

MondayOf(d) == d - ((DayOfWeek(d) + 6) % 7)

\* rangeForPeriod on day d.
RangeFor(p, d) ==
    LET Week(first) == [start |-> first, end |-> first + 6] IN
    CASE p.kind = "today"         -> [start |-> d, end |-> d]
      [] p.kind = "weekly"        -> Week(MondayOf(d))
      [] p.kind = "previous_week" -> Week(MondayOf(d) - 7)
      [] p.kind = "month"         -> MonthRange(p.month)
      [] OTHER                    -> MonthRange(MonthOf(d))

-----------------------------------------------------------------------------
(* The screen *)

Today == Fixed("today")

NoRows  == [token |-> None, range |-> None]
NoCache == [period |-> None, range |-> None, rows |-> NoRows]
Off     == [mounted |-> FALSE, period |-> None, range |-> None, rows |-> NoRows,
            busy |-> FALSE, loaded |-> FALSE, asked |-> None]
NoLoad  == [period |-> None, range |-> None, token |-> None, mine |-> FALSE]

HasRows(c) == c.rows # NoRows

RosterInit ==
    /\ day = FirstDay
    /\ roster = NoCache
    /\ screen = Off
    /\ loads = [l \in Loads |-> NoLoad]
    /\ excused = FALSE

\* The state a screen is mounted with, on day d.
Mounted(d) ==
    LET usable == roster # NoCache /\ roster.period \in Periods(d)
        p      == IF usable THEN roster.period ELSE Today
    IN [mounted |-> TRUE, period |-> p,
        range   |-> IF usable THEN roster.range ELSE RangeFor(p, d),
        rows    |-> roster.rows,
        busy    |-> ~HasRows(roster), loaded |-> HasRows(roster), asked |-> None]

Idle(l) == loads[l] = NoLoad

\* load, by the screen in state s, up to its request with the token t.
Load(s, range, p, silent, t, sorry) ==
    \E l \in {x \in Loads : Idle(x)} :
        /\ loads' = [loads EXCEPT ![l] =
                        [period |-> p, range |-> range, token |-> t, mine |-> TRUE]]
        /\ screen' = [s EXCEPT !.busy = @ \/ ~silent \/ ~HasRows(roster)]
        /\ excused' = (sorry \/ \E x \in Loads : ~Idle(x))
        /\ UNCHANGED roster

\* The effect of the tab coming to the front, in state s: what was loaded is
\* loaded again, silently; with no rows loaded the period is today again.
Activated(s, t, sorry) ==
    IF s.loaded /\ HasRows(roster)
    THEN Load(s, roster.range, roster.period, TRUE, t, sorry)
    ELSE Load([s EXCEPT !.asked = None], RangeFor(Today, day), Today, FALSE, t, sorry)

InFront == tab = "attendance"

\* What the screen makes of a step of the shell.
Follows ==
    LET may == CanAccessAttendance(access'.role)
        now == tab' = "attendance"
        s   == IF screen.mounted THEN screen ELSE Mounted(day)
        why == excused \/ (screen.mounted /\ token' # token)
    IN
    \/ /\ ~may
       /\ screen' = Off
       /\ loads' = [l \in Loads |-> [loads[l] EXCEPT !.mine = FALSE]]
       /\ excused' = why
       /\ UNCHANGED roster
    \/ /\ may /\ now /\ ~(screen.mounted /\ InFront)
       /\ Activated(s, token', why)
    \/ /\ may /\ ~(now /\ ~(screen.mounted /\ InFront))
       /\ screen' = s /\ excused' = why
       /\ UNCHANGED <<roster, loads>>

PickPeriod ==
    /\ screen.mounted /\ InFront
    /\ \E p \in Periods(day) \ {screen.period} :
        LET range == RangeFor(p, day)
            s     == [screen EXCEPT !.period = p, !.range = range, !.asked = p]
        IN Load(s, range, p, FALSE, token, excused)
    /\ UNCHANGED <<shellVars, day>>

\* RefreshControl: the range of the period is computed anew.
PullDown ==
    /\ screen.mounted /\ InFront /\ ~screen.busy
    /\ Load([screen EXCEPT !.asked = screen.period],
            RangeFor(screen.period, day), screen.period, FALSE, token, excused)
    /\ UNCHANGED <<shellVars, day>>

\* An answer to the only load in flight, of today and of this login, to what
\* was last asked for, is what should be shown.
Settles(l) ==
    LET a == loads[l] IN
    excused' = (excused /\ ~(/\ a.mine /\ a.token = token
                             /\ \A x \in Loads \ {l} : Idle(x)
                             /\ a.period \in Periods(day)
                             /\ a.range = RangeFor(a.period, day)
                             /\ screen.asked \in {a.period, None}))

\* Slip: the answer brings rows and range, not the period.
AnswerRowsOnly(l) ==
    LET a    == loads[l]
        rows == [token |-> a.token, range |-> a.range]
    IN
    /\ ~Idle(l) /\ CanAccessAttendance(RoleFromToken(a.token))
    /\ Settles(l)
    /\ roster' = [period |-> screen.period, range |-> a.range, rows |-> rows]
    /\ screen' = IF a.mine THEN [screen EXCEPT !.range = a.range, !.rows = rows,
                                               !.busy = FALSE, !.loaded = TRUE]
                 ELSE screen
    /\ loads' = [loads EXCEPT ![l] = NoLoad]
    /\ UNCHANGED <<shellVars, day>>

\* The answer, of rows or of none, fills the cache of the module, and the
\* screen that asked if it is still mounted.
LoadAnswered(l) ==
    LET a == loads[l] IN
    /\ ~Idle(l) /\ CanAccessAttendance(RoleFromToken(a.token))
    /\ Settles(l)
    /\ \E rows \in {NoRows, [token |-> a.token, range |-> a.range]} :
        /\ roster' = [period |-> a.period, range |-> a.range, rows |-> rows]
        /\ screen' = IF a.mine
                     THEN [screen EXCEPT !.period = a.period, !.range = a.range,
                                         !.rows = rows, !.busy = FALSE, !.loaded = TRUE]
                     ELSE screen
    /\ loads' = [loads EXCEPT ![l] = NoLoad]
    /\ UNCHANGED <<shellVars, day>>

LoadFails(l) ==
    /\ ~Idle(l)
    /\ loads' = [loads EXCEPT ![l] = NoLoad]
    /\ screen' = IF loads[l].mine THEN [screen EXCEPT !.busy = FALSE, !.asked = None]
                 ELSE screen
    /\ excused' = TRUE
    /\ UNCHANGED <<shellVars, day, roster>>

Midnight ==
    /\ day < LastDay
    /\ day' = day + 1
    /\ excused' = TRUE
    /\ UNCHANGED <<shellVars, roster, screen, loads>>

ColdStart ==
    /\ Kill
    /\ roster' = NoCache
    /\ screen' = Off
    /\ loads' = [l \in Loads |-> NoLoad]
    /\ excused' = FALSE
    /\ UNCHANGED day

-----------------------------------------------------------------------------

AttendanceInit == ShellInit /\ RosterInit

AttendanceNext ==
    \/ ShellStep /\ Follows /\ UNCHANGED day
    \/ PickPeriod \/ PullDown \/ Midnight \/ ColdStart
    \/ \E l \in Loads : LoadAnswered(l) \/ LoadFails(l)

AttendanceSpec == AttendanceInit /\ [][AttendanceNext]_attendanceVars

-----------------------------------------------------------------------------
(* Properties *)

\* Once storage has nothing left to do, memory agrees with it.  The cached token
\* is the stored one, the Settings screen and the shell show its role, and the
\* tab in front is one it opens: through logins and binds that overlap, a logout
\* and a killed app; only a token that was set while a first read was under way
\* may be lost to that read.  The settings in use are the stored ones and name a
\* server, unless they were saved before the screen, or a request, had read the
\* old ones (storage.ts, App.tsx refreshRole, SettingsScreen save and bind).
StorageAgrees ==
    io = <<>> =>
        /\ ~raced =>
              /\ token = disk.token
              /\ role = RoleFromToken(token)
              /\ access = Snapshot(token)
              /\ tab \in TabsOf(access)
        /\ ~early =>
              /\ conf = IF disk.conf = None THEN Default ELSE disk.conf
              /\ conf # Blank

Quiet == io = <<>> /\ \A l \in Loads : Idle(l)

\* With nothing in flight, the screen in front shows the range of the period that
\* was picked, as of today, and rows that were answered to the login of now,
\* unless a load failed or overlapped another, midnight passed, or the login
\* was replaced under the screen, and no load has made up for it: the cache
\* that outlives a logout is loaded anew (AttendanceScreen load,
\* onPeriodChange, rosterCache).
RosterIsCurrent ==
    Quiet /\ screen.mounted /\ InFront /\ ~excused =>
        /\ screen.asked \in {screen.period, None}
        /\ screen.range = RangeFor(screen.period, day)
        /\ screen.rows \in {NoRows, [token |-> token, range |-> screen.range]}
=============================================================================
