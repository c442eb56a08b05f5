----------------------------- MODULE Attendance -----------------------------
(***************************************************************************)
(* The punch endpoints of the API: POST /attendance (AttendanceService     *)
(* .create) and POST /attend/kiosk (recordAutomatic, then create), running *)
(* concurrently with each other and with the removal of an employee.       *)
(*                                                                         *)
(* Every `await` of a handler is a point where the other handlers run, so  *)
(* a handler is a little state machine: pc[r] names the await request r is *)
(* suspended in, and each action is what the code does from the answer to  *)
(* that await up to the next one.  No transaction and no unique index      *)
(* guards attendance_logs: the SELECT that looks for an earlier punch and  *)
(* the INSERT that follows it are different actions.                       *)
(***************************************************************************)
EXTENDS Integers

CONSTANTS
    Employees,  \* employee ids
    Requests,   \* one element per HTTP request that is ever made
    ClientOf,   \* the device a request comes from, [Requests -> device]
    MaxTime,    \* bound: the last instant of the model
    DayOf,      \* localDateYmd: the IST date of an instant
    Cooldown,   \* attendanceCooldownSec
    NoRow       \* "no such row" of a query

Time  == 0 .. MaxTime
Types == {"IN", "OUT"}

ASSUME TimeAssumption == MaxTime \in Nat /\ Cooldown \in Nat

\* The calendar of a fixed-offset zone never goes back.
ASSUME DayAssumption ==
    /\ DayOf \in [Time -> Nat]
    /\ \A s, t \in Time : s <= t => DayOf[s] <= DayOf[t]

ASSUME NoRowAssumption == NoRow \notin Requests

VARIABLES
    now,        \* the server clock
    staff,      \* employees that have a row in table employees
    removal,    \* progress of DELETE /employees/:id, per employee
    rows,       \* attendance_logs: a row is named by the request that inserted it
    at,         \* event_time of each row
    emp,        \* employee_id of the request, and of the row it inserts
    type,       \* dto.type of the request, and of the row it inserts
    auto,       \* TRUE for /attend/kiosk, FALSE for /attendance
    pc,         \* the await a handler is suspended in
    today,      \* the handler's `today`
    found,      \* the handler's existingOut
    stamp,      \* the handler's event_time
    decided,    \* history: the day recordAutomatic chose the type on
    cleared,    \* history: employees whose rows a removal has deleted
    raced       \* history: types whose check-and-write overlapped, per employee

request == <<emp, type, auto, pc, today, found, stamp, decided>>
vars == <<now, staff, removal, rows, at, request, cleared, raced>>

Steps == {"idle", "lookup", "punches", "employee", "gate", "check",
          "put", "insert", "load", "update", "reinsert", "done"}

\* From the moment `today` is computed to the write that relies on it.
Window == {"check", "put", "insert", "load", "update", "reinsert"}

TypeOK ==
    /\ now \in Time
    /\ staff \subseteq Employees
    /\ removal \in [Employees -> {"no", "logs", "row"}]
    /\ rows \subseteq Requests
    /\ at \in [Requests -> Time]
    /\ emp \in [Requests -> Employees]
    /\ type \in [Requests -> Types]
    /\ auto \in [Requests -> BOOLEAN]
    /\ pc \in [Requests -> Steps]
    /\ today \in [Requests -> Nat]
    /\ found \in [Requests -> Requests \cup {NoRow}]
    /\ stamp \in [Requests -> Time]
    /\ decided \in [Requests -> Nat]
    /\ cleared \subseteq Employees
    /\ raced \in [Employees -> SUBSET Types]

\* The kiosk passes type 'IN', recordAutomatic overwrites it.
Init ==
    /\ now = 0
    /\ staff = Employees
    /\ removal = [e \in Employees |-> "no"]
    /\ rows = {}
    /\ at = [r \in Requests |-> 0]
    /\ emp \in [Requests -> Employees]
    /\ auto \in [Requests -> BOOLEAN]
    /\ type \in [Requests -> Types]
    /\ \A r \in Requests : auto[r] => type[r] = "IN"
    /\ pc = [r \in Requests |-> "idle"]
    /\ today = [r \in Requests |-> 0]
    /\ found = [r \in Requests |-> NoRow]
    /\ stamp = [r \in Requests |-> 0]
    /\ decided = [r \in Requests |-> 0]
    /\ cleared = {}
    /\ raced = [e \in Employees |-> {}]

Goto(r, step) == pc' = [pc EXCEPT ![r] = step]

InFlight(r) == pc[r] \notin {"idle", "done"}

\* Rows of the request's employee on the handler's `today` (dayBoundsIst).
PunchesToday(r) ==
    {q \in rows : emp[q] = emp[r] /\ DayOf[at[q]] = today[r]}

SameTypeToday(r) == {q \in PunchesToday(r) : type[q] = type[r]}

database == <<staff, removal, rows, at, cleared>>

-----------------------------------------------------------------------------
(* The kiosk handler, up to its call of create. *)

\* A device waits for its answer before it sends again (the screen is busy).
Begin(r) ==
    /\ pc[r] = "idle"
    /\ \A q \in Requests : ClientOf[q] = ClientOf[r] => ~InFlight(q)
    /\ Goto(r, IF auto[r] THEN "lookup" ELSE "employee")
    /\ UNCHANGED <<now, database, emp, type, auto, today, found, stamp, decided, raced>>

\* recordAutomatic: employees.get answers, `today` is fixed, the SELECT is sent.
Lookup(r) ==
    /\ pc[r] = "lookup"
    /\ emp[r] \in staff
    /\ today' = [today EXCEPT ![r] = DayOf[now]]
    /\ Goto(r, "punches")
    /\ UNCHANGED <<now, database, emp, type, auto, found, stamp, decided, raced>>

\* Slip: the cooldown test is off by one unit of time.
InCooldownShort(r) ==
    \E p \in PunchesToday(r) :
        /\ \A q \in PunchesToday(r) : at[q] <= at[p]
        /\ now - at[p] >= 0
        /\ now - at[p] < Cooldown - 1

\* The latest punch of the day is younger than the cooldown.
InCooldown(r) ==
    \E p \in PunchesToday(r) :
        /\ \A q \in PunchesToday(r) : at[q] <= at[p]
        /\ now - at[p] >= 0
        /\ now - at[p] < Cooldown

HasPunch(r, ty) == \E p \in PunchesToday(r) : type[p] = ty

\* recordAutomatic: the day's punches choose the type, or end the handler.
Decide(r) ==
    /\ pc[r] = "punches"
    /\ ~InCooldown(r)
    /\ ~(HasPunch(r, "IN") /\ HasPunch(r, "OUT"))
    /\ type' = [type EXCEPT ![r] = IF HasPunch(r, "IN") THEN "OUT" ELSE "IN"]
    /\ decided' = [decided EXCEPT ![r] = today[r]]
    /\ Goto(r, "employee")
    /\ UNCHANGED <<now, database, emp, auto, today, found, stamp, raced>>

-----------------------------------------------------------------------------
(* AttendanceService.create. *)

\* create: employees.get answers.
GetEmployee(r) ==
    /\ pc[r] = "employee"
    /\ emp[r] \in staff
    /\ Goto(r, "gate")
    /\ UNCHANGED <<now, database, emp, type, auto, today, found, stamp, decided, raced>>

\* Face match and geofence let the request through (each may refuse: Fail);
\* `today` is fixed and the SELECT for an earlier punch is sent.
Gate(r) ==
    /\ pc[r] = "gate"
    /\ emp[r] \in staff
    /\ today' = [today EXCEPT ![r] = DayOf[now]]
    /\ Goto(r, "check")
    /\ raced' = IF \E q \in Requests \ {r} :
                       pc[q] \in Window /\ emp[q] = emp[r] /\ type[q] = type[r]
                THEN [raced EXCEPT ![emp[r]] = @ \cup {type[r]}]
                ELSE raced
    /\ UNCHANGED <<now, database, emp, type, auto, found, stamp, decided>>

\* Slip: the duplicate check of create is left out.
CheckInUnchecked(r) ==
    /\ pc[r] = "check"
    /\ type[r] = "IN"
    /\ found' = [found EXCEPT ![r] = NoRow]
    /\ Goto(r, "put")
    /\ UNCHANGED <<now, database, emp, type, auto, today, stamp, decided, raced>>

\* Slip: a repeated clock-in is replaced the way a repeated clock-out is.
CheckInReplacing(r) ==
    /\ pc[r] = "check"
    /\ type[r] = "IN"
    /\ \/ /\ SameTypeToday(r) = {}
          /\ found' = [found EXCEPT ![r] = NoRow]
       \/ \E q \in SameTypeToday(r) : found' = [found EXCEPT ![r] = q]
    /\ Goto(r, "put")
    /\ UNCHANGED <<now, database, emp, type, auto, today, stamp, decided, raced>>

\* create, type IN: an earlier IN of the day refuses the request (Fail).
CheckIn(r) ==
    /\ pc[r] = "check"
    /\ type[r] = "IN"
    /\ SameTypeToday(r) = {}
    /\ found' = [found EXCEPT ![r] = NoRow]
    /\ Goto(r, "put")
    /\ UNCHANGED <<now, database, emp, type, auto, today, stamp, decided, raced>>

\* Slip: an earlier OUT of the day is not looked for.
CheckOutUnchecked(r) ==
    /\ pc[r] = "check"
    /\ type[r] = "OUT"
    /\ found' = [found EXCEPT ![r] = NoRow]
    /\ Goto(r, "put")
    /\ UNCHANGED <<now, database, emp, type, auto, today, stamp, decided, raced>>

\* create, type OUT: the earliest OUT of the day is the one to replace.
CheckOut(r) ==
    /\ pc[r] = "check"
    /\ type[r] = "OUT"
    /\ \/ /\ SameTypeToday(r) = {}
          /\ found' = [found EXCEPT ![r] = NoRow]
       \/ \E q \in SameTypeToday(r) :
             /\ \A p \in SameTypeToday(r) : at[q] <= at[p]
             /\ found' = [found EXCEPT ![r] = q]
    /\ Goto(r, "put")
    /\ UNCHANGED <<now, database, emp, type, auto, today, stamp, decided, raced>>

\* storage.put answers (or there is no image): event_time = new Date().
Put(r) ==
    /\ pc[r] = "put"
    /\ stamp' = [stamp EXCEPT ![r] = now]
    /\ Goto(r, IF found[r] = NoRow THEN "insert" ELSE "load")
    /\ UNCHANGED <<now, database, emp, type, auto, today, found, decided, raced>>

\* repo.save of a new entity: INSERT, with the foreign key to employees.
Insert(r) ==
    /\ pc[r] = "insert"
    /\ emp[r] \in staff
    /\ rows' = rows \cup {r}
    /\ at' = [at EXCEPT ![r] = stamp[r]]
    /\ Goto(r, "done")
    /\ UNCHANGED <<now, staff, removal, emp, type, auto, today, found, stamp,
                   decided, cleared, raced>>

\* repo.save of existingOut first SELECTs it by id: found, it will be an
\* UPDATE of the changed columns; not found, an INSERT of the stale entity.
Load(r) ==
    /\ pc[r] = "load"
    /\ Goto(r, IF found[r] \in rows THEN "update" ELSE "reinsert")
    /\ UNCHANGED <<now, database, emp, type, auto, today, found, stamp, decided, raced>>

\* UPDATE ... WHERE id: without effect on a row deleted meanwhile.
Update(r) ==
    /\ pc[r] = "update"
    /\ at' = IF found[r] \in rows
             THEN [at EXCEPT ![found[r]] = stamp[r]]
             ELSE at
    /\ Goto(r, "done")
    /\ UNCHANGED <<now, staff, removal, rows, emp, type, auto, today, found,
                   stamp, decided, cleared, raced>>

\* INSERT with the old id: primary key and foreign key must allow it.
Reinsert(r) ==
    /\ pc[r] = "reinsert"
    /\ found[r] \notin rows
    /\ emp[r] \in staff
    /\ rows' = rows \cup {found[r]}
    /\ at' = [at EXCEPT ![found[r]] = stamp[r]]
    /\ Goto(r, "done")
    /\ UNCHANGED <<now, staff, removal, emp, type, auto, today, found, stamp,
                   decided, cleared, raced>>

\* Every throw: 404, cooldown, day completed, face or geofence refused,
\* duplicate IN, a constraint, a lost database or storage.  None of these
\* paths has written a row, and none undoes anything.
Fail(r) ==
    /\ InFlight(r)
    /\ Goto(r, "done")
    /\ UNCHANGED <<now, database, emp, type, auto, today, found, stamp, decided, raced>>

-----------------------------------------------------------------------------
(* EmployeesService.remove: three statements, no transaction. *)

\* employees.get answers.
StartRemove(e) ==
    /\ removal[e] = "no"
    /\ e \in staff
    /\ removal' = [removal EXCEPT ![e] = "logs"]
    /\ UNCHANGED <<now, staff, rows, at, request, cleared, raced>>

\* DELETE FROM attendance_logs (and face_templates, see Enrollment).
DeleteLogs(e) ==
    /\ removal[e] = "logs"
    /\ rows' = {r \in rows : emp[r] # e}
    /\ cleared' = cleared \cup {e}
    /\ removal' = [removal EXCEPT ![e] = "row"]
    /\ UNCHANGED <<now, staff, at, request, raced>>

\* Slip: the employee goes although rows were written after DeleteLogs.
RemoveEmployeeAnyway(e) ==
    /\ removal[e] = "row"
    /\ staff' = staff \ {e}
    /\ removal' = [removal EXCEPT ![e] = "no"]
    /\ UNCHANGED <<now, rows, at, request, cleared, raced>>

\* repo.remove: the foreign key refuses it while the employee has rows.
RemoveEmployee(e) ==
    /\ removal[e] = "row"
    /\ staff' = IF \E r \in rows : emp[r] = e THEN staff ELSE staff \ {e}
    /\ removal' = [removal EXCEPT ![e] = "no"]
    /\ UNCHANGED <<now, rows, at, request, cleared, raced>>

Tick ==
    /\ now < MaxTime
    /\ now' = now + 1
    /\ UNCHANGED <<database, request, raced>>

-----------------------------------------------------------------------------
Handler(r) ==
    \/ Begin(r) \/ Lookup(r) \/ Decide(r) \/ GetEmployee(r) \/ Gate(r)
    \/ CheckIn(r) \/ CheckOut(r) \/ Put(r) \/ Insert(r)
    \/ Load(r) \/ Update(r) \/ Reinsert(r) \/ Fail(r)

Removal(e) == StartRemove(e) \/ DeleteLogs(e) \/ RemoveEmployee(e)

Next ==
    \/ \E r \in Requests : Handler(r)
    \/ \E e \in Employees : Removal(e)
    \/ Tick

Spec == Init /\ [][Next]_vars

-----------------------------------------------------------------------------
(* Properties. *)

\* A second IN (or OUT) of one employee on one day needs two requests of that
\* employee and type whose windows, from computing `today` to the write,
\* overlapped: the check of `create` is sound for requests one after another,
\* also across midnight, repeated clock-outs and an employee's removal.
DuplicateNeedsRace ==
    \A p, q \in rows :
        /\ p # q
        /\ emp[p] = emp[q]
        /\ type[p] = type[q]
        /\ DayOf[at[p]] = DayOf[at[q]]
        => type[p] \in raced[emp[p]]

\* An employee that is gone left no attendance row behind, whatever a handler
\* that had already looked the employee up does next.
RowsHaveEmployees == \A r \in rows : emp[r] \in staff

\* A clock-out the kiosk chose, stored on the day it was chosen, comes at least
\* the cooldown after a clock-in of that day, also when racing requests moved
\* it later; only deleting the employee's rows can take the clock-in away.
KioskOutFollowsIn ==
    \A r \in rows :
        /\ auto[r] /\ type[r] = "OUT"
        /\ DayOf[at[r]] = decided[r]
        /\ emp[r] \notin cleared
        => \E q \in rows :
              /\ emp[q] = emp[r] /\ type[q] = "IN"
              /\ DayOf[at[q]] = DayOf[at[r]]
              /\ at[q] + Cooldown <= at[r]

\* A clock-in on record is never altered, and once deleted with its employee's
\* rows it never comes back (a clock-out can: repo.save re-inserts it).
ClockInFrozen ==
    [][\A r \in Requests :
          type[r] = "IN" /\ pc[r] = "done" =>
             /\ r \in rows' => r \in rows
             /\ r \in rows => at'[r] = at[r]]_vars

\* The refinement mapping: the rows are the punches on record.
Punch(r) == [id |-> r, emp |-> emp[r], type |-> type[r], time |-> at[r]]

Recorded == {Punch(r) : r \in rows}

Book == INSTANCE PunchBook WITH Ids <- Requests, book <- Recorded

\* The handlers implement the atomic promise of PunchBook, also while employees
\* are being removed and across midnight: only overlapping requests for the
\* same type of punch of the same employee void it, and only for that type.
ImplementsPunchBook == Book!Spec
-----------------------------------------------------------------------------
(* The inductive invariant behind DuplicateNeedsRace: a state satisfies   *)
(* it only if no step from it can break the property (Attendance_proofs).    *)

SameKind(r, s) == emp[r] = emp[s] /\ type[r] = type[s]

Raced(r) == type[r] \in raced[emp[r]]

Writing == {"insert", "load", "update", "reinsert"}

\* A row was written by a finished request; the row a handler holds is a
\* clock-out of its own employee.
HeldRows ==
    /\ \A q \in rows : pc[q] = "done"
    /\ \A r \in Requests :
          /\ pc[r] \in {"put", "load", "update", "reinsert"} /\ found[r] # NoRow =>
                /\ pc[found[r]] = "done"
                /\ SameKind(found[r], r)
                /\ type[r] = "OUT"
          /\ pc[r] = "insert" => found[r] = NoRow
          /\ pc[r] \in {"load", "update", "reinsert"} => found[r] # NoRow

\* Nothing is dated in the future, and a handler's event_time is not before the
\* day it checked.
Clocks ==
    /\ \A q \in rows : at[q] <= now
    /\ \A r \in Requests :
          /\ pc[r] \in Window => today[r] <= DayOf[now]
          /\ pc[r] \in Writing => stamp[r] <= now /\ today[r] <= DayOf[stamp[r]]

\* Overlapping windows have been noticed.
OverlapIsRaced ==
    \A r, s \in Requests :
        r # s /\ pc[r] \in Window /\ pc[s] \in Window /\ SameKind(r, s) => Raced(r)

\* Without a race nothing is on record after the handler's `today`, and what is
\* on record for `today` is what its SELECT returned.
CheckStillHolds ==
    \A r \in Requests, q \in rows :
        SameKind(r, q) /\ ~Raced(r) =>
            /\ pc[r] \in Window => DayOf[at[q]] <= today[r]
            /\ pc[r] \in Window \ {"check"} /\ q # found[r] => DayOf[at[q]] # today[r]

IInv ==
    /\ HeldRows
    /\ Clocks
    /\ OverlapIsRaced
    /\ CheckStillHolds
    /\ DuplicateNeedsRace
    /\ RowsHaveEmployees

=============================================================================
