--------------------------- MODULE Regularization ---------------------------
(***************************************************************************)
(* RegularizationService: an employee asks for an exception for one day    *)
(* (working from home, on duty, ...), an administrator approves or rejects *)
(* it, the employee may cancel it, and the geofence gate of a clock-in     *)
(* lets an employee pass whose request for the day is approved.            *)
(*                                                                         *)
(* A row of wfh_regularization_requests is named by the create call that   *)
(* inserted it.  approve, reject and cancel are read-modify-write:         *)
(* findOne, then Repository.save, which reads the row again, compares it   *)
(* with the entity column by column, and updates the columns that differ.  *)
(* The only thing the database enforces is the partial unique index        *)
(* wfh_requests_active_uniq.                                               *)
(***************************************************************************)
EXTENDS Integers

CONSTANTS
    Employees,
    Creates,    \* one element per create call, and the row it inserts
    Decisions,  \* one element per approve, reject or cancel call
    Types,      \* the request types in use
    MaxDay,     \* bound: the last day of the model
    NoOne       \* a NULL column

ASSUME TypesAssumption == Types \subseteq {"wfh", "mark_present", "late_in", "early_out"}

ASSUME DayAssumption == MaxDay \in Nat

ASSUME NoOneAssumption == NoOne \notin Decisions

Days == 0 .. MaxDay

VARIABLES
    day,        \* localDateYmd()
    staff,      \* employees that have a row
    emp,        \* employee_id of a create call, and of its row
    date,       \* work_date
    type,       \* request_type
    status,     \* status of the row, "none" while there is no row
    reviewer,   \* reviewed_by_user_id and reviewed_at: the call that set them
    note,       \* review_note: the call that set it
    cpc,        \* the await a create call is suspended in
    target,     \* the row a decision is about
    verdict,    \* the status it sets
    noted,      \* TRUE if it carries a note
    dpc,        \* the await a decision is suspended in
    dirty,      \* the columns save has found to differ
    bypassed,   \* history: the employees let through the geofence, and the day
    raced       \* history: rows with two decisions in flight at once

request  == <<emp, date, type>>
decision == <<target, verdict, noted>>
row      == <<status, reviewer, note>>
vars     == <<day, staff, request, row, cpc, decision, dpc, dirty, bypassed, raced>>

Active  == {"pending", "approved"}
Decided == {"approved", "rejected", "cancelled"}
Columns == {"status", "reviewer", "note"}

TypeOK ==
    /\ day \in Days
    /\ staff \subseteq Employees
    /\ emp \in [Creates -> Employees]
    /\ date \in [Creates -> Days]
    /\ type \in [Creates -> Types]
    /\ status \in [Creates -> {"none", "pending"} \cup Decided]
    /\ reviewer \in [Creates -> Decisions \cup {NoOne}]
    /\ note \in [Creates -> Decisions \cup {NoOne}]
    /\ cpc \in [Creates -> {"idle", "lookup", "insert", "done"}]
    /\ target \in [Decisions -> Creates]
    /\ verdict \in [Decisions -> Decided]
    /\ noted \in [Decisions -> BOOLEAN]
    /\ dpc \in [Decisions -> {"idle", "select", "update", "done"}]
    /\ dirty \in [Decisions -> SUBSET Columns]
    /\ bypassed \subseteq Employees \X Days
    /\ raced \subseteq Creates

Init ==
    /\ day = 0
    /\ staff = Employees
    /\ emp \in [Creates -> Employees]
    /\ date \in [Creates -> Days]
    /\ type \in [Creates -> Types]
    /\ status = [c \in Creates |-> "none"]
    /\ reviewer = [c \in Creates |-> NoOne]
    /\ note = [c \in Creates |-> NoOne]
    /\ cpc = [c \in Creates |-> "idle"]
    /\ target \in [Decisions -> Creates]
    /\ verdict \in [Decisions -> Decided]
    /\ noted \in [Decisions -> BOOLEAN]
    /\ \A d \in Decisions : verdict[d] = "cancelled" => ~noted[d]
    /\ dpc = [d \in Decisions |-> "idle"]
    /\ dirty = [d \in Decisions |-> {}]
    /\ bypassed = {}
    /\ raced = {}

SameKey(b, c) == emp[b] = emp[c] /\ date[b] = date[c] /\ type[b] = type[c]

\* wfh_requests_active_uniq would refuse to make row c active.
IndexRefuses(c) ==
    \E b \in Creates \ {c} : SameKey(b, c) /\ status[b] \in Active

-----------------------------------------------------------------------------
(* create *)

ToCreate(c, step) == cpc' = [cpc EXCEPT ![c] = step]

\* On Duty is for today or the past, the other types for today or later.
DateAllowed(c) ==
    IF type[c] = "mark_present" THEN date[c] <= day ELSE date[c] >= day

\* employees.get answers and the date is checked.
Submit(c) ==
    /\ cpc[c] = "idle"
    /\ emp[c] \in staff
    /\ DateAllowed(c)
    /\ ToCreate(c, "lookup")
    /\ UNCHANGED <<day, staff, request, row, decision, dpc, dirty, bypassed, raced>>

\* The SELECT finds no pending or approved request of the same kind.
Lookup(c) ==
    /\ cpc[c] = "lookup"
    /\ ~IndexRefuses(c)
    /\ ToCreate(c, "insert")
    /\ UNCHANGED <<day, staff, request, row, decision, dpc, dirty, bypassed, raced>>

\* Slip: the unique index is missing.
InsertUnindexed(c) ==
    /\ cpc[c] = "insert"
    /\ emp[c] \in staff
    /\ status' = [status EXCEPT ![c] = "pending"]
    /\ ToCreate(c, "done")
    /\ UNCHANGED <<day, staff, request, reviewer, note, decision, dpc, dirty, bypassed, raced>>

\* The foreign key and the unique index guard the row.
Insert(c) ==
    /\ cpc[c] = "insert"
    /\ emp[c] \in staff
    /\ ~IndexRefuses(c)
    /\ status' = [status EXCEPT ![c] = "pending"]
    /\ ToCreate(c, "done")
    /\ UNCHANGED <<day, staff, request, reviewer, note, decision, dpc, dirty, bypassed, raced>>

\* 400, 403, 404, 409 or 500: the call ends without a row.
CreateFails(c) ==
    /\ cpc[c] # "done"
    /\ ToCreate(c, "done")
    /\ UNCHANGED <<day, staff, request, row, decision, dpc, dirty, bypassed, raced>>

-----------------------------------------------------------------------------
(* approve, reject and cancel *)

ToDecide(d, step) == dpc' = [dpc EXCEPT ![d] = step]

Deciding(d) == dpc[d] \in {"select", "update"}

\* Slip: the status of the request is not looked at.
LoadAny(d) ==
    /\ dpc[d] = "idle"
    /\ status[target[d]] # "none"
    /\ ToDecide(d, "select")
    /\ raced' = raced \cup {c \in {target[d]} : \E f \in Decisions : Deciding(f) /\ target[f] = c}
    /\ UNCHANGED <<day, staff, request, row, cpc, decision, dirty, bypassed>>

\* findOne returns a pending request; the entity is changed in memory.
Load(d) ==
    /\ dpc[d] = "idle"
    /\ status[target[d]] = "pending"
    /\ ToDecide(d, "select")
    /\ raced' = raced \cup {c \in {target[d]} : \E f \in Decisions : Deciding(f) /\ target[f] = c}
    /\ UNCHANGED <<day, staff, request, row, cpc, decision, dirty, bypassed>>

\* The columns of the entity: it was pending, so nobody had reviewed it.
Reviewer(d) == IF verdict[d] = "cancelled" THEN NoOne ELSE d
Note(d)     == IF noted[d] THEN d ELSE NoOne

\* Slip: compares the status only.
StatusDiffers(d) == {k \in {"status"} : status[target[d]] # verdict[d]}

Differing(d) ==
    {k \in Columns :
        \/ k = "status" /\ status[target[d]] # verdict[d]
        \/ k = "reviewer" /\ reviewer[target[d]] # Reviewer(d)
        \/ k = "note" /\ note[target[d]] # Note(d)}

\* save reads the row again and decides what to update.
SaveSelect(d) ==
    /\ dpc[d] = "select"
    /\ status[target[d]] # "none"
    /\ dirty' = [dirty EXCEPT ![d] = Differing(d)]
    /\ ToDecide(d, IF Differing(d) = {} THEN "done" ELSE "update")
    /\ UNCHANGED <<day, staff, request, row, cpc, decision, bypassed, raced>>

Writes(d, k) == k \in dirty[d]

\* UPDATE of the dirty columns; of a row that is gone it changes nothing.
SaveUpdate(d) ==
    LET c == target[d] IN
    /\ dpc[d] = "update"
    /\ status[c] # "none"
    /\ Writes(d, "status") /\ verdict[d] = "approved" => ~IndexRefuses(c)
    /\ status' = [status EXCEPT ![c] = IF Writes(d, "status") THEN verdict[d] ELSE @]
    /\ reviewer' = [reviewer EXCEPT ![c] = IF Writes(d, "reviewer") THEN Reviewer(d) ELSE @]
    /\ note' = [note EXCEPT ![c] = IF Writes(d, "note") THEN Note(d) ELSE @]
    /\ ToDecide(d, "done")
    /\ UNCHANGED <<day, staff, request, cpc, decision, dirty, bypassed, raced>>

\* 400, 403, 404 or 500; a save whose SELECT finds no row inserts one, which
\* the foreign key refuses, since a row only goes with its employee.
DecisionFails(d) ==
    /\ dpc[d] # "done"
    /\ ToDecide(d, "done")
    /\ UNCHANGED <<day, staff, request, row, cpc, decision, dirty, bypassed, raced>>

-----------------------------------------------------------------------------
(* The rest of the system, as far as it touches these rows. *)

\* Slip: a request that nobody has decided opens the gate.
HasActiveWfh(e) ==
    \E c \in Creates : /\ emp[c] = e /\ date[c] = day /\ type[c] = "wfh"
                       /\ status[c] \in Active

HasApprovedWfh(e) ==
    \E c \in Creates : /\ emp[c] = e /\ date[c] = day /\ type[c] = "wfh"
                       /\ status[c] = "approved"

\* assertGeofenceUnlessApprovedWfh answers wfh_bypass.
Gate(e) ==
    /\ e \in staff
    /\ HasApprovedWfh(e)
    /\ bypassed' = bypassed \cup {<<e, day>>}
    /\ UNCHANGED <<day, staff, request, row, cpc, decision, dpc, dirty, raced>>

\* ON DELETE CASCADE takes the requests of an employee.
RemoveEmployee(e) ==
    /\ e \in staff
    /\ staff' = staff \ {e}
    /\ status' = [c \in Creates |-> IF emp[c] = e THEN "none" ELSE status[c]]
    /\ UNCHANGED <<day, request, reviewer, note, cpc, decision, dpc, dirty, bypassed, raced>>

Midnight ==
    /\ day < MaxDay
    /\ day' = day + 1
    /\ UNCHANGED <<staff, request, row, cpc, decision, dpc, dirty, bypassed, raced>>

-----------------------------------------------------------------------------

CreateStep(c)   == Submit(c) \/ Lookup(c) \/ Insert(c) \/ CreateFails(c)
DecisionStep(d) == Load(d) \/ SaveSelect(d) \/ SaveUpdate(d) \/ DecisionFails(d)

Next ==
    \/ \E c \in Creates : CreateStep(c)
    \/ \E d \in Decisions : DecisionStep(d)
    \/ \E e \in Employees : Gate(e) \/ RemoveEmployee(e)
    \/ Midnight

Spec == Init /\ [][Next]_vars

-----------------------------------------------------------------------------
(* Properties *)

\* However creates, decisions and re-creates overlap, an employee never has two
\* pending or approved requests of one type for one day: what the SELECT of
\* create misses, and a late approval of a replaced request, the index refuses.
OneActive ==
    \A b, c \in Creates :
        b # c /\ SameKey(b, c) => ~(status[b] \in Active /\ status[c] \in Active)

\* A decided request changes its status again only if two decisions about it
\* were in flight at once, both having read "pending".
FinalNeedsRace ==
    [][\A c \in Creates : status[c] \in Decided =>
            status'[c] \in {status[c], "none"} \/ c \in raced]_vars

\* Status, reviewer and note of a decided request come from one decision,
\* unless two were in flight at once (save writes only what differs).
WholeReview(c) ==
    \E d \in Decisions : /\ target[d] = c
                         /\ status[c] = verdict[d]
                         /\ reviewer[c] = Reviewer(d)
                         /\ note[c] = Note(d)

MixedNeedsRace ==
    \A c \in Creates \ raced : status[c] \in Decided => WholeReview(c)

\* Whoever passed the geofence as working from home still has the approved
\* request for that day, unless decisions about it raced or the employee is gone.
BypassBacked ==
    \A e \in staff, t \in Days : <<e, t>> \in bypassed =>
        \E c \in Creates : /\ emp[c] = e /\ date[c] = t /\ type[c] = "wfh"
                           /\ status[c] = "approved" \/ c \in raced

-----------------------------------------------------------------------------
(* The inductive invariant *)

\* A decision in flight is alone with a request nobody has decided yet.
AloneWithPending ==
    \A d \in Decisions : Deciding(d) /\ target[d] \notin raced =>
        /\ status[target[d]] \in {"none", "pending"}
        /\ \A f \in Decisions \ {d} : Deciding(f) => target[f] # target[d]

\* What save is about to update completes the row as it is.
DirtyIsExact ==
    \A d \in Decisions : dpc[d] = "update" /\ target[d] \notin raced => dirty[d] = Differing(d)

\* A row is written after its create call has looked it up, and once.
RowsInserted ==
    \A c \in Creates : /\ status[c] # "none" => cpc[c] = "done"
                       /\ status[c] # "none" => emp[c] \in staff

IInv ==
    /\ OneActive
    /\ AloneWithPending
    /\ DirtyIsExact
    /\ RowsInserted
    /\ MixedNeedsRace
    /\ BypassBacked
=============================================================================
