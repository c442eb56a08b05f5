---------------------------- MODULE RequestsScreen ----------------------------
(***************************************************************************)
(* The Regularize screen of the mobile app (RegularizationScreen.tsx): the *)
(* form of an employee, the list of requests, and the buttons that approve *)
(* and reject, or cancel, them.  One request to the server is in flight at *)
(* a time, for busy disables every button; what succeeds is followed by a  *)
(* load of the list.  The server is module Regularization, cut down here   *)
(* to the status of a request and the check of its date.                   *)
(*                                                                         *)
(* The screen is mounted for one login: a logout unmounts it.  The reason  *)
(* typed in is never blank.                                                *)
(***************************************************************************)
EXTENDS Integers

CONSTANTS
    Ids,        \* requests
    Mine,       \* those of the employee who is signed in
    LastDate,   \* days are 0 .. LastDate
    Nothing

ASSUME RequestsAssumption ==
    /\ Mine \subseteq Ids
    /\ LastDate \in Nat /\ Nothing \notin Ids

VARIABLES
    status,     \* the server: of each request, "none" before it is created
    today,      \* todayIst, here and at the server
    asOf,       \* today when the screen was last rendered
    isAdmin,
    requestType,
    workDate,
    rows,       \* the statuses shown, or Nothing
    op,         \* the request in flight, busy while there is one
    midnight,   \* history: midnight passed since the type or the date was chosen
    stale       \* history: a status was changed by others, or a request failed,
                \* since the rows were asked for

serverSide   == <<status, today>>
dates        == <<asOf, requestType, workDate, midnight>>
shown        == <<rows, op, stale>>
requestsVars == <<serverSide, dates, isAdmin, shown>>

Types == {"wfh", "late_in", "early_out", "mark_present"}

NoOp == [kind |-> "none", id |-> Nothing, date |-> 0, type |-> "wfh",
         step |-> "none", got |-> Nothing]

AskLoad == [NoOp EXCEPT !.kind = "load", !.step = "asked"]

Visible == IF isAdmin THEN Ids ELSE Mine

\* What the server requires of the date: the day of a duty forgotten is not
\* ahead, any other day is not past.
Fits(type, date, now) ==
    IF type = "mark_present" THEN date <= now ELSE date >= now

RequestsInit ==
    /\ status \in [Ids -> {"none", "pending"}]
    /\ today = 0 /\ asOf = 0
    /\ isAdmin \in BOOLEAN
    /\ requestType = "wfh" /\ workDate = 0 /\ midnight = FALSE
    /\ rows = Nothing
    /\ op = AskLoad
    /\ stale = FALSE

\* Every change of its state renders the screen.
Renders == asOf' = today

-----------------------------------------------------------------------------
(* The form *)

\* Slip: the date is kept.
TypeOnly(t) ==
    /\ ~isAdmin
    /\ requestType' = t /\ midnight' = FALSE
    /\ Renders
    /\ UNCHANGED <<serverSide, workDate, isAdmin, shown>>

\* selectType: a date that does not fit becomes today.
SelectType(t) ==
    /\ ~isAdmin
    /\ requestType' = t
    /\ workDate' = IF Fits(t, workDate, today) THEN workDate ELSE today
    /\ midnight' = FALSE
    /\ Renders
    /\ UNCHANGED <<serverSide, isAdmin, shown>>

\* DatePickerField: any day, of any month, that fits as of the last rendering.
PickDate ==
    /\ ~isAdmin
    /\ workDate' \in {d \in 0 .. LastDate : Fits(requestType, d, asOf)}
    /\ midnight' = (asOf # today)
    /\ Renders
    /\ UNCHANGED <<serverSide, requestType, isAdmin, shown>>

NextDay ==
    /\ today < LastDate
    /\ today' = today + 1
    /\ midnight' = TRUE
    /\ UNCHANGED <<status, asOf, requestType, workDate, isAdmin, shown>>

-----------------------------------------------------------------------------
(* Requests to the server *)

Act(kind, id) ==
    /\ op = NoOp
    /\ op' = [NoOp EXCEPT !.kind = kind, !.id = id, !.step = "asked",
                          !.type = requestType, !.date = workDate]
    /\ Renders
    /\ UNCHANGED <<serverSide, requestType, workDate, midnight, isAdmin, rows, stale>>

Submit == ~isAdmin /\ \E id \in Mine : status[id] = "none" /\ Act("create", id)

\* The buttons of a row that is shown as pending.
PressRow(kind) ==
    /\ rows # Nothing
    /\ \E id \in Visible : rows[id] = "pending" /\ Act(kind, id)

Approve == isAdmin /\ PressRow("approve")
Reject  == isAdmin /\ PressRow("reject")
Cancel  == ~isAdmin /\ PressRow("cancel")

\* load, pulled down.
Pull ==
    /\ op = NoOp
    /\ op' = AskLoad
    /\ Renders
    /\ UNCHANGED <<serverSide, requestType, workDate, midnight, isAdmin, rows, stale>>

After(kind) == CASE kind = "create"  -> "pending"
                 [] kind = "approve" -> "approved"
                 [] kind = "reject"  -> "rejected"
                 [] kind = "cancel"  -> "cancelled"

\* The server does it and answers, refuses it, or one of the two is lost.
ServeAct ==
    /\ op.kind \notin {"none", "load"} /\ op.step = "asked"
    /\ LET legal == IF op.kind = "create"
                    THEN status[op.id] = "none" /\ Fits(op.type, op.date, today)
                    ELSE status[op.id] = "pending"
       IN
       \/ /\ legal
          /\ status' = [status EXCEPT ![op.id] = After(op.kind)]
          /\ op' = [op EXCEPT !.step = "done"]
          /\ UNCHANGED stale
       \/ /\ legal
          /\ status' = [status EXCEPT ![op.id] = After(op.kind)]
          /\ op' = NoOp /\ stale' = TRUE
       \/ op' = NoOp /\ UNCHANGED <<status, stale>>
    /\ Renders
    /\ UNCHANGED <<today, requestType, workDate, midnight, isAdmin, rows>>

\* Slip: no load after it.
ActDone ==
    /\ op.step = "done"
    /\ op' = NoOp
    /\ Renders
    /\ UNCHANGED <<serverSide, requestType, workDate, midnight, isAdmin, rows, stale>>

\* The end of submit, approve, reject and cancel.
ActAnswered ==
    /\ op.step = "done"
    /\ op' = AskLoad
    /\ Renders
    /\ UNCHANGED <<serverSide, requestType, workDate, midnight, isAdmin, rows, stale>>

ServeLoad ==
    /\ op.kind = "load" /\ op.step = "asked"
    /\ op' = [op EXCEPT !.step = "served", !.got = [id \in Visible |-> status[id]]]
    /\ stale' = FALSE
    /\ UNCHANGED <<serverSide, dates, isAdmin, rows>>

RowsAnswered ==
    /\ op.kind = "load" /\ op.step = "served"
    /\ rows' = op.got
    /\ op' = NoOp
    /\ Renders
    /\ UNCHANGED <<serverSide, requestType, workDate, midnight, isAdmin, stale>>

RowsFail ==
    /\ op.kind = "load"
    /\ op' = NoOp /\ stale' = TRUE
    /\ Renders
    /\ UNCHANGED <<serverSide, requestType, workDate, midnight, isAdmin, rows>>

\* Another client creates, reviews or cancels a request.
Elsewhere ==
    /\ \E id \in Ids :
        /\ status[id] \in {"none", "pending"}
        /\ status' = [status EXCEPT ![id] =
                        IF @ = "none" THEN "pending" ELSE "approved"]
        /\ stale' = (stale \/ id \in Visible)
    /\ UNCHANGED <<today, dates, isAdmin, rows, op>>

RequestsNext ==
    \/ \E t \in Types : SelectType(t)
    \/ PickDate \/ NextDay
    \/ Submit \/ Approve \/ Reject \/ Cancel \/ Pull
    \/ ServeAct \/ ActAnswered \/ ServeLoad \/ RowsAnswered \/ RowsFail
    \/ Elsewhere

RequestsSpec == RequestsInit /\ [][RequestsNext]_requestsVars

-----------------------------------------------------------------------------
(* Properties *)

\* The form offers no request that the server refuses for its date, through
\* changes of the type and picks in the calendar, unless midnight passed since
\* the type or the date was chosen (RegularizationScreen selectType,
\* DatePickerField, regularization.service create).
DateFits == midnight \/ Fits(requestType, workDate, today)

\* With nothing in flight, the rows are as the server has them, also after a
\* request of this screen that was refused, unless its answer or a load was
\* lost or another client changed a request since (RegularizationScreen submit,
\* approve, reject, cancel, load).
RowsAreTrue ==
    op = NoOp /\ ~stale => rows = [id \in Visible |-> status[id]]
=============================================================================
