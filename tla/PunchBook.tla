------------------------------ MODULE PunchBook ------------------------------
(***************************************************************************)
(* What the punch endpoints promise about one employee's day: at most one  *)
(* clock-in and at most one clock-out per calendar day, a clock-in that is *)
(* never altered, and a clock-out that only ever moves to a later time.    *)
(* The promise is atomic: no request is ever half way through.  It is off  *)
(* for a type of punch of an employee once two requests for it have        *)
(* overlapped, and for nothing else.  Module Attendance is the code, and   *)
(* implements this one (ImplementsPunchBook there).                        *)
(***************************************************************************)
EXTENDS Naturals

CONSTANTS
    Ids,        \* names of punches
    Employees,  \* employee ids
    MaxTime,    \* last instant of the model
    DayOf       \* calendar day of an instant

VARIABLES
    book,       \* the set of punches on record
    raced       \* types of punches whose requests have overlapped, per employee

Time == 0 .. MaxTime
Types == {"IN", "OUT"}

Punches == [id : Ids, emp : Employees, type : Types, time : Time]

PunchOn(e, ty, d) ==
    {p \in book : p.emp = e /\ p.type = ty /\ DayOf[p.time] = d}

Init ==
    /\ book = {}
    /\ raced = [e \in Employees |-> {}]

\* The first punch of its type on its day is recorded; a second one only
\* after requests for it overlapped.
Record(i, e, ty, t) ==
    /\ PunchOn(e, ty, DayOf[t]) = {} \/ ty \in raced[e]
    /\ \A p \in book : p.id # i
    /\ book' = book \cup {[id |-> i, emp |-> e, type |-> ty, time |-> t]}
    /\ UNCHANGED raced

\* A repeated clock-out moves the one on record to the later time.
MoveOut(p, t) ==
    /\ p.type = "OUT"
    /\ \/ t >= p.time /\ PunchOn(p.emp, "OUT", DayOf[t]) \subseteq {p}
       \/ "OUT" \in raced[p.emp]
    /\ book' = (book \ {p}) \cup {[p EXCEPT !.time = t]}
    /\ UNCHANGED raced

\* Removing an employee forgets all of the employee's punches.
Forget(e) ==
    /\ book' = {p \in book : p.emp # e}
    /\ UNCHANGED raced

Overlap(e, ty) ==
    /\ raced' = [raced EXCEPT ![e] = @ \cup {ty}]
    /\ UNCHANGED book

\* A step that leaves the book alone is an Overlap or a stutter.
Next ==
    \/ /\ book' # book
       /\ \/ \E i \in Ids, e \in Employees, ty \in Types, t \in Time : Record(i, e, ty, t)
          \/ \E p \in book, t \in Time : MoveOut(p, t)
          \/ \E e \in Employees : Forget(e)
    \/ \E e \in Employees, ty \in Types : Overlap(e, ty)

Spec == Init /\ [][Next]_<<book, raced>>
=============================================================================
