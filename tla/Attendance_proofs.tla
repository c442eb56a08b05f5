-------------------------- MODULE Attendance_proofs --------------------------
(***************************************************************************)
(* Proofs about the punch handlers of module Attendance, for any number of *)
(* employees, requests and instants.                                       *)
(***************************************************************************)
EXTENDS Reports, WellFoundedInduction, TLAPS

\* Every step keeps the types; that Reinsert names a row needs HeldRows.
LEMMA TypeStep ==
    ASSUME TypeOK, HeldRows, [Next]_vars
    PROVE  TypeOK'
<1> USE TimeAssumption, DayAssumption, NoRowAssumption
    DEF Time, Types, Steps, TypeOK, Goto, database
<1>1. ASSUME NEW r \in Requests, Begin(r)
      PROVE  TypeOK'
  BY <1>1 DEF Begin
<1>2. ASSUME NEW r \in Requests, Lookup(r)
      PROVE  TypeOK'
  BY <1>2 DEF Lookup
<1>3. ASSUME NEW r \in Requests, Decide(r)
      PROVE  TypeOK'
  BY <1>3 DEF Decide
<1>4. ASSUME NEW r \in Requests, GetEmployee(r)
      PROVE  TypeOK'
  BY <1>4 DEF GetEmployee
<1>5. ASSUME NEW r \in Requests, Gate(r)
      PROVE  TypeOK'
  BY <1>5 DEF Gate
<1>6. ASSUME NEW r \in Requests, CheckIn(r)
      PROVE  TypeOK'
  BY <1>6 DEF CheckIn
<1>7. ASSUME NEW r \in Requests, CheckOut(r)
      PROVE  TypeOK'
  <2>1. found' \in [Requests -> Requests \cup {NoRow}]
    BY <1>7, ZenonT(30) DEF CheckOut, SameTypeToday, PunchesToday
  <2> QED
    BY <1>7, <2>1 DEF CheckOut
<1>8. ASSUME NEW r \in Requests, Put(r)
      PROVE  TypeOK'
  BY <1>8 DEF Put
<1>9. ASSUME NEW r \in Requests, Insert(r)
      PROVE  TypeOK'
  BY <1>9 DEF Insert
<1>10. ASSUME NEW r \in Requests, Load(r)
       PROVE  TypeOK'
  BY <1>10 DEF Load
<1>11. ASSUME NEW r \in Requests, Update(r)
       PROVE  TypeOK'
  BY <1>11 DEF Update
<1>12. ASSUME NEW r \in Requests, Reinsert(r)
       PROVE  TypeOK'
  <2>1. found[r] \in Requests
    BY <1>12 DEF Reinsert, HeldRows
  <2> QED
    BY <1>12, <2>1 DEF Reinsert
<1>13. ASSUME NEW r \in Requests, Fail(r)
       PROVE  TypeOK'
  BY <1>13 DEF Fail
<1>14. ASSUME NEW e \in Employees, Removal(e)
       PROVE  TypeOK'
  BY <1>14 DEF Removal, StartRemove, DeleteLogs, RemoveEmployee, request
<1>15. CASE Tick
  BY <1>15 DEF Tick, request
<1>16. CASE UNCHANGED vars
  BY <1>16 DEF vars, request
<1> QED
  BY <1>1, <1>2, <1>3, <1>4, <1>5, <1>6, <1>7, <1>8, <1>9, <1>10, <1>11,
     <1>12, <1>13, <1>14, <1>15, <1>16
     DEF Next, Handler

-----------------------------------------------------------------------------
(* The steps outside a window: the handler computes no `today` and writes   *)
(* nothing, so whatever it changes of its own locals is of no consequence.  *)

Quiet(r) ==
    /\ rows' = rows /\ at' = at /\ now' = now /\ staff' = staff
    /\ raced' = raced /\ found' = found /\ stamp' = stamp /\ emp' = emp
    /\ \A s \in Requests \ {r} :
          pc'[s] = pc[s] /\ type'[s] = type[s] /\ today'[s] = today[s]
    /\ pc[r] # "done" /\ pc'[r] \notin Window
    /\ r \notin rows

LEMMA QuietKeepsIInv ==
    ASSUME TypeOK, IInv, NEW r \in Requests, Quiet(r)
    PROVE  IInv'
<1> USE DEF IInv, Quiet, Window
<1>1. HeldRows'
  BY DEF HeldRows, SameKind, TypeOK
<1>2. Clocks'
  BY DEF Clocks, Writing
<1>3. OverlapIsRaced'
  BY DEF OverlapIsRaced, SameKind, Raced
<1>4. CheckStillHolds'
  <2> SUFFICES ASSUME NEW s \in Requests, NEW q \in rows', SameKind(s, q)', ~Raced(s)'
               PROVE  /\ pc'[s] \in Window => DayOf[at'[q]] <= today'[s]
                      /\ pc'[s] \in Window \ {"check"} /\ q # found'[s]
                            => DayOf[at'[q]] # today'[s]
    BY DEF CheckStillHolds
  <2>1. CASE s = r
    BY <2>1
  <2>2. CASE s # r
    <3>1. SameKind(s, q) /\ ~Raced(s)
      BY <2>2 DEF SameKind, Raced, TypeOK
    <3> QED
      BY <2>2, <3>1 DEF CheckStillHolds
  <2> QED
    BY <2>1, <2>2
<1>5. DuplicateNeedsRace'
  BY DEF DuplicateNeedsRace, TypeOK
<1>6. RowsHaveEmployees'
  BY DEF RowsHaveEmployees
<1> QED
  BY <1>1, <1>2, <1>3, <1>4, <1>5, <1>6

LEMMA QuietActions ==
    ASSUME TypeOK, IInv, NEW r \in Requests,
           Begin(r) \/ Lookup(r) \/ Decide(r) \/ GetEmployee(r) \/ Fail(r)
    PROVE  IInv'
<1> USE DEF Goto, database, Quiet, Window, TypeOK
<1>1. pc[r] # "done" => r \notin rows
  BY DEF IInv, HeldRows
<1>2. CASE Begin(r)
  BY <1>1, <1>2, QuietKeepsIInv DEF Begin
<1>3. CASE Lookup(r)
  BY <1>1, <1>3, QuietKeepsIInv DEF Lookup
<1>4. CASE Decide(r)
  BY <1>1, <1>4, QuietKeepsIInv DEF Decide
<1>5. CASE GetEmployee(r)
  BY <1>1, <1>5, QuietKeepsIInv DEF GetEmployee
<1>6. CASE Fail(r)
  BY <1>1, <1>6, QuietKeepsIInv DEF Fail, InFlight
<1> QED
  BY <1>2, <1>3, <1>4, <1>5, <1>6

-----------------------------------------------------------------------------
(* The steps inside a window that write nothing. *)

Inside(r) ==
    /\ rows' = rows /\ at' = at /\ now' = now /\ staff' = staff
    /\ raced' = raced /\ emp' = emp /\ type' = type /\ today' = today
    /\ \A s \in Requests \ {r} :
          pc'[s] = pc[s] /\ found'[s] = found[s] /\ stamp'[s] = stamp[s]
    /\ pc[r] \in Window /\ pc'[r] \in Window

\* Left to show for such a step: what concerns the locals of r itself.
LEMMA InsideKeepsIInv ==
    ASSUME TypeOK, IInv, NEW r \in Requests, Inside(r),
           (pc'[r] = "put" /\ found'[r] # NoRow) \/ pc'[r] \in {"load", "update", "reinsert"} =>
              /\ found'[r] \in Requests /\ pc[found'[r]] = "done"
              /\ SameKind(found'[r], r) /\ type[r] = "OUT",
           pc'[r] = "insert" => found'[r] = NoRow,
           pc'[r] \in Writing => stamp'[r] <= now /\ today[r] <= DayOf[stamp'[r]],
           \A q \in rows : SameKind(r, q) /\ ~Raced(r) /\ q # found'[r]
                               => DayOf[at[q]] # today[r]
    PROVE  IInv'
<1> USE NoRowAssumption DEF IInv, Inside, Window
<1>1. HeldRows'
  <2>1. \A q \in rows' : pc'[q] = "done"
    BY DEF HeldRows, TypeOK
  <2>2. \A s \in Requests :
          /\ pc'[s] \in {"put", "load", "update", "reinsert"} /\ found'[s] # NoRow =>
                pc'[found'[s]] = "done" /\ SameKind(found'[s], s) /\ type[s] = "OUT"
          /\ pc'[s] = "insert" => found'[s] = NoRow
          /\ pc'[s] \in {"load", "update", "reinsert"} => found'[s] # NoRow
    BY DEF HeldRows, TypeOK, SameKind
  <2> QED
    BY <2>1, <2>2 DEF HeldRows, SameKind
<1>2. Clocks'
  BY DEF Clocks, Writing
<1>3. OverlapIsRaced'
  BY DEF OverlapIsRaced, SameKind, Raced
<1>4. CheckStillHolds'
  <2> SUFFICES ASSUME NEW s \in Requests, NEW q \in rows', SameKind(s, q)', ~Raced(s)'
               PROVE  /\ pc'[s] \in Window => DayOf[at'[q]] <= today'[s]
                      /\ pc'[s] \in Window \ {"check"} /\ q # found'[s]
                            => DayOf[at'[q]] # today'[s]
    BY DEF CheckStillHolds
  <2>1. SameKind(s, q) /\ ~Raced(s) /\ q \in rows
    BY DEF SameKind, Raced
  <2>2. CASE s = r
    BY <2>1, <2>2 DEF CheckStillHolds
  <2>3. CASE s # r
    BY <2>1, <2>3 DEF CheckStillHolds
  <2> QED
    BY <2>2, <2>3
<1>5. DuplicateNeedsRace'
  BY DEF DuplicateNeedsRace
<1>6. RowsHaveEmployees'
  BY DEF RowsHaveEmployees
<1> QED
  BY <1>1, <1>2, <1>3, <1>4, <1>5, <1>6

LEMMA CheckStep ==
    ASSUME TypeOK, IInv, NEW r \in Requests, CheckIn(r) \/ CheckOut(r)
    PROVE  IInv'
<1> USE DEF IInv
<1>1. Inside(r) /\ pc'[r] = "put"
  BY DEF CheckIn, CheckOut, Inside, Window, Goto, database, TypeOK
<1>2. \/ found'[r] = NoRow /\ SameTypeToday(r) = {}
      \/ /\ found'[r] \in SameTypeToday(r) /\ type[r] = "OUT"
         /\ \A p \in SameTypeToday(r) : at[found'[r]] <= at[p]
  BY DEF CheckIn, CheckOut, TypeOK
<1>3. found'[r] # NoRow =>
         /\ found'[r] \in Requests /\ pc[found'[r]] = "done"
         /\ SameKind(found'[r], r) /\ type[r] = "OUT"
  BY <1>2 DEF SameTypeToday, PunchesToday, HeldRows, SameKind, TypeOK
<1>4. ASSUME NEW q \in rows, SameKind(r, q), ~Raced(r), q # found'[r]
      PROVE  DayOf[at[q]] # today[r]
  <2>1. SUFFICES ASSUME q \in SameTypeToday(r)
                 PROVE  FALSE
    BY <1>4 DEF SameTypeToday, PunchesToday, SameKind
  <2>2. found'[r] \in SameTypeToday(r)
    BY <1>2, <2>1
  <2>3. found'[r] \in rows /\ SameKind(q, found'[r]) /\ DayOf[at[q]] = DayOf[at[found'[r]]]
    BY <2>1, <2>2 DEF SameTypeToday, PunchesToday, SameKind
  <2> QED
    BY <1>4, <2>3 DEF DuplicateNeedsRace, SameKind, Raced
<1> QED
  BY <1>1, <1>3, <1>4, InsideKeepsIInv DEF Writing

LEMMA PutStep ==
    ASSUME TypeOK, IInv, NEW r \in Requests, Put(r)
    PROVE  IInv'
<1>1. Inside(r) /\ pc[r] = "put" /\ found' = found /\ stamp'[r] = now
      /\ pc'[r] = IF found[r] = NoRow THEN "insert" ELSE "load"
  BY DEF Put, Inside, Window, Goto, database, TypeOK
<1>2. found[r] # NoRow =>
         /\ found[r] \in Requests /\ pc[found[r]] = "done"
         /\ SameKind(found[r], r) /\ type[r] = "OUT"
  BY <1>1 DEF IInv, HeldRows, TypeOK
<1>3. now <= now /\ today[r] <= DayOf[now]
  BY <1>1, TimeAssumption DEF IInv, Clocks, Window, TypeOK, Time
<1>4. \A q \in rows : SameKind(r, q) /\ ~Raced(r) /\ q # found[r] => DayOf[at[q]] # today[r]
  BY <1>1 DEF IInv, CheckStillHolds, Window
<1> QED
  BY <1>1, <1>2, <1>3, <1>4, InsideKeepsIInv

LEMMA LoadStep ==
    ASSUME TypeOK, IInv, NEW r \in Requests, Load(r)
    PROVE  IInv'
<1>1. Inside(r) /\ pc[r] = "load" /\ found' = found /\ stamp' = stamp
      /\ pc'[r] \in {"update", "reinsert"}
  BY DEF Load, Inside, Window, Goto, database, TypeOK
<1>2. /\ found[r] \in Requests /\ pc[found[r]] = "done"
      /\ SameKind(found[r], r) /\ type[r] = "OUT"
  BY <1>1 DEF IInv, HeldRows, TypeOK
<1>3. stamp[r] <= now /\ today[r] <= DayOf[stamp[r]]
  BY <1>1 DEF IInv, Clocks, Writing
<1>4. \A q \in rows : SameKind(r, q) /\ ~Raced(r) /\ q # found[r] => DayOf[at[q]] # today[r]
  BY <1>1 DEF IInv, CheckStillHolds, Window
<1> QED
  BY <1>1, <1>2, <1>3, <1>4, InsideKeepsIInv

LEMMA GateStep ==
    ASSUME TypeOK, IInv, NEW r \in Requests, Gate(r)
    PROVE  IInv'
<1> USE DEF IInv, Window
<1>1. /\ rows' = rows /\ at' = at /\ now' = now /\ staff' = staff /\ found' = found
      /\ emp' = emp /\ type' = type /\ stamp' = stamp
      /\ pc[r] = "gate" /\ pc'[r] = "check" /\ today'[r] = DayOf[now]
      /\ \A s \in Requests \ {r} : pc'[s] = pc[s] /\ today'[s] = today[s]
  BY DEF Gate, Goto, database, TypeOK
<1>2. /\ \A s \in Requests : Raced(s) => Raced(s)'
      /\ \A s \in Requests \ {r} : pc[s] \in Window /\ SameKind(s, r) => Raced(r)'
  BY DEF Gate, database, Raced, SameKind, TypeOK
<1>3. HeldRows'
  BY <1>1 DEF HeldRows, SameKind, TypeOK
<1>4. Clocks'
  <2>1. DayOf[now] \in Nat
    BY DayAssumption DEF TypeOK
  <2> QED
    BY <1>1, <2>1 DEF Clocks, Writing
<1>5. OverlapIsRaced'
  <2> SUFFICES ASSUME NEW s \in Requests, NEW t \in Requests, s # t,
                      pc'[s] \in Window, pc'[t] \in Window, SameKind(s, t)
               PROVE  Raced(s)'
    BY <1>1 DEF OverlapIsRaced, SameKind
  <2>1. CASE s # r /\ t # r
    BY <1>1, <1>2, <2>1 DEF OverlapIsRaced
  <2>2. CASE s = r
    BY <1>1, <1>2, <2>2 DEF SameKind
  <2>3. CASE t = r
    <3>1. Raced(r)'
      BY <1>1, <1>2, <2>3
    <3> QED
      BY <1>1, <2>3, <3>1 DEF SameKind, Raced
  <2> QED
    BY <2>1, <2>2, <2>3
<1>6. CheckStillHolds'
  <2> SUFFICES ASSUME NEW s \in Requests, NEW q \in rows, SameKind(s, q), ~Raced(s)
               PROVE  /\ pc'[s] \in Window => DayOf[at[q]] <= today'[s]
                      /\ pc'[s] \in Window \ {"check"} /\ q # found[s]
                            => DayOf[at[q]] # today'[s]
    BY <1>1, <1>2 DEF CheckStillHolds, SameKind
  <2>1. CASE s = r
    <3>1. at[q] \in Time /\ now \in Time /\ at[q] <= now
      BY DEF Clocks, TypeOK
    <3>2. DayOf[at[q]] <= DayOf[now]
      BY <3>1, DayAssumption
    <3> QED
      BY <1>1, <2>1, <3>2
  <2>2. CASE s # r
    BY <1>1, <2>2 DEF CheckStillHolds
  <2> QED
    BY <2>1, <2>2
<1>7. DuplicateNeedsRace'
  <2> SUFFICES ASSUME NEW p \in rows, NEW q \in rows, p # q, SameKind(p, q),
                      DayOf[at[p]] = DayOf[at[q]]
               PROVE  Raced(p)'
    BY <1>1 DEF DuplicateNeedsRace, SameKind, Raced
  <2>1. p \in Requests /\ Raced(p)
    BY DEF DuplicateNeedsRace, SameKind, Raced, TypeOK
  <2> QED
    BY <1>2, <2>1
<1>8. RowsHaveEmployees'
  BY <1>1 DEF RowsHaveEmployees
<1> QED
  BY <1>3, <1>4, <1>5, <1>6, <1>7, <1>8

-----------------------------------------------------------------------------
(* The three writes: request r gives row x the time stamp[r]. *)

Writes(r, x) ==
    /\ now' = now /\ staff' = staff /\ raced' = raced /\ found' = found
    /\ emp' = emp /\ type' = type /\ stamp' = stamp /\ today' = today
    /\ \A s \in Requests \ {r} : pc'[s] = pc[s]
    /\ pc[r] \in Writing /\ pc'[r] = "done"
    /\ rows' \subseteq rows \cup {x}
    /\ at'[x] = stamp[r]
    /\ \A q \in Requests \ {x} : at'[q] = at[q]
    /\ x \in rows => x \in rows'

LEMMA WriteKeepsIInv ==
    ASSUME TypeOK, IInv, NEW r \in Requests, NEW x \in Requests, Writes(r, x),
           SameKind(x, r), pc'[x] = "done",
           x \in rows' => emp[x] \in staff,
           \A q \in rows : q # x => q # found[r]
    PROVE  IInv'
<1> USE DEF IInv, Writes, Window, Writing
<1>1. rows' \subseteq Requests /\ stamp[r] <= now /\ today[r] <= DayOf[stamp[r]]
  BY DEF Clocks, TypeOK
<1>2. ASSUME NEW q \in rows, q # x, SameKind(r, q), ~Raced(r)
      PROVE  DayOf[at[q]] # DayOf[stamp[r]]
  <2>1. DayOf[at[q]] <= today[r] /\ DayOf[at[q]] # today[r]
    BY <1>2 DEF CheckStillHolds
  <2>2. DayOf[at[q]] \in Nat /\ DayOf[stamp[r]] \in Nat /\ today[r] \in Nat
    BY DayAssumption DEF TypeOK
  <2> QED
    BY <1>1, <2>1, <2>2
<1>3. HeldRows'
  BY DEF HeldRows, SameKind, TypeOK
<1>4. Clocks'
  BY <1>1 DEF Clocks
<1>5. OverlapIsRaced'
  BY DEF OverlapIsRaced, SameKind, Raced
<1>6. CheckStillHolds'
  <2> SUFFICES ASSUME NEW s \in Requests, NEW q \in rows', SameKind(s, q), ~Raced(s),
                      pc'[s] \in Window
               PROVE  /\ DayOf[at'[q]] <= today[s]
                      /\ pc'[s] # "check" /\ q # found[s] => DayOf[at'[q]] # today[s]
    BY DEF CheckStillHolds, SameKind, Raced
  <2>1. s # r /\ pc[s] \in Window
    OBVIOUS
  <2>2. q # x
    <3>1. SUFFICES ASSUME q = x
                   PROVE  SameKind(s, r)
      BY <2>1 DEF OverlapIsRaced
    <3> QED
      BY <3>1 DEF SameKind
  <2>3. q \in rows /\ at'[q] = at[q]
    BY <1>1, <2>2
  <2> QED
    BY <2>1, <2>3 DEF CheckStillHolds
<1>7. DuplicateNeedsRace'
  <2> SUFFICES ASSUME NEW p \in rows', NEW q \in rows', p # q, SameKind(p, q),
                      DayOf[at'[p]] = DayOf[at'[q]]
               PROVE  Raced(p)
    BY DEF DuplicateNeedsRace, SameKind, Raced
  <2>1. CASE p # x /\ q # x
    BY <1>1, <2>1 DEF DuplicateNeedsRace, SameKind, Raced
  <2>2. CASE p = x
    <3>1. q \in rows /\ at'[q] = at[q] /\ SameKind(r, q)
      BY <1>1, <2>2 DEF SameKind
    <3> QED
      BY <1>2, <2>2, <3>1 DEF SameKind, Raced
  <2>3. CASE q = x
    <3>1. p \in rows /\ at'[p] = at[p] /\ SameKind(r, p)
      BY <1>1, <2>3 DEF SameKind
    <3> QED
      BY <1>2, <2>3, <3>1 DEF SameKind, Raced
  <2> QED
    BY <2>1, <2>2, <2>3
<1>8. RowsHaveEmployees'
  BY <1>1 DEF RowsHaveEmployees
<1> QED
  BY <1>3, <1>4, <1>5, <1>6, <1>7, <1>8

LEMMA InsertStep ==
    ASSUME TypeOK, IInv, NEW r \in Requests, Insert(r)
    PROVE  IInv'
<1>1. Writes(r, r) /\ pc'[r] = "done" /\ emp[r] \in staff
  BY DEF Insert, Writes, Writing, Goto, TypeOK
<1>2. \A q \in rows : q # found[r]
  BY NoRowAssumption DEF Insert, IInv, HeldRows, TypeOK
<1> QED
  BY <1>1, <1>2, WriteKeepsIInv DEF SameKind

LEMMA ReplaceStep ==
    ASSUME TypeOK, IInv, NEW r \in Requests, Update(r) \/ Reinsert(r)
    PROVE  IInv'
<1>1. found[r] \in Requests /\ SameKind(found[r], r) /\ pc[found[r]] = "done"
  BY DEF Update, Reinsert, IInv, HeldRows, TypeOK
<1>2. pc'[found[r]] = "done"
  BY <1>1 DEF Update, Reinsert, Goto, TypeOK
<1>3. CASE Update(r) /\ found[r] \notin rows
  <2>1. Quiet(r)
    BY <1>3 DEF Update, Quiet, Goto, Window, IInv, HeldRows, TypeOK
  <2> QED
    BY <2>1, QuietKeepsIInv
<1>4. CASE Update(r) /\ found[r] \in rows
  <2>1. Writes(r, found[r])
    BY <1>1, <1>4 DEF Update, Writes, Writing, Goto, TypeOK
  <2>2. emp[found[r]] \in staff
    BY <1>4 DEF IInv, RowsHaveEmployees
  <2> QED
    BY <1>1, <1>2, <2>1, <2>2, WriteKeepsIInv
<1>5. CASE Reinsert(r)
  <2>1. Writes(r, found[r]) /\ emp[r] \in staff
    BY <1>1, <1>5 DEF Reinsert, Writes, Writing, Goto, TypeOK
  <2> QED
    BY <1>1, <1>2, <2>1, WriteKeepsIInv DEF SameKind
<1> QED
  BY <1>3, <1>4, <1>5

-----------------------------------------------------------------------------
(* The other actors, and the theorems. *)

LEMMA RemovalStep ==
    ASSUME TypeOK, IInv, NEW e \in Employees, Removal(e)
    PROVE  IInv'
<1> USE DEF IInv
<1>1. /\ rows' \subseteq rows /\ at' = at /\ now' = now /\ request' = request
      /\ raced' = raced
  BY DEF Removal, StartRemove, DeleteLogs, RemoveEmployee
<1>2. /\ emp' = emp /\ type' = type /\ pc' = pc /\ today' = today
      /\ found' = found /\ stamp' = stamp
  BY <1>1 DEF request
<1>3. HeldRows' /\ Clocks' /\ OverlapIsRaced'
  BY <1>1, <1>2 DEF HeldRows, SameKind, Clocks, OverlapIsRaced, Raced
<1>4. CheckStillHolds' /\ DuplicateNeedsRace'
  BY <1>1, <1>2 DEF CheckStillHolds, DuplicateNeedsRace, SameKind, Raced
<1>5. RowsHaveEmployees'
  BY <1>1, <1>2
     DEF Removal, StartRemove, DeleteLogs, RemoveEmployee, RowsHaveEmployees
<1> QED
  BY <1>3, <1>4, <1>5

LEMMA TickStep ==
    ASSUME TypeOK, IInv, Tick
    PROVE  IInv'
<1> USE DEF IInv
<1>1. /\ rows' = rows /\ at' = at /\ staff' = staff /\ raced' = raced /\ emp' = emp
      /\ type' = type /\ pc' = pc /\ today' = today /\ found' = found /\ stamp' = stamp
  BY DEF Tick, database, request
<1>2. now \in Time /\ now' \in Time /\ now <= now'
  BY TimeAssumption DEF Tick, Time, TypeOK
<1>3. DayOf[now] <= DayOf[now'] /\ DayOf[now] \in Nat /\ DayOf[now'] \in Nat
  BY <1>2, DayAssumption
<1>4. Clocks'
  BY <1>1, <1>2, <1>3 DEF Clocks, Time, TypeOK
<1>5. HeldRows' /\ OverlapIsRaced' /\ CheckStillHolds' /\ DuplicateNeedsRace'
      /\ RowsHaveEmployees'
  BY <1>1 DEF HeldRows, SameKind, OverlapIsRaced, CheckStillHolds, Raced,
     DuplicateNeedsRace, RowsHaveEmployees
<1> QED
  BY <1>4, <1>5

LEMMA StutterStep ==
    ASSUME IInv, UNCHANGED vars
    PROVE  IInv'
<1> USE DEF IInv
<1>1. /\ now' = now /\ rows' = rows /\ at' = at /\ staff' = staff
      /\ raced' = raced /\ emp' = emp /\ type' = type /\ pc' = pc
      /\ today' = today /\ found' = found /\ stamp' = stamp
  BY DEF vars, request
<1>2. HeldRows' /\ Clocks' /\ OverlapIsRaced'
  BY <1>1 DEF HeldRows, SameKind, Clocks, OverlapIsRaced, Raced
<1>3. CheckStillHolds' /\ DuplicateNeedsRace' /\ RowsHaveEmployees'
  BY <1>1 DEF CheckStillHolds, SameKind, Raced, DuplicateNeedsRace, RowsHaveEmployees
<1> QED
  BY <1>2, <1>3

LEMMA Inductive == Spec => [](TypeOK /\ IInv)
<1>1. Init => TypeOK /\ IInv
  <2> SUFFICES ASSUME Init
               PROVE  TypeOK /\ IInv
    OBVIOUS
  <2>1. TypeOK
    BY TimeAssumption, DayAssumption, NoRowAssumption DEF Init, TypeOK, Time, Types, Steps
  <2>2. IInv
    BY DEF Init, IInv, HeldRows, Clocks, OverlapIsRaced, CheckStillHolds,
       DuplicateNeedsRace, RowsHaveEmployees, Window, Writing
  <2> QED
    BY <2>1, <2>2
<1>2. TypeOK /\ IInv /\ [Next]_vars => (TypeOK /\ IInv)'
  <2> SUFFICES ASSUME TypeOK, IInv, [Next]_vars
               PROVE  TypeOK' /\ IInv'
    OBVIOUS
  <2>1. TypeOK'
    BY TypeStep DEF IInv
  <2>2. ASSUME NEW r \in Requests, Handler(r)
        PROVE  IInv'
    BY <2>2, QuietActions, GateStep, CheckStep, PutStep, InsertStep, LoadStep,
       ReplaceStep DEF Handler
  <2>3. IInv'
    BY <2>2, StutterStep, RemovalStep, TickStep DEF Next
  <2> QED
    BY <2>1, <2>3
<1> QED
  BY <1>1, <1>2, PTL DEF Spec

\* Every reachable state is well typed; in particular a handler that re-inserts
\* a clock-out always names a row that some request had inserted.
THEOREM TypeCorrect == Spec => []TypeOK
BY Inductive, PTL

\* For any number of concurrent requests and removals, two rows of one employee,
\* type and day need two overlapping check-and-write windows of that kind.
THEOREM DuplicateNeedsRaceCorrect == Spec => []DuplicateNeedsRace
<1>1. IInv => DuplicateNeedsRace
  BY DEF IInv
<1> QED
  BY <1>1, Inductive, PTL

\* No interleaving of handlers with the three statements of a removal leaves a
\* row of an employee that is gone.
THEOREM RowsHaveEmployeesCorrect == Spec => []RowsHaveEmployees
<1>1. IInv => RowsHaveEmployees
  BY DEF IInv
<1> QED
  BY <1>1, Inductive, PTL

\* A clock-in stays as it was recorded: only the request that inserts a row and
\* those that hold a clock-out write to the table.
THEOREM ClockInFrozenCorrect == Spec => ClockInFrozen
<1>1. ASSUME TypeOK, IInv, [Next]_vars, NEW r \in Requests, type[r] = "IN", pc[r] = "done"
      PROVE  /\ r \in rows' => r \in rows
             /\ r \in rows => at'[r] = at[r]
  <2>1. ASSUME NEW s \in Requests, Insert(s)
        PROVE  s # r
    BY <1>1, <2>1 DEF Insert
  <2>2. ASSUME NEW s \in Requests, Update(s) \/ Reinsert(s)
        PROVE  found[s] # r
    BY <1>1, <2>2 DEF Update, Reinsert, IInv, HeldRows, SameKind, TypeOK
  <2>3. ASSUME NEW s \in Requests, Handler(s)
        PROVE  /\ r \in rows' => r \in rows
               /\ at'[r] = at[r]
    <3>1. CASE Insert(s)
      <4>1. s # r
        BY <2>1, <3>1
      <4> QED
        BY <3>1, <4>1 DEF Insert, TypeOK
    <3>2. CASE Update(s)
      BY <2>2, <3>2 DEF Update, TypeOK
    <3>3. CASE Reinsert(s)
      <4>1. found[s] # r
        BY <2>2, <3>3
      <4> QED
        BY <3>3, <4>1 DEF Reinsert, TypeOK
    <3>4. CASE UNCHANGED database
      BY <3>4 DEF database
    <3> QED
      BY <2>3, <3>1, <3>2, <3>3, <3>4
      DEF Handler, Begin, Lookup, Decide, GetEmployee, Gate, CheckIn, CheckOut, Put, Load, Fail
  <2>4. ASSUME NEW e \in Employees, Removal(e)
        PROVE  rows' \subseteq rows /\ at' = at
    BY <2>4 DEF Removal, StartRemove, DeleteLogs, RemoveEmployee
  <2>5. CASE Tick \/ UNCHANGED vars
    BY <2>5 DEF Tick, vars, database
  <2> QED
    BY <1>1, <2>3, <2>4, <2>5 DEF Next
<1>2. TypeOK /\ IInv /\ [Next]_vars =>
        [\A r \in Requests : type[r] = "IN" /\ pc[r] = "done" =>
             /\ r \in rows' => r \in rows
             /\ r \in rows => at'[r] = at[r]]_vars
  BY <1>1
<1> QED
  BY <1>2, Inductive, PTL DEF Spec, ClockInFrozen

-----------------------------------------------------------------------------
(* The handlers implement PunchBook. *)

\* Without a race what a handler is about to write is not older than what is
\* on record.
StampsLater ==
    \A r \in Requests, q \in rows :
        SameKind(r, q) /\ ~Raced(r) /\ pc[r] \in Writing => at[q] <= stamp[r]

\* A step of s writes no row, and leaves other requests as they are.
Leaves(s) ==
    /\ rows' \subseteq rows /\ at' = at /\ emp' = emp
    /\ \A r \in Requests \ {s} : /\ Raced(r) => Raced(r)'
                               /\ pc'[r] = pc[r] /\ stamp'[r] = stamp[r] /\ type'[r] = type[r]
    /\ pc[s] # "done"
    /\ pc'[s] \in Writing =>
          /\ type'[s] = type[s] /\ (Raced(s) => Raced(s)')
          /\ stamp'[s] = now \/ (pc[s] \in Writing /\ stamp'[s] = stamp[s])

LEMMA LeavesKeepsLater ==
    ASSUME TypeOK, IInv, StampsLater, NEW s \in Requests, Leaves(s)
    PROVE  StampsLater'
<1> SUFFICES ASSUME NEW r \in Requests, NEW q \in rows', SameKind(r, q)', ~Raced(r)', pc'[r] \in Writing
             PROVE  at'[q] <= stamp'[r]
  BY DEF StampsLater
<1>1. q \in rows /\ at'[q] = at[q] /\ at[q] <= now /\ pc[q] = "done"
  BY DEF Leaves, IInv, Clocks, HeldRows
<1>2. q \in Requests /\ q # s /\ type'[q] = type[q]
  BY <1>1 DEF Leaves, TypeOK
<1>3. CASE r = s
  <2>1. SameKind(s, q) /\ ~Raced(s)
    BY <1>2, <1>3 DEF Leaves, SameKind
  <2> QED
    BY <1>1, <1>3, <2>1 DEF Leaves, StampsLater
<1>4. CASE r # s
  <2>1. SameKind(r, q) /\ ~Raced(r) /\ pc[r] \in Writing /\ stamp'[r] = stamp[r]
    BY <1>2, <1>4 DEF Leaves, SameKind
  <2> QED
    BY <1>1, <2>1 DEF StampsLater
<1> QED
  BY <1>3, <1>4

LEMMA WriteKeepsLater ==
    ASSUME TypeOK, IInv, StampsLater, NEW s \in Requests, NEW x \in Requests,
           Writes(s, x), SameKind(x, s)
    PROVE  StampsLater'
<1> SUFFICES ASSUME NEW r \in Requests, NEW q \in rows', SameKind(r, q), ~Raced(r), pc'[r] \in Writing
             PROVE  at'[q] <= stamp[r]
  BY DEF StampsLater, SameKind, Raced, Writes
<1>1. r # s /\ pc[r] \in Writing /\ pc[s] \in Writing
  BY DEF Writes, Writing
<1>2. q # x
  <2>1. SUFFICES ASSUME q = x
                 PROVE  SameKind(r, s)
    BY <1>1 DEF IInv, OverlapIsRaced, Window, Writing
  <2> QED
    BY <2>1 DEF SameKind
<1>3. q \in rows /\ at'[q] = at[q]
  BY <1>2 DEF Writes, TypeOK
<1> QED
  BY <1>1, <1>3 DEF StampsLater

LEMMA LaterStep ==
    ASSUME TypeOK, IInv, StampsLater, [Next]_vars
    PROVE  StampsLater'
<1>1. ASSUME NEW s \in Requests, Handler(s)
      PROVE  StampsLater'
  <2> USE DEF Goto, database, Leaves, Raced, Writing, TypeOK
  <2>1. CASE Begin(s) \/ Lookup(s) \/ GetEmployee(s)
    BY <2>1, LeavesKeepsLater DEF Begin, Lookup, GetEmployee
  <2>2. CASE Decide(s)
    BY <2>2, LeavesKeepsLater DEF Decide
  <2>3. CASE Gate(s)
    BY <2>3, LeavesKeepsLater DEF Gate
  <2>4. CASE CheckIn(s) \/ CheckOut(s)
    BY <2>4, LeavesKeepsLater DEF CheckIn, CheckOut
  <2>5. CASE Put(s)
    BY <2>5, LeavesKeepsLater DEF Put
  <2>6. CASE Load(s)
    BY <2>6, LeavesKeepsLater DEF Load
  <2>7. CASE Fail(s)
    BY <2>7, LeavesKeepsLater DEF Fail, InFlight
  <2>8. CASE Update(s) /\ found[s] \notin rows
    BY <2>8, LeavesKeepsLater DEF Update
  <2> HIDE DEF Leaves, Raced
  <2>9. CASE Insert(s)
    <3>1. Writes(s, s)
      BY <2>9 DEF Insert, Writes
    <3> QED
      BY <3>1, WriteKeepsLater DEF SameKind
  <2>10. CASE (Update(s) /\ found[s] \in rows) \/ Reinsert(s)
    <3>1. found[s] \in Requests /\ SameKind(found[s], s)
      BY <2>10 DEF Update, Reinsert, IInv, HeldRows
    <3>2. Writes(s, found[s])
      BY <2>10, <3>1 DEF Update, Reinsert, Writes
    <3> QED
      BY <3>1, <3>2, WriteKeepsLater
  <2> QED
    BY <1>1, <2>1, <2>2, <2>3, <2>4, <2>5, <2>6, <2>7, <2>8, <2>9, <2>10 DEF Handler
<1>2. ASSUME rows' \subseteq rows, UNCHANGED <<at, emp, type, raced, pc, stamp>>
      PROVE  StampsLater'
  BY <1>2 DEF StampsLater, SameKind, Raced
<1>3. ASSUME NEW e \in Employees, Removal(e)
      PROVE  StampsLater'
  BY <1>2, <1>3 DEF Removal, StartRemove, DeleteLogs, RemoveEmployee, request
<1>4. CASE Tick \/ UNCHANGED vars
  BY <1>2, <1>4 DEF Tick, vars, database, request
<1> QED
  BY <1>1, <1>3, <1>4 DEF Next

\* What is written to another row than a handler holds is not of its kind and day.
LEMMA DayIsFree ==
    ASSUME TypeOK, IInv, NEW r \in Requests, pc[r] \in Writing, ~Raced(r),
           NEW q \in rows, q # found[r], SameKind(r, q)
    PROVE  DayOf[at[q]] # DayOf[stamp[r]]
<1> USE DEF IInv, Window, Writing
<1>1. DayOf[at[q]] <= today[r] /\ DayOf[at[q]] # today[r] /\ today[r] <= DayOf[stamp[r]]
  BY DEF CheckStillHolds, Clocks
<1>2. DayOf[at[q]] \in Nat /\ DayOf[stamp[r]] \in Nat /\ today[r] \in Nat
  BY DayAssumption DEF TypeOK
<1> QED
  BY <1>1, <1>2

\* The book after a step that writes no row but x.
LEMMA RecordedAfter ==
    ASSUME TypeOK, TypeOK', emp' = emp, type' = type, NEW x \in Requests,
           \A q \in Requests \ {x} : at'[q] = at[q]
    PROVE  /\ rows' = rows \cup {x} /\ x \notin rows => Recorded' = Recorded \cup {Punch(x)'}
           /\ rows' = rows /\ x \in rows => Recorded' = (Recorded \ {Punch(x)}) \cup {Punch(x)'}
<1>1. \A q \in Requests \ {x} : Punch(q)' = Punch(q)
  BY DEF Punch
<1>2. rows \subseteq Requests /\ rows' \subseteq Requests
  BY DEF TypeOK
<1>3. \A q \in Requests \ {x} : Punch(q) # Punch(x)
  BY DEF Punch
<1> HIDE DEF Punch
<1>4. ASSUME rows' = rows \cup {x}, x \notin rows
      PROVE  Recorded' = Recorded \cup {Punch(x)'}
  BY <1>1, <1>2, <1>4 DEF Recorded
<1>5. ASSUME rows' = rows, x \in rows
      PROVE  Recorded' = (Recorded \ {Punch(x)}) \cup {Punch(x)'}
  BY <1>1, <1>2, <1>3, <1>5 DEF Recorded
<1> QED
  BY <1>4, <1>5

LEMMA RecordStep ==
    ASSUME TypeOK, TypeOK', IInv, NEW r \in Requests, NEW x \in Requests,
           Writes(r, x), SameKind(x, r), x \notin rows, rows' = rows \cup {x},
           \A q \in rows : q # found[r]
    PROVE  Book!Next
<1> DEFINE t == stamp[r]
<1>1. emp' = emp /\ type' = type /\ raced' = raced /\ pc[r] \in Writing
      /\ at'[x] = t /\ \A q \in Requests \ {x} : at'[q] = at[q]
  BY DEF Writes
<1>2. Punch(x)' = [id |-> x, emp |-> emp[r], type |-> type[r], time |-> t]
  BY <1>1 DEF Punch, SameKind
<1>3. Recorded' = Recorded \cup {[id |-> x, emp |-> emp[r], type |-> type[r], time |-> t]}
  BY <1>1, <1>2, RecordedAfter
<1>4. \A p \in Recorded : p.id # x
  BY DEF Recorded, Punch
<1>5. Recorded' # Recorded
  <2>1. Punch(x)'.id = x /\ Punch(x)' \in Recorded'
    BY <1>2, <1>3
  <2> QED
    BY <1>4, <2>1
<1>6. ASSUME ~Raced(r), NEW p \in Recorded
      PROVE  ~(p.emp = emp[r] /\ p.type = type[r] /\ DayOf[p.time] = DayOf[t])
  <2>1. PICK q \in rows : p = Punch(q)
    BY DEF Recorded
  <2>2. p.emp = emp[q] /\ p.type = type[q] /\ p.time = at[q]
    BY <2>1 DEF Punch
  <2> QED
    BY <1>1, <1>6, <2>2, DayIsFree DEF SameKind
<1>7. Book!PunchOn(emp[r], type[r], DayOf[t]) = {} \/ type[r] \in raced[emp[r]]
  BY <1>6 DEF Book!PunchOn, Raced
<1>8. Book!Record(x, emp[r], type[r], t)
  BY <1>1, <1>3, <1>4, <1>7 DEF Book!Record
<1>9. emp[r] \in Employees /\ type[r] \in Book!Types /\ t \in Book!Time
  BY DEF TypeOK, Types, Time, Book!Types, Book!Time
<1> QED
  BY <1>5, <1>8, <1>9 DEF Book!Next

LEMMA MoveStep ==
    ASSUME TypeOK, TypeOK', IInv, StampsLater, NEW r \in Requests, NEW x \in rows,
           Writes(r, x), SameKind(x, r), x = found[r], type[r] = "OUT", rows' = rows
    PROVE  [Book!Next]_<<Recorded, raced>>
<1> SUFFICES ASSUME Recorded' # Recorded
             PROVE  Book!Next
  BY DEF Writes
<1> DEFINE t == stamp[r]
           p == Punch(x)
<1>1. x \in Requests
  BY DEF TypeOK
<1>2. emp' = emp /\ type' = type /\ raced' = raced /\ pc[r] \in Writing
      /\ at'[x] = t /\ \A q \in Requests \ {x} : at'[q] = at[q]
  BY DEF Writes
<1>3. /\ p \in Recorded /\ p.id = x /\ p.emp = emp[r] /\ p.type = "OUT" /\ p.time = at[x]
      /\ Punch(x)' = [p EXCEPT !.time = t]
  BY <1>2 DEF Punch, Recorded, SameKind
<1>4. Recorded' = (Recorded \ {p}) \cup {[p EXCEPT !.time = t]}
  BY <1>1, <1>2, <1>3, RecordedAfter
<1>5. ASSUME ~Raced(r)
      PROVE  t >= p.time /\ Book!PunchOn(p.emp, "OUT", DayOf[t]) \subseteq {p}
  <2>1. at[x] <= t /\ at[x] \in Nat /\ t \in Nat
    BY <1>1, <1>2, <1>5, TimeAssumption DEF StampsLater, SameKind, TypeOK, Time
  <2>2. ASSUME NEW o \in Recorded, o.emp = emp[r], o.type = "OUT", DayOf[o.time] = DayOf[t]
        PROVE  o = p
    <3>1. PICK q \in rows : o = Punch(q)
      BY DEF Recorded
    <3>2. o.emp = emp[q] /\ o.type = type[q] /\ o.time = at[q]
      BY <3>1 DEF Punch
    <3>3. q = found[r]
      BY <1>2, <1>5, <2>2, <3>2, DayIsFree, ZenonT(30) DEF SameKind
    <3> QED
      BY <3>1, <3>3
  <2> HIDE DEF p, t
  <2> QED
    BY <1>3, <2>1, <2>2 DEF Book!PunchOn
<1>6. Book!MoveOut(p, t)
  <2> HIDE DEF p, t
  <2> QED
    BY <1>2, <1>3, <1>4, <1>5 DEF Book!MoveOut, Raced
<1>7. t \in Book!Time
  BY DEF TypeOK, Time, Book!Time
<1> QED
  BY <1>3, <1>6, <1>7 DEF Book!Next

LEMMA ForgetStep ==
    ASSUME TypeOK, NEW e \in Employees, DeleteLogs(e)
    PROVE  [Book!Next]_<<Recorded, raced>>
<1>1. /\ rows' = {r \in rows : emp[r] # e} /\ raced' = raced
      /\ emp' = emp /\ type' = type /\ at' = at
  BY DEF DeleteLogs, request
<1>2. \A r \in rows : Punch(r)' = Punch(r) /\ Punch(r).emp = emp[r]
  BY <1>1 DEF Punch
<1>3. Recorded' = {p \in Recorded : p.emp # e}
  BY <1>1, <1>2 DEF Recorded
<1>4. Book!Forget(e)
  BY <1>1, <1>3 DEF Book!Forget
<1> QED
  BY <1>1, <1>4 DEF Book!Next

\* The book is as it was: the step is an Overlap or a stutter.
LEMMA SameBook ==
    ASSUME rows' = rows, at' = at, emp' = emp, \A q \in rows : type'[q] = type[q]
    PROVE  Recorded' = Recorded
BY DEF Recorded, Punch

\* Every step of a handler or a removal is a step of the book or a stutter.
LEMMA BookStep ==
    ASSUME TypeOK, TypeOK', IInv, StampsLater, [Next]_vars
    PROVE  [Book!Next]_<<Recorded, raced>>
<1>1. ASSUME NEW r \in Requests, Handler(r)
      PROVE  [Book!Next]_<<Recorded, raced>>
  <2>1. CASE Gate(r)
    <3>1. Recorded' = Recorded
      BY <2>1, SameBook DEF Gate, database
    <3>2. raced' = raced \/ raced' = [raced EXCEPT ![emp[r]] = @ \cup {type[r]}]
      BY <2>1 DEF Gate
    <3>3. emp[r] \in Employees /\ type[r] \in Book!Types
      BY DEF TypeOK, Types, Book!Types
    <3> QED
      BY <3>1, <3>2, <3>3 DEF Book!Next, Book!Overlap
  <2>2. CASE Decide(r)
    <3>1. \A q \in rows : type'[q] = type[q]
      BY <2>2 DEF Decide, IInv, HeldRows, TypeOK
    <3> QED
      BY <2>2, <3>1, SameBook DEF Decide, database
  <2>3. CASE Insert(r)
    <3>1. Writes(r, r) /\ rows' = rows \cup {r}
      BY <2>3 DEF Insert, Writes, Writing, Goto, TypeOK
    <3>2. r \notin rows /\ \A q \in rows : q # found[r]
      BY <2>3, NoRowAssumption DEF Insert, IInv, HeldRows, TypeOK
    <3> QED
      BY <3>1, <3>2, RecordStep DEF SameKind
  <2>4. CASE Reinsert(r)
    <3>1. found[r] \in Requests /\ SameKind(found[r], r)
      BY <2>4 DEF Reinsert, IInv, HeldRows, TypeOK
    <3>2. Writes(r, found[r]) /\ rows' = rows \cup {found[r]} /\ found[r] \notin rows
      BY <2>4, <3>1 DEF Reinsert, Writes, Writing, Goto, TypeOK
    <3> QED
      BY <3>1, <3>2, RecordStep
  <2>5. CASE Update(r) /\ found[r] \in rows
    <3>1. SameKind(found[r], r) /\ type[r] = "OUT"
      BY <2>5 DEF Update, IInv, HeldRows
    <3>2. Writes(r, found[r]) /\ rows' = rows
      BY <2>5 DEF Update, Writes, Writing, Goto, TypeOK
    <3> QED
      BY <2>5, <3>1, <3>2, MoveStep
  <2>6. CASE UNCHANGED <<database, emp, type, raced>> \/ (Update(r) /\ found[r] \notin rows)
    BY <2>6, SameBook DEF Update, database
  <2> QED
    BY <1>1, <2>1, <2>2, <2>3, <2>4, <2>5, <2>6
    DEF Handler, Begin, Lookup, GetEmployee, CheckIn, CheckOut, Put, Load, Fail
<1>2. ASSUME NEW e \in Employees, Removal(e)
      PROVE  [Book!Next]_<<Recorded, raced>>
  <2>1. CASE StartRemove(e) \/ RemoveEmployee(e)
    BY <2>1, SameBook DEF StartRemove, RemoveEmployee, request
  <2> QED
    BY <1>2, <2>1, ForgetStep DEF Removal
<1>3. CASE Tick \/ UNCHANGED vars
  BY <1>3, SameBook DEF Tick, vars, database, request
<1> QED
  BY <1>1, <1>2, <1>3 DEF Next

\* For any number of employees, requests and instants the punch endpoints
\* implement the book: a request that overlaps no other of its kind records one
\* punch of a type and day, or moves its clock-out to a later time, at once
\* (AttendanceService.create, recordAutomatic, EmployeesService.remove).
THEOREM ImplementsPunchBookCorrect == Spec => ImplementsPunchBook
<1>1. Init => Book!Init /\ StampsLater
  BY DEF Init, Book!Init, Recorded, StampsLater
<1>2. TypeOK /\ IInv /\ StampsLater /\ [Next]_vars => StampsLater'
  BY LaterStep
<1>3. TypeOK /\ TypeOK' /\ IInv /\ StampsLater /\ [Next]_vars => [Book!Next]_<<Recorded, raced>>
  BY BookStep
<1> QED
  BY <1>1, <1>2, <1>3, Inductive, PTL DEF Spec, ImplementsPunchBook, Book!Spec
-----------------------------------------------------------------------------
(* Clock-outs that the kiosk chose.                                         *)

\* The clock-in that a clock-out of instant t needs.
ClockedIn(r, t) ==
    \E q \in rows : /\ emp[q] = emp[r] /\ type[q] = "IN"
                    /\ DayOf[at[q]] = decided[r]
                    /\ at[q] + Cooldown <= t

ChoseOut(r) == auto[r] /\ type[r] = "OUT" /\ emp[r] \notin cleared

\* It is there from the choice on, whoever holds the row or writes to it.
KioskInv ==
    \A r \in Requests : ChoseOut(r) =>
        /\ pc[r] \in {"employee", "gate", "check", "put"} => ClockedIn(r, now)
        /\ pc[r] \in Writing => ClockedIn(r, stamp[r])
        /\ r \in rows => ClockedIn(r, at[r])
        /\ \A s \in Requests : found[s] = r =>
              /\ pc[s] = "put" => ClockedIn(r, now)
              /\ pc[s] \in Writing => ClockedIn(r, stamp[s])

\* A nonempty set of instants has a first and a last one (the proof system has
\* no induction: well-foundedness of < is a theorem of the library).
Less == {p \in Nat \X Nat : p[1] < p[2]}

LEMMA FirstExists ==
    ASSUME NEW S \in SUBSET Nat, S # {}
    PROVE  \E x \in S : \A y \in S : x <= y
<1>1. OpToRel(<, Nat) = Less
  BY Zenon DEF OpToRel, Less
<1>2. IsWellFoundedOn(Less, Nat)
  BY <1>1, NatLessThanWellFounded, Zenon
<1>3. PICK x \in S : \A y \in S : ~(<<y, x>> \in Less)
  BY <1>2, WFMin
<1>4. \A y \in S : ~(y < x)
  <2> SUFFICES ASSUME NEW y \in S, y < x
               PROVE  FALSE
    OBVIOUS
  <2>1. <<y, x>> \in Less
    BY DEF Less
  <2> QED
    BY <1>3, <2>1
<1> QED
  BY <1>4

LEMMA LastExists ==
    ASSUME NEW S \in SUBSET Time, S # {}
    PROVE  \E x \in S : \A y \in S : y <= x
<1> DEFINE R == {MaxTime - y : y \in S}
<1>1. R \in SUBSET Nat /\ R # {}
  BY TimeAssumption DEF Time
<1>2. PICK m \in R : \A n \in R : m <= n
  BY <1>1, FirstExists
<1>3. PICK x \in S : m = MaxTime - x
  BY <1>2
<1>4. \A y \in S : y <= x
  <2> SUFFICES ASSUME NEW y \in S
               PROVE  y <= x
    OBVIOUS
  <2>1. MaxTime - x <= MaxTime - y
    BY <1>2, <1>3
  <2> QED
    BY <2>1, TimeAssumption DEF Time
<1> QED
  BY <1>4

\* Who is told to clock out has clocked in, and not within the cooldown.
LEMMA DecideFinds ==
    ASSUME TypeOK, IInv, NEW r \in Requests, Decide(r), HasPunch(r, "IN")
    PROVE  \E q \in rows : /\ emp[q] = emp[r] /\ type[q] = "IN"
                           /\ DayOf[at[q]] = today[r] /\ at[q] + Cooldown <= now
<1> DEFINE S == {at[q] : q \in PunchesToday(r)}
<1>1. PICK p \in PunchesToday(r) : type[p] = "IN"
  BY DEF HasPunch
<1>2. S \in SUBSET Time /\ S # {}
  BY <1>1 DEF PunchesToday, TypeOK
<1>3. PICK x \in S : \A y \in S : y <= x
  BY <1>2, LastExists
<1>4. PICK l \in PunchesToday(r) : at[l] = x
  BY <1>3
<1>5. \A q \in PunchesToday(r) : at[q] <= at[l]
  BY <1>3, <1>4
<1>6. at[l] <= now /\ now \in Nat /\ at[l] \in Nat /\ at[p] \in Nat
  BY <1>1 DEF IInv, Clocks, PunchesToday, TypeOK, Time
<1>7. ~(now - at[l] < Cooldown)
  BY <1>5, <1>6 DEF Decide, InCooldown
<1>8. at[p] + Cooldown <= now
  BY <1>1, <1>5, <1>6, <1>7, TimeAssumption
<1> QED
  BY <1>1, <1>8 DEF PunchesToday

\* What a step leaves as it is, next to the choice of the kiosk.
Steady ==
    /\ emp' = emp /\ auto' = auto /\ type' = type /\ decided' = decided
    /\ cleared \subseteq cleared' /\ now <= now'
    /\ \A q \in rows : type[q] = "IN" /\ emp[q] \notin cleared' => q \in rows' /\ at'[q] = at[q]

LEMMA SteadyKeeps ==
    ASSUME TypeOK, TypeOK', Steady, NEW r \in Requests, ChoseOut(r)',
           NEW t \in Time, NEW u \in Time, t <= u, ClockedIn(r, t)
    PROVE  ClockedIn(r, u)'
<1>1. PICK q \in rows : /\ emp[q] = emp[r] /\ type[q] = "IN"
                        /\ DayOf[at[q]] = decided[r]
                        /\ at[q] + Cooldown <= t
  BY DEF ClockedIn
<1>2. q \in rows' /\ at'[q] = at[q] /\ emp'[q] = emp'[r] /\ type'[q] = "IN"
      /\ decided'[r] = decided[r]
  BY <1>1 DEF Steady, ChoseOut
<1>3. at[q] \in Nat /\ at[q] + Cooldown <= u
  BY <1>1, TimeAssumption DEF TypeOK, Time
<1> QED
  BY <1>1, <1>2, <1>3 DEF ClockedIn

LEMMA HandlerSteady ==
    ASSUME TypeOK, IInv, NEW s \in Requests, Handler(s), ~Decide(s)
    PROVE  Steady
<1> USE TimeAssumption DEF Steady, TypeOK, Time
<1>1. CASE Insert(s)
  BY <1>1 DEF Insert, IInv, HeldRows
<1>2. CASE Update(s)
  BY <1>2 DEF Update, IInv, HeldRows, SameKind
<1>3. CASE Reinsert(s)
  BY <1>3 DEF Reinsert
<1>4. CASE Begin(s) \/ Lookup(s) \/ GetEmployee(s) \/ Gate(s) \/ CheckIn(s) \/ CheckOut(s)
              \/ Put(s) \/ Load(s) \/ Fail(s)
  BY <1>4 DEF Begin, Lookup, GetEmployee, Gate, CheckIn, CheckOut, Put, Load, Fail, database
<1> QED
  BY <1>1, <1>2, <1>3, <1>4 DEF Handler

\* The steps that write no row: at most the choice moves with its handler.
LEMMA MoveKeepsKiosk ==
    ASSUME TypeOK, TypeOK', IInv, KioskInv, Steady, rows' \subseteq rows, at' = at,
           NEW s \in Requests,
           \A r \in Requests \ {s} : /\ pc'[r] = pc[r] /\ found'[r] = found[r]
                                     /\ stamp'[r] = stamp[r],
           \/ UNCHANGED <<pc, found, stamp>>
           \/ pc'[s] \in {"lookup", "punches", "done"} /\ found' = found /\ stamp' = stamp
           \/ pc[s] = "idle" /\ ~auto[s] /\ pc'[s] = "employee"
                 /\ found' = found /\ stamp' = stamp
           \/ pc[s] \in {"employee", "gate"} /\ pc'[s] \in {"gate", "check"}
                 /\ found' = found /\ stamp' = stamp
           \/ pc[s] = "check" /\ pc'[s] = "put" /\ found'[s] \in rows \cup {NoRow}
                 /\ stamp' = stamp
           \/ pc[s] = "put" /\ pc'[s] \in Writing /\ found' = found /\ stamp'[s] = now
           \/ pc[s] = "load" /\ pc'[s] \in Writing /\ found' = found /\ stamp' = stamp
    PROVE  KioskInv'
<1> SUFFICES ASSUME NEW r \in Requests, ChoseOut(r)'
             PROVE  /\ pc'[r] \in {"employee", "gate", "check", "put"} => ClockedIn(r, now)'
                    /\ pc'[r] \in Writing => ClockedIn(r, stamp[r])'
                    /\ r \in rows' => ClockedIn(r, at[r])'
                    /\ \A q \in Requests : found'[q] = r =>
                          /\ pc'[q] = "put" => ClockedIn(r, now)'
                          /\ pc'[q] \in Writing => ClockedIn(r, stamp[q])'
  BY DEF KioskInv
<1> USE TimeAssumption
<1>1. ChoseOut(r) /\ now \in Time /\ now' \in Time /\ now <= now'
  BY DEF ChoseOut, Steady, TypeOK
<1>2. \A t \in Time : ClockedIn(r, t) => ClockedIn(r, t)'
  BY SteadyKeeps DEF Time
<1>3. ClockedIn(r, now) => ClockedIn(r, now)'
  BY <1>1, SteadyKeeps
<1>4. stamp \in [Requests -> Time] /\ stamp' \in [Requests -> Time] /\ at \in [Requests -> Time]
  BY DEF TypeOK
<1>5. r \in rows => ClockedIn(r, at[r]) /\ at[r] <= now
  BY <1>1 DEF KioskInv, IInv, Clocks
<1>6. r \in rows' => ClockedIn(r, at[r])'
  BY <1>2, <1>4, <1>5
<1>7. ASSUME NEW q \in Requests, q = r \/ found'[q] = r, pc'[q] \in Writing
      PROVE  ClockedIn(r, stamp'[q])
  <2>1. CASE q # s \/ UNCHANGED <<pc, found, stamp>>
    BY <1>1, <1>7, <2>1 DEF KioskInv
  <2>2. CASE q = s /\ pc[s] = "put" /\ found' = found /\ stamp'[s] = now
    BY <1>1, <1>7, <2>2 DEF KioskInv
  <2>3. CASE q = s /\ pc[s] = "load" /\ found' = found /\ stamp' = stamp
    BY <1>1, <1>7, <2>3 DEF KioskInv, Writing
  <2> QED
    BY <1>7, <2>1, <2>2, <2>3 DEF Writing
<1>8. ASSUME NEW q \in Requests, q = r \/ found'[q] = r, pc'[q] \in Writing
      PROVE  ClockedIn(r, stamp[q])'
  <2>1. PICK t \in Time : t = stamp'[q]
    BY <1>4
  <2>2. ClockedIn(r, t)'
    BY <1>2, <1>7, <1>8, <2>1
  <2> QED
    BY <2>1, <2>2 DEF ClockedIn
<1>9. ASSUME pc'[r] \in {"employee", "gate", "check", "put"}
      PROVE  ClockedIn(r, now)
  <2>1. pc[r] \in {"employee", "gate", "check", "put"}
    BY <1>1, <1>9 DEF Writing, ChoseOut
  <2> QED
    BY <1>1, <2>1 DEF KioskInv
<1>10. ASSUME NEW q \in Requests, found'[q] = r, pc'[q] = "put"
       PROVE  ClockedIn(r, now)
  <2>1. CASE q # s \/ UNCHANGED <<pc, found, stamp>>
    BY <1>1, <1>10, <2>1 DEF KioskInv
  <2>2. CASE q = s /\ pc[s] = "check" /\ found'[s] \in rows \cup {NoRow}
    <3>1. r \in rows
      BY <1>10, <2>2, NoRowAssumption
    <3> QED
      BY <1>1, <1>4, <1>5, <3>1, SteadyKeeps DEF ClockedIn, TypeOK, Time
  <2> QED
    BY <1>10, <2>1, <2>2 DEF Writing
<1> QED
  BY <1>3, <1>6, <1>8, <1>9, <1>10

\* The write of a row, inserted or replaced: its handler held what it needs.
LEMMA WriteKeepsKiosk ==
    ASSUME TypeOK, TypeOK', IInv, KioskInv, Steady, NEW s \in Requests, NEW o \in Requests,
           \/ o = s /\ pc[s] = "insert"
           \/ o = found[s] /\ pc[s] \in {"update", "reinsert"},
           rows' = rows \cup {o}, at' = [at EXCEPT ![o] = stamp[s]],
           pc' = [pc EXCEPT ![s] = "done"], UNCHANGED <<now, found, stamp>>
    PROVE  KioskInv'
<1> SUFFICES ASSUME NEW r \in Requests, ChoseOut(r)'
             PROVE  /\ pc'[r] \in {"employee", "gate", "check", "put"} => ClockedIn(r, now)'
                    /\ pc'[r] \in Writing => ClockedIn(r, stamp[r])'
                    /\ r \in rows' => ClockedIn(r, at[r])'
                    /\ \A q \in Requests : found'[q] = r =>
                          /\ pc'[q] = "put" => ClockedIn(r, now)'
                          /\ pc'[q] \in Writing => ClockedIn(r, stamp[q])'
  BY DEF KioskInv
<1>1. ChoseOut(r) /\ now \in Time /\ now' = now /\ stamp' = stamp /\ found' = found
  BY DEF ChoseOut, Steady, TypeOK
<1>2. \A t \in Time : ClockedIn(r, t) => ClockedIn(r, t)'
  BY SteadyKeeps, TimeAssumption DEF Time
<1>3. ClockedIn(r, now) => ClockedIn(r, now)'
  BY <1>1, <1>2 DEF ClockedIn
<1>4. /\ stamp \in [Requests -> Time] /\ at \in [Requests -> Time] /\ at' \in [Requests -> Time]
      /\ \A q \in Requests : pc'[q] = pc[q] \/ (q = s /\ pc'[q] = "done")
      /\ \A q \in Requests : at'[q] = IF q = o THEN stamp[s] ELSE at[q]
  BY DEF TypeOK
<1>5. \A q \in Requests : ClockedIn(r, stamp[q]) => ClockedIn(r, stamp[q])'
  <2> SUFFICES ASSUME NEW q \in Requests, ClockedIn(r, stamp[q])
               PROVE  ClockedIn(r, stamp[q])'
    OBVIOUS
  <2>1. PICK t \in Time : t = stamp[q]
    BY <1>4
  <2>2. ClockedIn(r, t)'
    BY <1>2, <2>1
  <2> QED
    BY <1>1, <2>1, <2>2 DEF ClockedIn
<1>6. ASSUME r \in rows'
      PROVE  ClockedIn(r, at[r])'
  <2>1. PICK t \in Time : t = at'[r]
    BY <1>4
  <2>2. ClockedIn(r, t)
    BY <1>1, <1>4, <1>6, <2>1 DEF KioskInv, Writing
  <2>3. ClockedIn(r, t)'
    BY <1>2, <2>2
  <2> QED
    BY <2>1, <2>3 DEF ClockedIn
<1> QED
  BY <1>1, <1>3, <1>4, <1>5, <1>6 DEF KioskInv, Writing

LEMMA DecideKeepsKiosk ==
    ASSUME TypeOK, TypeOK', IInv, KioskInv, NEW s \in Requests, Decide(s)
    PROVE  KioskInv'
<1>1. /\ emp' = emp /\ auto' = auto /\ cleared' = cleared /\ now' = now /\ stamp' = stamp
      /\ found' = found /\ rows' = rows /\ at' = at
      /\ pc[s] = "punches" /\ pc'[s] = "employee"
      /\ \A r \in Requests \ {s} : pc'[r] = pc[r] /\ type'[r] = type[r] /\ decided'[r] = decided[r]
  BY DEF Decide, Goto, database, TypeOK
<1>2. /\ s \notin rows
      /\ \A q \in Requests : found[q] = s => pc[q] # "put" /\ pc[q] \notin Writing
  BY <1>1, NoRowAssumption DEF IInv, HeldRows, Writing
<1>3. rows \subseteq Requests
  BY DEF TypeOK
<1> SUFFICES ASSUME NEW r \in Requests, ChoseOut(r)'
             PROVE  /\ pc'[r] \in {"employee", "gate", "check", "put"} => ClockedIn(r, now)'
                    /\ pc'[r] \in Writing => ClockedIn(r, stamp[r])'
                    /\ r \in rows' => ClockedIn(r, at[r])'
                    /\ \A q \in Requests : found'[q] = r =>
                          /\ pc'[q] = "put" => ClockedIn(r, now)'
                          /\ pc'[q] \in Writing => ClockedIn(r, stamp[q])'
  BY DEF KioskInv
<1>4. CASE r = s
  <2>1. HasPunch(s, "IN") /\ decided'[s] = today[s]
    BY <1>4 DEF Decide, ChoseOut, TypeOK
  <2>2. PICK q \in rows : /\ emp[q] = emp[s] /\ type[q] = "IN"
                          /\ DayOf[at[q]] = today[s] /\ at[q] + Cooldown <= now
    BY <2>1, DecideFinds
  <2>3. ClockedIn(s, now)'
    BY <1>1, <1>2, <1>3, <2>1, <2>2 DEF ClockedIn
  <2> QED
    BY <1>1, <1>2, <1>4, <2>3 DEF Writing
<1>5. CASE r # s
  <2>1. ChoseOut(r)
    BY <1>1, <1>5 DEF ChoseOut
  <2>2. ClockedIn(r, now) => ClockedIn(r, now)'
    BY <1>1, <1>2, <1>3, <1>5 DEF ClockedIn
  <2>3. \A q \in Requests : ClockedIn(r, stamp[q]) => ClockedIn(r, stamp[q])'
    BY <1>1, <1>2, <1>3, <1>5 DEF ClockedIn
  <2>4. ClockedIn(r, at[r]) => ClockedIn(r, at[r])'
    BY <1>1, <1>2, <1>3, <1>5 DEF ClockedIn
  <2>5. \A q \in Requests : pc'[q] = "put" \/ pc'[q] \in Writing => pc'[q] = pc[q]
    BY <1>1 DEF Writing
  <2> QED
    BY <1>1, <1>5, <2>1, <2>2, <2>3, <2>4, <2>5 DEF KioskInv
<1> QED
  BY <1>4, <1>5

LEMMA HandlerKeepsKiosk ==
    ASSUME TypeOK, TypeOK', IInv, KioskInv, NEW s \in Requests, Handler(s)
    PROVE  KioskInv'
<1>1. ~Decide(s) => Steady
  BY HandlerSteady
<1> USE DEF Goto, database, Writing
<1>2. CASE Insert(s)
  <2>1. /\ pc[s] = "insert" /\ rows' = rows \cup {s} /\ at' = [at EXCEPT ![s] = stamp[s]]
        /\ pc' = [pc EXCEPT ![s] = "done"] /\ UNCHANGED <<now, found, stamp>> /\ ~Decide(s)
    BY <1>2 DEF Insert, Decide
  <2> QED
    BY <1>1, <2>1, WriteKeepsKiosk
<1>3. CASE (Update(s) /\ found[s] \in rows) \/ Reinsert(s)
  <2>1. /\ pc[s] \in {"update", "reinsert"} /\ rows' = rows \cup {found[s]}
        /\ at' = [at EXCEPT ![found[s]] = stamp[s]]
        /\ pc' = [pc EXCEPT ![s] = "done"] /\ UNCHANGED <<now, found, stamp>> /\ ~Decide(s)
    BY <1>3 DEF Update, Reinsert, Decide
  <2>2. found[s] \in Requests
    BY <2>1 DEF IInv, HeldRows, TypeOK
  <2> QED
    BY <1>1, <2>1, <2>2, WriteKeepsKiosk
<1>4. CASE Decide(s)
  BY <1>4, DecideKeepsKiosk
<1>5. CASE Begin(s) \/ Lookup(s) \/ Fail(s) \/ (Update(s) /\ found[s] \notin rows)
  <2>1. /\ rows' = rows /\ at' = at /\ found' = found /\ stamp' = stamp
        /\ \A r \in Requests \ {s} : pc'[r] = pc[r]
        /\ \/ pc'[s] \in {"lookup", "punches", "done"}
           \/ pc[s] = "idle" /\ ~auto[s] /\ pc'[s] = "employee"
    BY <1>5 DEF Begin, Lookup, Fail, Update, TypeOK
  <2> QED
    BY <1>1, <1>4, <2>1, MoveKeepsKiosk
<1>6. CASE GetEmployee(s) \/ Gate(s)
  <2>1. /\ rows' = rows /\ at' = at /\ found' = found /\ stamp' = stamp
        /\ \A r \in Requests \ {s} : pc'[r] = pc[r]
        /\ pc[s] \in {"employee", "gate"} /\ pc'[s] \in {"gate", "check"}
    BY <1>6 DEF GetEmployee, Gate, TypeOK
  <2> QED
    BY <1>1, <1>4, <2>1, MoveKeepsKiosk
<1>7. CASE CheckIn(s) \/ CheckOut(s)
  <2>1. /\ rows' = rows /\ at' = at /\ stamp' = stamp
        /\ \A r \in Requests \ {s} : pc'[r] = pc[r] /\ found'[r] = found[r]
        /\ pc[s] = "check" /\ pc'[s] = "put" /\ found'[s] \in rows \cup {NoRow}
    BY <1>7 DEF CheckIn, CheckOut, SameTypeToday, PunchesToday, TypeOK
  <2> QED
    BY <1>1, <1>4, <2>1, MoveKeepsKiosk
<1>8. CASE Put(s)
  <2>1. /\ rows' = rows /\ at' = at /\ found' = found
        /\ \A r \in Requests \ {s} : pc'[r] = pc[r] /\ stamp'[r] = stamp[r]
        /\ pc[s] = "put" /\ pc'[s] \in Writing /\ stamp'[s] = now
    BY <1>8 DEF Put, TypeOK
  <2> QED
    BY <1>1, <1>4, <2>1, MoveKeepsKiosk
<1>9. CASE Load(s)
  <2>1. /\ rows' = rows /\ at' = at /\ found' = found /\ stamp' = stamp
        /\ \A r \in Requests \ {s} : pc'[r] = pc[r]
        /\ pc[s] = "load" /\ pc'[s] \in Writing
    BY <1>9 DEF Load, TypeOK
  <2> QED
    BY <1>1, <1>4, <2>1, MoveKeepsKiosk
<1> QED
  BY <1>2, <1>3, <1>4, <1>5, <1>6, <1>7, <1>8, <1>9 DEF Handler

LEMMA OtherKeepsKiosk ==
    ASSUME TypeOK, TypeOK', IInv, KioskInv,
           (\E e \in Employees : Removal(e)) \/ Tick \/ UNCHANGED vars
    PROVE  KioskInv'
<1>1. /\ Steady /\ rows' \subseteq rows /\ at' = at /\ UNCHANGED <<pc, found, stamp>>
  <2>1. ASSUME NEW e \in Employees, Removal(e)
        PROVE  /\ Steady /\ rows' \subseteq rows /\ at' = at /\ UNCHANGED <<pc, found, stamp>>
    BY <2>1 DEF Removal, StartRemove, DeleteLogs, RemoveEmployee, Steady, request, TypeOK, Time
  <2>2. CASE Tick \/ UNCHANGED vars
    BY <2>2 DEF Tick, vars, database, request, Steady, TypeOK, Time
  <2> QED
    BY <2>1, <2>2
<1>2. CASE Requests = {}
  BY <1>2 DEF KioskInv
<1>3. CASE Requests # {}
  BY <1>1, <1>3, MoveKeepsKiosk
<1> QED
  BY <1>2, <1>3

LEMMA KioskInductive == Spec => []KioskInv
<1>1. Init => KioskInv
  BY NoRowAssumption DEF Init, KioskInv, Writing
<1>2. (TypeOK /\ IInv) /\ KioskInv /\ [Next]_vars => KioskInv'
  <2> SUFFICES ASSUME TypeOK, IInv, KioskInv, [Next]_vars
               PROVE  KioskInv'
    OBVIOUS
  <2>1. TypeOK'
    BY TypeStep DEF IInv
  <2> QED
    BY <2>1, HandlerKeepsKiosk, OtherKeepsKiosk DEF Next
<1> QED
  BY <1>1, <1>2, Inductive, PTL DEF Spec

\* A clock-out chosen by the kiosk and stored on that day comes at least the
\* cooldown after a clock-in, so that the roster shows the day as present, also
\* with requests racing to add or move punches.
THEOREM KioskDayPresentCorrect == Spec => []KioskDayPresent
<1>1. TypeOK /\ KioskInv => KioskOutFollowsIn
  BY DEF KioskInv, KioskOutFollowsIn, ClockedIn, ChoseOut, TypeOK
<1>2. TypeOK /\ IInv /\ KioskOutFollowsIn => KioskDayPresent
  <2> SUFFICES ASSUME TypeOK, IInv, KioskOutFollowsIn, NEW r \in rows,
                      auto[r], type[r] = "OUT", DayOf[at[r]] = decided[r], emp[r] \notin cleared
               PROVE  Roster(Days, NobodyMarked)[emp[r]][decided[r]] = "Present"
    BY DEF KioskDayPresent
  <2> DEFINE e == emp[r]
             d == decided[r]
             ins  == TimesOn(e, "IN", d)
             outs == TimesOn(e, "OUT", d)
  <2>1. PICK q \in rows : /\ emp[q] = e /\ type[q] = "IN" /\ DayOf[at[q]] = d
                          /\ at[q] + Cooldown <= at[r]
    BY DEF KioskOutFollowsIn
  <2>2. at[q] \in ins /\ at[r] \in outs /\ ins \in SUBSET Time /\ outs \in SUBSET Time
    BY <2>1 DEF TimesOn, TypeOK
  <2>3. Min(ins) \in Time /\ Min(ins) <= at[q]
    <3>1. \E x \in ins : \A y \in ins : x <= y
      BY <2>2, FirstExists DEF Time
    <3>2. Min(ins) \in ins /\ \A y \in ins : Min(ins) <= y
      BY <3>1 DEF Min
    <3> QED
      BY <2>2, <3>2
  <2>4. Max(outs) \in Time /\ at[r] <= Max(outs)
    <3>1. \E x \in outs : \A y \in outs : y <= x
      BY <2>2, LastExists
    <3>2. Max(outs) \in outs /\ \A y \in outs : y <= Max(outs)
      BY <3>1 DEF Max
    <3> QED
      BY <2>2, <3>2
  <2>5. Max(outs) - Min(ins) \in Nat
    BY <2>1, <2>2, <2>3, <2>4, TimeAssumption DEF Time
  <2>6. e \in staff /\ d \in Days
    BY DEF IInv, RowsHaveEmployees, Days, TypeOK
  <2>7. e \notin NobodyMarked[d]
    BY <2>6 DEF NobodyMarked
  <2>8. RosterLine(e, d, NobodyMarked[d]) = [in |-> Min(ins), out |-> Max(outs)]
    BY <2>2, <2>7 DEF RosterLine
  <2>9. WorkedHours(RosterLine(e, d, NobodyMarked[d])) # {}
    BY <2>3, <2>4, <2>5, <2>8, NoPunchAssumption DEF WorkedHours
  <2>10. Status(e, d, NobodyMarked[d]) = "Present"
    BY <2>9 DEF Status
  <2> QED
    BY <2>6, <2>10 DEF Roster
<1> QED
  BY <1>1, <1>2, KioskInductive, Inductive, PTL
=============================================================================
