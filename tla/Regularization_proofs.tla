------------------------ MODULE Regularization_proofs ------------------------
(***************************************************************************)
(* Proofs about module Regularization, for any number of employees, create *)
(* calls, decisions and days.                                              *)
(***************************************************************************)
EXTENDS Regularization, TLAPS

\* Every step keeps the types.
LEMMA TypeStep ==
    ASSUME TypeOK, [Next]_vars
    PROVE  TypeOK'
<1> USE TypesAssumption, DayAssumption, NoOneAssumption
    DEF TypeOK, Days, Decided, request, decision, row, ToCreate, ToDecide
<1>1. ASSUME NEW c \in Creates, CreateStep(c)
      PROVE  TypeOK'
  <2>1. CASE Submit(c)
    BY <2>1 DEF Submit
  <2>2. CASE Lookup(c)
    BY <2>2 DEF Lookup
  <2>3. CASE Insert(c)
    BY <2>3 DEF Insert
  <2>4. CASE CreateFails(c)
    BY <2>4 DEF CreateFails
  <2> QED
    BY <1>1, <2>1, <2>2, <2>3, <2>4 DEF CreateStep
<1>2. ASSUME NEW d \in Decisions, DecisionStep(d)
      PROVE  TypeOK'
  <2>1. CASE Load(d)
    BY <2>1 DEF Load
  <2>2. CASE SaveSelect(d)
    BY <2>2 DEF SaveSelect, Differing
  <2>3. CASE SaveUpdate(d)
    BY <2>3 DEF SaveUpdate, Reviewer, Note
  <2>4. CASE DecisionFails(d)
    BY <2>4 DEF DecisionFails
  <2> QED
    BY <1>2, <2>1, <2>2, <2>3, <2>4 DEF DecisionStep
<1>3. ASSUME NEW e \in Employees, Gate(e) \/ RemoveEmployee(e)
      PROVE  TypeOK'
  BY <1>3 DEF Gate, RemoveEmployee
<1>4. CASE Midnight
  BY <1>4 DEF Midnight
<1>5. CASE UNCHANGED vars
  BY <1>5 DEF vars
<1> QED
  BY <1>1, <1>2, <1>3, <1>4, <1>5 DEF Next

-----------------------------------------------------------------------------
(* The steps that leave every row as it is. *)

RowsStay ==
    /\ staff' = staff /\ request' = request /\ row' = row /\ decision' = decision
    /\ raced \subseteq raced'

LEMMA RowsStayKeeps ==
    ASSUME TypeOK, IInv, RowsStay
    PROVE  OneActive' /\ MixedNeedsRace' /\ (bypassed' = bypassed => BypassBacked')
<1> USE DEF RowsStay, request, row, decision, IInv
<1>1. OneActive'
  BY DEF OneActive, SameKey
<1>2. MixedNeedsRace'
  BY DEF MixedNeedsRace, WholeReview, Reviewer, Note
<1>3. bypassed' = bypassed => BypassBacked'
  BY DEF BypassBacked
<1> QED
  BY <1>1, <1>2, <1>3

\* Creates that write nothing.
LEMMA WaitingStep ==
    ASSUME TypeOK, IInv, NEW c \in Creates, Submit(c) \/ Lookup(c) \/ CreateFails(c)
    PROVE  IInv'
<1>1. RowsStay /\ bypassed' = bypassed /\ raced' = raced /\ dpc' = dpc /\ dirty' = dirty
  BY DEF Submit, Lookup, CreateFails, RowsStay
<1>2. \A b \in Creates : cpc[b] = "done" => cpc'[b] = "done"
  BY DEF Submit, Lookup, CreateFails, ToCreate, TypeOK
<1>3. AloneWithPending' /\ DirtyIsExact'
  BY <1>1 DEF IInv, AloneWithPending, Deciding, DirtyIsExact, Differing, Reviewer, Note,
     RowsStay, row, decision
<1>4. RowsInserted'
  BY <1>1, <1>2 DEF IInv, RowsInserted, RowsStay, row, request
<1> QED
  BY <1>1, <1>3, <1>4, RowsStayKeeps DEF IInv

\* Decisions that write nothing.
LEMMA DecidingStep ==
    ASSUME TypeOK, IInv, NEW d \in Decisions, Load(d) \/ SaveSelect(d) \/ DecisionFails(d)
    PROVE  IInv'
<1>1. RowsStay /\ bypassed' = bypassed /\ cpc' = cpc
  BY DEF Load, SaveSelect, DecisionFails, RowsStay
<1>2. \A f \in Decisions \ {d} : dpc'[f] = dpc[f] /\ dirty'[f] = dirty[f]
  BY DEF Load, SaveSelect, DecisionFails, ToDecide, TypeOK
<1>3. \A f \in Decisions : Differing(f)' = Differing(f)
  BY <1>1 DEF Differing, Reviewer, Note, RowsStay, row, decision
<1>4. dpc'[d] = "update" => dirty'[d] = Differing(d)
  BY DEF Load, SaveSelect, DecisionFails, ToDecide, TypeOK
<1>5. DirtyIsExact'
  BY <1>1, <1>2, <1>3, <1>4 DEF IInv, DirtyIsExact, RowsStay, decision
<1>6. AloneWithPending'
  <2>1. CASE Load(d)
    <3>1. /\ dpc' = [dpc EXCEPT ![d] = "select"] /\ status[target[d]] = "pending"
          /\ (\E f \in Decisions : Deciding(f) /\ target[f] = target[d]) => target[d] \in raced'
      BY <2>1 DEF Load, ToDecide
    <3> QED
      BY <1>1, <1>2, <3>1 DEF IInv, AloneWithPending, Deciding, RowsStay, row, decision, TypeOK
  <2>2. CASE SaveSelect(d) \/ DecisionFails(d)
    <3>1. raced' = raced /\ (Deciding(d)' => Deciding(d))
      BY <2>2 DEF SaveSelect, DecisionFails, Deciding, ToDecide, TypeOK
    <3> QED
      BY <1>1, <1>2, <3>1 DEF IInv, AloneWithPending, Deciding, RowsStay, row, decision
  <2> QED
    BY <2>1, <2>2
<1>7. RowsInserted'
  BY <1>1 DEF IInv, RowsInserted, RowsStay, row, request
<1> QED
  BY <1>1, <1>5, <1>6, <1>7, RowsStayKeeps DEF IInv

\* The gate, midnight and stuttering.
LEMMA OutsideStep ==
    ASSUME TypeOK, IInv, (\E e \in Employees : Gate(e)) \/ Midnight \/ UNCHANGED vars
    PROVE  IInv'
<1>1. RowsStay /\ cpc' = cpc /\ raced' = raced /\ dpc' = dpc /\ dirty' = dirty
  BY DEF Gate, Midnight, vars, RowsStay
<1>2. AloneWithPending' /\ DirtyIsExact' /\ RowsInserted'
  BY <1>1 DEF IInv, AloneWithPending, Deciding, DirtyIsExact, Differing, Reviewer, Note,
     RowsInserted, RowsStay, row, decision, request
<1>3. BypassBacked'
  <2>1. CASE bypassed' = bypassed
    BY <1>1, <2>1, RowsStayKeeps
  <2>2. ASSUME NEW e \in Employees, Gate(e)
        PROVE  BypassBacked'
    BY <1>1, <2>2 DEF Gate, HasApprovedWfh, IInv, BypassBacked, RowsStay, row, request
  <2> QED
    BY <2>1, <2>2 DEF Midnight, vars
<1> QED
  BY <1>1, <1>2, <1>3, RowsStayKeeps DEF IInv

-----------------------------------------------------------------------------
(* The steps that write rows. *)

LEMMA InsertStep ==
    ASSUME TypeOK, IInv, NEW c \in Creates, Insert(c)
    PROVE  IInv'
<1>1. /\ staff' = staff /\ emp' = emp /\ date' = date /\ type' = type
      /\ reviewer' = reviewer /\ note' = note /\ target' = target /\ verdict' = verdict
      /\ noted' = noted /\ dpc' = dpc /\ dirty' = dirty /\ bypassed' = bypassed /\ raced' = raced
      /\ emp[c] \in staff /\ ~IndexRefuses(c)
  BY DEF Insert, request, decision
<1>2. /\ status'[c] = "pending" /\ status[c] = "none"
      /\ cpc'[c] = "done"
      /\ \A b \in Creates \ {c} : status'[b] = status[b] /\ cpc'[b] = cpc[b]
  BY DEF Insert, ToCreate, IInv, RowsInserted, TypeOK
<1>3. OneActive'
  <2> SUFFICES ASSUME NEW a \in Creates, NEW b \in Creates, a # b, SameKey(a, b),
                      status'[a] \in Active, status'[b] \in Active
               PROVE  FALSE
    BY <1>1 DEF OneActive, SameKey
  <2>1. SameKey(b, a)
    BY DEF SameKey
  <2>2. CASE a = c
    BY <1>1, <1>2, <2>1, <2>2 DEF IndexRefuses
  <2>3. CASE b = c
    BY <1>1, <1>2, <2>1, <2>3 DEF IndexRefuses
  <2>4. CASE a # c /\ b # c
    BY <1>2, <2>4 DEF IInv, OneActive
  <2> QED
    BY <2>2, <2>3, <2>4
<1>4. AloneWithPending'
  BY <1>1, <1>2 DEF IInv, AloneWithPending, Deciding, TypeOK
<1>5. DirtyIsExact'
  <2>1. \A d \in Decisions : Differing(d)' = Differing(d)
    BY <1>1, <1>2 DEF Differing, Reviewer, Note, Decided, TypeOK
  <2> QED
    BY <1>1, <2>1 DEF IInv, DirtyIsExact
<1>6. RowsInserted'
  BY <1>1, <1>2 DEF IInv, RowsInserted
<1>7. MixedNeedsRace'
  BY <1>1, <1>2 DEF IInv, MixedNeedsRace, WholeReview, Reviewer, Note, Decided
<1>8. BypassBacked'
  BY <1>1, <1>2 DEF IInv, BypassBacked
<1> QED
  BY <1>3, <1>4, <1>5, <1>6, <1>7, <1>8 DEF IInv

\* Unless its row is raced, the decision that updates is the only one in flight.
LEMMA UpdateStep ==
    ASSUME TypeOK, IInv, NEW d \in Decisions, SaveUpdate(d)
    PROVE  IInv'
<1> DEFINE c == target[d]
<1>1. /\ staff' = staff /\ emp' = emp /\ date' = date /\ type' = type /\ cpc' = cpc
      /\ target' = target /\ verdict' = verdict /\ noted' = noted
      /\ dirty' = dirty /\ bypassed' = bypassed /\ raced' = raced
      /\ dpc[d] = "update" /\ dpc'[d] = "done"
      /\ \A f \in Decisions \ {d} : dpc'[f] = dpc[f]
      /\ status[c] # "none" /\ c \in Creates
  BY DEF SaveUpdate, ToDecide, request, decision, TypeOK
<1>2. /\ status'[c] = IF "status" \in dirty[d] THEN verdict[d] ELSE status[c]
      /\ reviewer'[c] = IF "reviewer" \in dirty[d] THEN Reviewer(d) ELSE reviewer[c]
      /\ note'[c] = IF "note" \in dirty[d] THEN Note(d) ELSE note[c]
      /\ \A b \in Creates \ {c} : /\ status'[b] = status[b]
                                  /\ reviewer'[b] = reviewer[b] /\ note'[b] = note[b]
      /\ "status" \in dirty[d] /\ verdict[d] = "approved" => ~IndexRefuses(c)
  BY <1>1 DEF SaveUpdate, Writes, TypeOK
<1>3. c \notin raced => /\ status[c] = "pending"
                        /\ \A f \in Decisions \ {d} : Deciding(f) => target[f] # c
                        /\ dirty[d] = Differing(d)
  BY <1>1 DEF IInv, AloneWithPending, Deciding, DirtyIsExact
<1>4. OneActive'
  <2> SUFFICES ASSUME NEW a \in Creates, NEW b \in Creates, a # b, SameKey(a, b),
                      status'[a] \in Active, status'[b] \in Active
               PROVE  FALSE
    BY <1>1 DEF OneActive, SameKey
  <2>1. SameKey(b, a)
    BY DEF SameKey
  <2>2. status'[c] # status[c] /\ status'[c] \in Active => ~IndexRefuses(c)
    BY <1>2 DEF Active, Decided, TypeOK
  <2>3. CASE status[a] \in Active /\ status[b] \in Active
    BY <2>3 DEF IInv, OneActive
  <2>4. CASE a = c /\ status[a] \notin Active
    BY <1>2, <2>1, <2>2, <2>4 DEF IndexRefuses
  <2>5. CASE b = c /\ status[b] \notin Active
    BY <1>2, <2>2, <2>5 DEF IndexRefuses
  <2> QED
    BY <1>2, <2>3, <2>4, <2>5
<1>5. AloneWithPending'
  <2> SUFFICES ASSUME NEW f \in Decisions, Deciding(f)', target[f] \notin raced
               PROVE  /\ status'[target[f]] \in {"none", "pending"}
                      /\ \A g \in Decisions \ {f} : Deciding(g)' => target[g] # target[f]
    BY <1>1 DEF AloneWithPending
  <2>1. f # d /\ \A g \in Decisions : Deciding(g)' => Deciding(g)
    BY <1>1 DEF Deciding
  <2>2. target[f] # c
    BY <1>3, <2>1
  <2> QED
    BY <1>2, <2>1, <2>2 DEF IInv, AloneWithPending, TypeOK
<1>6. DirtyIsExact'
  <2> SUFFICES ASSUME NEW f \in Decisions, dpc'[f] = "update", target[f] \notin raced
               PROVE  dirty[f] = Differing(f)'
    BY <1>1 DEF DirtyIsExact
  <2>1. f # d /\ dpc[f] = "update"
    BY <1>1
  <2>2. target[f] \in Creates /\ target[f] # c
    BY <1>3, <2>1 DEF Deciding, TypeOK
  <2>3. Differing(f)' = Differing(f)
    BY <1>1, <1>2, <2>2 DEF Differing, Reviewer, Note
  <2> QED
    BY <2>1, <2>3 DEF IInv, DirtyIsExact
<1>7. RowsInserted'
  BY <1>1, <1>2 DEF IInv, RowsInserted
<1>8. MixedNeedsRace'
  <2> SUFFICES ASSUME NEW b \in Creates \ raced, status'[b] \in Decided
               PROVE  WholeReview(b)'
    BY <1>1 DEF MixedNeedsRace
  <2>1. CASE b = c
    <3>1. status'[c] = verdict[d] /\ reviewer'[c] = Reviewer(d) /\ note'[c] = Note(d)
      BY <1>2, <1>3, <2>1 DEF Differing, Columns
    <3> QED
      BY <1>1, <2>1, <3>1 DEF WholeReview, Reviewer, Note
  <2>2. CASE b # c
    BY <1>1, <1>2, <2>2 DEF IInv, MixedNeedsRace, WholeReview, Reviewer, Note
  <2> QED
    BY <2>1, <2>2
<1>9. BypassBacked'
  <2>1. \A b \in Creates : status[b] = "approved" \/ b \in raced
                              => status'[b] = "approved" \/ b \in raced
    BY <1>2, <1>3
  <2> QED
    BY <1>1, <2>1 DEF IInv, BypassBacked
<1> QED
  BY <1>4, <1>5, <1>6, <1>7, <1>8, <1>9 DEF IInv

LEMMA RemoveStep ==
    ASSUME TypeOK, IInv, NEW e \in Employees, RemoveEmployee(e)
    PROVE  IInv'
<1>1. /\ emp' = emp /\ date' = date /\ type' = type /\ cpc' = cpc
      /\ reviewer' = reviewer /\ note' = note /\ target' = target /\ verdict' = verdict
      /\ noted' = noted /\ dpc' = dpc /\ dirty' = dirty /\ bypassed' = bypassed /\ raced' = raced
      /\ staff' = staff \ {e}
      /\ \A c \in Creates : status'[c] = IF emp[c] = e THEN "none" ELSE status[c]
  BY DEF RemoveEmployee, request, decision
<1>2. OneActive'
  BY <1>1 DEF IInv, OneActive, SameKey, Active
<1>3. AloneWithPending'
  BY <1>1 DEF IInv, AloneWithPending, Deciding, TypeOK
<1>4. DirtyIsExact'
  <2> SUFFICES ASSUME NEW d \in Decisions, dpc[d] = "update", target[d] \notin raced
               PROVE  dirty[d] = Differing(d)'
    BY <1>1 DEF DirtyIsExact
  <2>1. status[target[d]] \in {"none", "pending"} /\ status'[target[d]] \in {"none", "pending"}
    BY <1>1 DEF IInv, AloneWithPending, Deciding, TypeOK
  <2>2. Differing(d)' = Differing(d)
    BY <1>1, <2>1 DEF Differing, Reviewer, Note, Decided, TypeOK
  <2> QED
    BY <2>2 DEF IInv, DirtyIsExact
<1>5. RowsInserted'
  BY <1>1 DEF IInv, RowsInserted
<1>6. MixedNeedsRace'
  BY <1>1 DEF IInv, MixedNeedsRace, WholeReview, Reviewer, Note, Decided
<1>7. BypassBacked'
  BY <1>1 DEF IInv, BypassBacked
<1> QED
  BY <1>2, <1>3, <1>4, <1>5, <1>6, <1>7 DEF IInv

-----------------------------------------------------------------------------

LEMMA InitHolds ==
    ASSUME Init
    PROVE  TypeOK /\ IInv
<1>1. TypeOK
  BY DayAssumption DEF Init, TypeOK, Days, Decided
<1>2. IInv
  BY DEF Init, IInv, OneActive, Active, AloneWithPending, Deciding, DirtyIsExact,
     RowsInserted, MixedNeedsRace, Decided, BypassBacked
<1> QED
  BY <1>1, <1>2

LEMMA StepKeepsIInv ==
    ASSUME TypeOK, IInv, [Next]_vars
    PROVE  IInv'
BY WaitingStep, InsertStep, DecidingStep, UpdateStep, OutsideStep, RemoveStep
   DEF Next, CreateStep, DecisionStep

LEMMA Inductive == Spec => [](TypeOK /\ IInv)
<1>1. Init => TypeOK /\ IInv
  BY InitHolds
<1>2. TypeOK /\ IInv /\ [Next]_vars => (TypeOK /\ IInv)'
  BY TypeStep, StepKeepsIInv
<1> QED
  BY <1>1, <1>2, PTL DEF Spec

\* The rows, the handlers and the dirty columns stay well typed.
THEOREM TypeCorrect == Spec => []TypeOK
BY Inductive, PTL

\* No two active requests of one employee, day and type, for any number of
\* overlapping creates and decisions.
THEOREM OneActiveCorrect == Spec => []OneActive
<1>1. IInv => OneActive
  BY DEF IInv
<1> QED
  BY <1>1, Inductive, PTL

\* Status, reviewer and note come from one decision unless two overlapped.
THEOREM MixedNeedsRaceCorrect == Spec => []MixedNeedsRace
<1>1. IInv => MixedNeedsRace
  BY DEF IInv
<1> QED
  BY <1>1, Inductive, PTL

\* Whoever passed the gate as working from home keeps the approval of that day.
THEOREM BypassBackedCorrect == Spec => []BypassBacked
<1>1. IInv => BypassBacked
  BY DEF IInv
<1> QED
  BY <1>1, Inductive, PTL

\* A decided request changes its status again only in a race of two decisions.
THEOREM FinalNeedsRaceCorrect == Spec => FinalNeedsRace
<1>1. TypeOK /\ IInv /\ [Next]_vars =>
        [\A c \in Creates : status[c] \in Decided =>
            status'[c] \in {status[c], "none"} \/ c \in raced]_vars
  <2> SUFFICES ASSUME TypeOK, IInv, Next, NEW c \in Creates, status[c] \in Decided, c \notin raced
               PROVE  status'[c] \in {status[c], "none"}
    OBVIOUS
  <2>1. ASSUME NEW b \in Creates, CreateStep(b)
        PROVE  status'[c] = status[c]
    BY <2>1 DEF CreateStep, Submit, Lookup, Insert, CreateFails, row, IInv, RowsInserted,
       Decided, TypeOK
  <2>2. ASSUME NEW d \in Decisions, DecisionStep(d)
        PROVE  status'[c] = status[c]
    BY <2>2 DEF DecisionStep, Load, SaveSelect, SaveUpdate, DecisionFails, row, IInv,
       AloneWithPending, Deciding, Decided, TypeOK
  <2>3. ASSUME NEW e \in Employees, Gate(e) \/ RemoveEmployee(e)
        PROVE  status'[c] \in {status[c], "none"}
    BY <2>3 DEF Gate, RemoveEmployee, row
  <2>4. CASE Midnight
    BY <2>4 DEF Midnight, row
  <2> QED
    BY <2>1, <2>2, <2>3, <2>4 DEF Next
<1> QED
  BY <1>1, Inductive, PTL DEF Spec, FinalNeedsRace
=============================================================================
