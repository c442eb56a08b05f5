---------------------------- MODULE StartUp_proofs ----------------------------
(***************************************************************************)
(* Proofs about module StartUp, for any number of processes, requests and  *)
(* request types.                                                          *)
(***************************************************************************)
EXTENDS StartUp, TLAPS

-----------------------------------------------------------------------------
(* The inductive invariant: what a start that is alone has reached by each *)
(* statement.                                                              *)

\* The statements from the one named on.
FromModel    == {"model", "serving"}
FromSaveHr   == {"saveHr"} \cup FromModel
FromHr       == {"findHr", "findHrEmployee", "saveHrEmployee"} \cup FromSaveHr
FromAdmin    == {"findAdmin", "saveAdmin"} \cup FromHr
FromIndex    == {"indexByDate", "addType", "dropIndex", "indexByType"} \cup FromAdmin
FromFixed    == {"dropRoleCheckAgain", "addRoleCheck"} \cup FromIndex
FromChecked  == {"extension", "schema", "fallback", "dropRoleCheck", "fixRoles"} \cup FromFixed

Reached(p) ==
    /\ pc[p] \in FromChecked => settings # "secretMissing"
    /\ pc[p] \in FromFixed => ~badRole
    /\ pc[p] \in FromIndex => roleCheck
    /\ pc[p] = "indexByType" => index = "none"
    /\ pc[p] \in FromAdmin => index = "type"
    /\ pc[p] \in FromHr => admin
    /\ pc[p] \in FromSaveHr => hrEmployee
    /\ pc[p] \in FromModel => hr = "linked"
    /\ pc[p] = "serving" => settings = "complete"

\* A request is asked of a process that serves, and dies with it.
AskedInv ==
    \A q \in Requests : asking[q] # NoRequest =>
        /\ asking[q].process \in Processes /\ asking[q].type \in Types
        /\ pc[asking[q].process] = "serving"

AloneInv ==
    overlapped \/
        /\ \A p, o \in Processes : pc[p] # "down" /\ pc[o] # "down" => p = o
        /\ \A p \in Processes : Reached(p)
        /\ \A t \in Types : active[t] <= 1

IInv == TypeOK /\ AskedInv /\ AloneInv

-----------------------------------------------------------------------------
(* The statements of a start. *)

Points == Starting \cup {"down", "serving"}

\* A statement moves its own process on, or ends it.
LEMMA StatementMoves ==
    ASSUME pc \in [Processes -> Points], NEW p \in Processes, Step(p)
    PROVE  /\ pc[p] \in Starting
           /\ pc' \in [Processes -> Points]
           /\ \A o \in Processes \ {p} : pc'[o] = pc[o]
<1> USE DEF Points, Starting, Goto
<1>1. CASE CheckEnvironment(p)
  BY <1>1 DEF CheckEnvironment
<1>2. CASE CreateExtension(p)
  BY <1>2 DEF CreateExtension
<1>3. CASE ApplySchema(p)
  BY <1>3 DEF ApplySchema, SchemaFails
<1>4. CASE DropRoleCheck(p)
  BY <1>4 DEF DropRoleCheck
<1>5. CASE FixRoles(p)
  BY <1>5 DEF FixRoles
<1>6. CASE AddRoleCheck(p)
  BY <1>6 DEF AddRoleCheck, Exit
<1>7. CASE IndexByDate(p)
  BY <1>7 DEF IndexByDate, Exit
<1>8. CASE AddType(p)
  BY <1>8 DEF AddType
<1>9. CASE DropIndex(p)
  BY <1>9 DEF DropIndex
<1>10. CASE IndexByType(p)
  BY <1>10 DEF IndexByType, Exit
<1>11. CASE FindAdmin(p)
  BY <1>11 DEF FindAdmin
<1>12. CASE SaveAdmin(p)
  BY <1>12 DEF SaveAdmin, Exit
<1>13. CASE FindRoleEmployee(p)
  BY <1>13 DEF FindRoleEmployee
<1>14. CASE SaveRoleEmployee(p)
  BY <1>14 DEF SaveRoleEmployee, Exit
<1>15. CASE SaveRoleUser(p)
  BY <1>15 DEF SaveRoleUser, Exit
<1>16. CASE LoadModel(p)
  BY <1>16 DEF LoadModel
<1> QED
  BY <1>1, <1>2, <1>3, <1>4, <1>5, <1>6, <1>7, <1>8,
     <1>9, <1>10, <1>11, <1>12, <1>13, <1>14, <1>15, <1>16 DEF Step, Statement

\* A statement keeps the types of the database, and no requests.
LEMMA StatementKeepsTypes ==
    ASSUME TypeOK, NEW p \in Processes, Step(p)
    PROVE  /\ active' = active
           /\ tables' \in {"none", "old", "new"}
           /\ index' \in {"none", "date", "type"}
           /\ hr' \in {"none", "stale", "linked"}
<1>0. /\ tables \in {"none", "old", "new"}
      /\ index \in {"none", "date", "type"}
      /\ hr \in {"none", "stale", "linked"}
  BY DEF TypeOK
<1> USE DEF database, Step, Statement
<1>1. CASE CheckEnvironment(p)
  BY <1>1, <1>0 DEF CheckEnvironment
<1>2. CASE CreateExtension(p)
  BY <1>2, <1>0 DEF CreateExtension
<1>3. CASE ApplySchema(p)
  BY <1>3, <1>0 DEF ApplySchema, SchemaFails
<1>4. CASE DropRoleCheck(p)
  BY <1>4, <1>0 DEF DropRoleCheck
<1>5. CASE FixRoles(p)
  BY <1>5, <1>0 DEF FixRoles
<1>6. CASE AddRoleCheck(p)
  BY <1>6, <1>0 DEF AddRoleCheck, Exit
<1>7. CASE IndexByDate(p)
  BY <1>7, <1>0 DEF IndexByDate, Exit
<1>8. CASE AddType(p)
  BY <1>8, <1>0 DEF AddType
<1>9. CASE DropIndex(p)
  BY <1>9, <1>0 DEF DropIndex
<1>10. CASE IndexByType(p)
  BY <1>10, <1>0 DEF IndexByType, Exit
<1>11. CASE FindAdmin(p)
  BY <1>11, <1>0 DEF FindAdmin
<1>12. CASE SaveAdmin(p)
  BY <1>12, <1>0 DEF SaveAdmin, Exit
<1>13. CASE FindRoleEmployee(p)
  BY <1>13, <1>0 DEF FindRoleEmployee
<1>14. CASE SaveRoleEmployee(p)
  BY <1>14, <1>0 DEF SaveRoleEmployee, Exit
<1>15. CASE SaveRoleUser(p)
  BY <1>15, <1>0 DEF SaveRoleUser, Exit
<1>16. CASE LoadModel(p)
  BY <1>16, <1>0 DEF LoadModel
<1> QED
  BY <1>1, <1>2, <1>3, <1>4, <1>5, <1>6, <1>7, <1>8,
     <1>9, <1>10, <1>11, <1>12, <1>13, <1>14, <1>15, <1>16 DEF Step, Statement

LEMMA StatementKeepsExisting ==
    ASSUME existing \in [Processes -> BOOLEAN], NEW p \in Processes, Step(p)
    PROVE  existing' \in [Processes -> BOOLEAN]
<1>1. CASE UNCHANGED existing
  BY <1>1
<1>2. CASE FindRoleEmployee(p)
  <2>1. PICK b \in BOOLEAN : existing' = [existing EXCEPT ![p] = b]
    BY <1>2 DEF FindRoleEmployee
  <2> QED
    BY <2>1
<1>3. CASE SaveRoleUser(p)
  BY <1>3 DEF SaveRoleUser
<1> QED
  BY <1>1, <1>2, <1>3 DEF Step, Statement

LEMMA StatementKeepsBooleans ==
    ASSUME TypeOK, NEW p \in Processes, Step(p)
    PROVE  /\ roleCheck' \in BOOLEAN /\ badRole' \in BOOLEAN
           /\ admin' \in BOOLEAN /\ hrEmployee' \in BOOLEAN
<1>0. roleCheck \in BOOLEAN /\ badRole \in BOOLEAN /\ admin \in BOOLEAN /\ hrEmployee \in BOOLEAN
  BY DEF TypeOK
<1> USE DEF database, Step, Statement
<1>1. CASE CheckEnvironment(p)
  BY <1>1, <1>0, Zenon DEF CheckEnvironment
<1>2. CASE CreateExtension(p)
  BY <1>2, <1>0, Zenon DEF CreateExtension
<1>3. CASE ApplySchema(p)
  BY <1>3, <1>0, Zenon DEF ApplySchema, SchemaFails
<1>4. CASE DropRoleCheck(p)
  BY <1>4, <1>0, Zenon DEF DropRoleCheck
<1>5. CASE FixRoles(p)
  BY <1>5, <1>0, Zenon DEF FixRoles
<1>6. CASE AddRoleCheck(p)
  BY <1>6, <1>0, Zenon DEF AddRoleCheck, Exit
<1>7. CASE IndexByDate(p)
  BY <1>7, <1>0, Zenon DEF IndexByDate, Exit
<1>8. CASE AddType(p)
  BY <1>8, <1>0, Zenon DEF AddType
<1>9. CASE DropIndex(p)
  BY <1>9, <1>0, Zenon DEF DropIndex
<1>10. CASE IndexByType(p)
  BY <1>10, <1>0, Zenon DEF IndexByType, Exit
<1>11. CASE FindAdmin(p)
  BY <1>11, <1>0, Zenon DEF FindAdmin
<1>12. CASE SaveAdmin(p)
  BY <1>12, <1>0, Zenon DEF SaveAdmin, Exit
<1>13. CASE FindRoleEmployee(p)
  BY <1>13, <1>0, Zenon DEF FindRoleEmployee
<1>14. CASE SaveRoleEmployee(p)
  BY <1>14, <1>0, Zenon DEF SaveRoleEmployee, Exit
<1>15. CASE SaveRoleUser(p)
  BY <1>15, <1>0, Zenon DEF SaveRoleUser, Exit
<1>16. CASE LoadModel(p)
  BY <1>16, <1>0, Zenon DEF LoadModel
<1> QED
  BY <1>1, <1>2, <1>3, <1>4, <1>5, <1>6, <1>7, <1>8,
     <1>9, <1>10, <1>11, <1>12, <1>13, <1>14, <1>15, <1>16 DEF Step, Statement

\* A statement leaves behind what the next one counts on.
LEMMA StatementReaches ==
    ASSUME TypeOK, NEW p \in Processes, Step(p), Reached(p),
           \A t \in Types : active[t] <= 1
    PROVE  Reached(p)'
<1> USE DEF TypeOK, database, Goto, Step, Reached, FromModel, FromSaveHr, FromHr, FromAdmin, FromIndex, FromFixed, FromChecked
<1>0. ~Duplicates
  BY DEF Duplicates
<1>1. CASE CheckEnvironment(p)
  BY <1>1, <1>0 DEF CheckEnvironment
<1>2. CASE CreateExtension(p)
  BY <1>2, <1>0 DEF CreateExtension
<1>3. CASE ApplySchema(p)
  BY <1>3, <1>0 DEF ApplySchema, SchemaFails
<1>4. CASE DropRoleCheck(p)
  BY <1>4, <1>0 DEF DropRoleCheck
<1>5. CASE FixRoles(p)
  BY <1>5, <1>0 DEF FixRoles
<1>6. CASE AddRoleCheck(p)
  BY <1>6, <1>0 DEF AddRoleCheck, Exit
<1>7. CASE IndexByDate(p)
  BY <1>7, <1>0 DEF IndexByDate, Exit
<1>8. CASE AddType(p)
  BY <1>8, <1>0 DEF AddType
<1>9. CASE DropIndex(p)
  BY <1>9, <1>0 DEF DropIndex
<1>10. CASE IndexByType(p)
  BY <1>10, <1>0 DEF IndexByType, Exit
<1>11. CASE FindAdmin(p)
  BY <1>11, <1>0 DEF FindAdmin
<1>12. CASE SaveAdmin(p)
  BY <1>12, <1>0 DEF SaveAdmin, Exit
<1>13. CASE FindRoleEmployee(p)
  BY <1>13, <1>0 DEF FindRoleEmployee
<1>14. CASE SaveRoleEmployee(p)
  BY <1>14, <1>0 DEF SaveRoleEmployee, Exit
<1>15. CASE SaveRoleUser(p)
  BY <1>15, <1>0 DEF SaveRoleUser, Exit
<1>16. CASE LoadModel(p)
  BY <1>16, <1>0 DEF LoadModel
<1> QED
  BY <1>1, <1>2, <1>3, <1>4, <1>5, <1>6, <1>7, <1>8,
     <1>9, <1>10, <1>11, <1>12, <1>13, <1>14, <1>15, <1>16 DEF Step, Statement

-----------------------------------------------------------------------------
(* Every step keeps the invariant. *)

LEMMA TypeStep ==
    ASSUME TypeOK, AskedInv, [Next]_vars
    PROVE  TypeOK'
<1> USE DEF TypeOK, database, Goto, NoRequest
<1>1. ASSUME NEW p \in Processes, Start(p)
      PROVE  TypeOK'
  BY <1>1 DEF Start, Starting
<1>2. ASSUME NEW p \in Processes, Stop(p)
      PROVE  TypeOK'
  BY <1>2, MaxStopsAssumption DEF Stop, Drop
<1>3. ASSUME NEW p \in Processes, Step(p)
      PROVE  TypeOK'
  <2>1. pc' \in [Processes -> Starting \cup {"down", "serving"}]
    BY <1>3, StatementMoves DEF Points
  <2>2. existing' \in [Processes -> BOOLEAN]
    BY <1>3, StatementKeepsExisting
  <2>3. UNCHANGED <<settings, vector, asking, stops, overlapped, active>>
    BY <1>3, StatementKeepsTypes DEF Step
  <2> QED
    BY <1>3, <2>1, <2>2, <2>3, StatementKeepsTypes, StatementKeepsBooleans
<1>4. ASSUME NEW q \in Requests, FindActive(q)
      PROVE  TypeOK'
  BY <1>4 DEF FindActive
<1>5. ASSUME NEW q \in Requests, Insert(q)
      PROVE  TypeOK'
  <2>1. active' \in [Types -> Nat]
    BY <1>5 DEF Insert, AskedInv
  <2> QED
    BY <1>5, <2>1 DEF Insert
<1>6. ASSUME NEW t \in Types, Cancel(t)
      PROVE  TypeOK'
  BY <1>6 DEF Cancel
<1>7. CASE UNCHANGED vars
  BY <1>7 DEF vars
<1> QED
  BY <1>1, <1>2, <1>3, <1>4, <1>5, <1>6, <1>7 DEF Next

LEMMA AskedStep ==
    ASSUME TypeOK, AskedInv, [Next]_vars
    PROVE  AskedInv'
<1> USE NoneAssumption DEF TypeOK, database, Goto, NoRequest, AskedInv
<1>1. ASSUME NEW p \in Processes, Start(p)
      PROVE  AskedInv'
  BY <1>1 DEF Start
<1>2. ASSUME NEW p \in Processes, Stop(p)
      PROVE  AskedInv'
  BY <1>2 DEF Stop, Drop
<1>3. ASSUME NEW p \in Processes, Step(p)
      PROVE  AskedInv'
  <2>1. pc[p] # "serving" /\ asking' = asking /\ \A o \in Processes \ {p} : pc'[o] = pc[o]
    BY <1>3, StatementMoves DEF Points, Step, Starting
  <2> QED
    BY <2>1
<1>4. ASSUME NEW q \in Requests, FindActive(q)
      PROVE  AskedInv'
  BY <1>4 DEF FindActive
<1>5. ASSUME NEW q \in Requests, Insert(q)
      PROVE  AskedInv'
  BY <1>5 DEF Insert
<1>6. ASSUME NEW t \in Types, Cancel(t)
      PROVE  AskedInv'
  BY <1>6 DEF Cancel
<1>7. CASE UNCHANGED vars
  BY <1>7 DEF vars
<1> QED
  BY <1>1, <1>2, <1>3, <1>4, <1>5, <1>6, <1>7 DEF Next

LEMMA AloneStep ==
    ASSUME IInv, [Next]_vars
    PROVE  AloneInv'
<1> SUFFICES ASSUME ~overlapped'
             PROVE  AloneInv'
  BY DEF AloneInv
<1> USE DEF IInv, TypeOK, database, Goto, NoRequest
<1> DEFINE Sole == \A p, o \in Processes : pc[p] # "down" /\ pc[o] # "down" => p = o
           Once == \A t \in Types : active[t] <= 1
<1>1. ASSUME NEW p \in Processes, Start(p)
      PROVE  AloneInv'
  <2>1. /\ ~overlapped /\ \A o \in Processes \ {p} : pc[o] = "down"
        /\ pc' = [pc EXCEPT ![p] = "environment"]
        /\ UNCHANGED <<settings, database>>
    BY <1>1 DEF Start
  <2>2. \A o \in Processes : Reached(o)'
    BY <2>1 DEF Reached, FromModel, FromSaveHr, FromHr, FromAdmin, FromIndex, FromFixed, FromChecked
  <2> QED
    BY <2>1, <2>2 DEF AloneInv
<1>2. ASSUME NEW p \in Processes, Stop(p)
      PROVE  AloneInv'
  <2>1. ~overlapped /\ pc' = [pc EXCEPT ![p] = "down"] /\ UNCHANGED <<settings, database>>
    BY <1>2 DEF Stop
  <2>2. \A o \in Processes : Reached(o)'
    BY <2>1 DEF AloneInv, Reached, FromModel, FromSaveHr, FromHr, FromAdmin, FromIndex, FromFixed, FromChecked
  <2> QED
    BY <2>1, <2>2 DEF AloneInv
<1>3. ASSUME NEW p \in Processes, Step(p)
      PROVE  AloneInv'
  <2>1. ~overlapped /\ Sole /\ Once /\ Reached(p)
    BY <1>3 DEF Step, AloneInv
  <2>2. \A o \in Processes \ {p} : pc'[o] = pc[o]
    BY <1>3, StatementMoves DEF Points
  <2>3. pc[p] # "down" /\ active' = active
    BY <1>3, StatementMoves, StatementKeepsTypes DEF Points, Starting
  <2>4. \A o \in Processes \ {p} : pc'[o] = "down"
    BY <2>1, <2>2, <2>3
  <2>5. Reached(p)'
    BY <1>3, <2>1, StatementReaches
  <2>6. \A o \in Processes : Reached(o)'
    BY <2>4, <2>5 DEF Reached, FromModel, FromSaveHr, FromHr, FromAdmin, FromIndex, FromFixed, FromChecked
  <2> QED
    BY <2>1, <2>3, <2>4, <2>6 DEF AloneInv
<1>4. ASSUME NEW q \in Requests, FindActive(q)
      PROVE  AloneInv'
  BY <1>4 DEF FindActive, AloneInv, Reached
<1>5. ASSUME NEW q \in Requests, Insert(q)
      PROVE  AloneInv'
  <2> DEFINE p == asking[q].process
             u == asking[q].type
  <2>1. ~overlapped /\ p \in Processes /\ u \in Types /\ pc[p] = "serving"
    BY <1>5 DEF Insert, AskedInv
  <2>2. index = "type" /\ Once /\ Sole
    BY <2>1 DEF AloneInv, Reached, FromModel, FromSaveHr, FromHr, FromAdmin
  <2>3. active' = active \/ (active[u] = 0 /\ active' = [active EXCEPT ![u] = @ + 1])
    BY <1>5, <2>1, <2>2 DEF Insert
  <2>4. \A t \in Types : active'[t] <= 1
    BY <2>1, <2>2, <2>3
  <2>5. \A o \in Processes : Reached(o)'
    BY <1>5, <2>1 DEF Insert, AloneInv, Reached
  <2> QED
    BY <1>5, <2>2, <2>4, <2>5 DEF Insert, AloneInv
<1>6. ASSUME NEW t \in Types, Cancel(t)
      PROVE  AloneInv'
  <2>1. /\ ~overlapped /\ active' = [active EXCEPT ![t] = @ - 1]
        /\ UNCHANGED <<settings, pc, index, roleCheck, badRole, admin, hr, hrEmployee>>
    BY <1>6 DEF Cancel
  <2>2. \A u \in Types : active'[u] <= 1
    BY <2>1 DEF AloneInv
  <2> QED
    BY <2>1, <2>2 DEF AloneInv, Reached
<1>7. CASE UNCHANGED vars
  BY <1>7 DEF vars, AloneInv, Reached
<1> QED
  BY <1>1, <1>2, <1>3, <1>4, <1>5, <1>6, <1>7 DEF Next

-----------------------------------------------------------------------------
(* The theorems. *)

LEMMA Invariance == Spec => []IInv
<1>1. Init => IInv
  <2> SUFFICES ASSUME Init
               PROVE  IInv
    OBVIOUS
  <2>1. TypeOK
    <3>1. settings \in {"complete", "secretMissing", "modelMissing"} /\ vector \in BOOLEAN
      BY DEF Init
    <3>2. roleCheck \in BOOLEAN
      BY DEF Init
    <3>3. /\ tables \in {"none", "old", "new"} /\ index \in {"none", "date", "type"}
          /\ hr \in {"none", "stale", "linked"}
      BY DEF Init
    <3>4. badRole \in BOOLEAN /\ admin \in BOOLEAN /\ hrEmployee \in BOOLEAN
      BY DEF Init
    <3>5. /\ active \in [Types -> Nat]
          /\ pc \in [Processes -> Starting \cup {"down", "serving"}]
          /\ existing \in [Processes -> BOOLEAN]
          /\ asking \in [Requests -> [process : Processes \cup {None}, type : Types \cup {None}]]
      BY DEF Init, NoRequest
    <3>6. stops = 0 /\ overlapped \in BOOLEAN
      BY DEF Init
    <3>7. stops \in 0 .. MaxStops
      BY <3>6, MaxStopsAssumption
    <3> QED
      BY <3>1, <3>2, <3>3, <3>4, <3>5, <3>6, <3>7 DEF TypeOK
  <2>2. AskedInv
    BY DEF Init, AskedInv
  <2>3. AloneInv
    BY DEF Init, AloneInv, Reached, FromModel, FromSaveHr, FromHr, FromAdmin, FromIndex, FromFixed, FromChecked
  <2> QED
    BY <2>1, <2>2, <2>3 DEF IInv
<1>2. IInv /\ [Next]_vars => IInv'
  BY TypeStep, AskedStep, AloneStep DEF IInv
<1> QED
  BY <1>1, <1>2, PTL DEF Spec

\* The database, the statements of every process and the requests in flight keep
\* their types (DatabaseInitService, AuthService.onModuleInit).
THEOREM TypeCorrect == Spec => []TypeOK
<1>1. IInv => TypeOK
  BY DEF IInv
<1> QED
  BY <1>1, Invariance, PTL

\* Whatever database a start met and wherever earlier ones had stopped, what serves
\* alone has the unique index by type, the check on roles, its accounts, and no
\* two active requests of one kind (DatabaseInitService, AuthService.onModuleInit).
THEOREM ServedGuardedCorrect == Spec => []ServedGuarded
<1>1. IInv => ServedGuarded
  <2> SUFFICES ASSUME IInv, NEW p \in Processes, pc[p] = "serving", ~overlapped
               PROVE  /\ settings = "complete"
                      /\ index = "type" /\ ~Duplicates
                      /\ roleCheck /\ ~badRole /\ admin
                      /\ hr = "linked" /\ hrEmployee
    BY DEF ServedGuarded, Serving
  <2>1. Reached(p) /\ \A t \in Types : active[t] <= 1
    BY DEF IInv, AloneInv
  <2>2. ~Duplicates
    BY <2>1 DEF IInv, TypeOK, Duplicates
  <2> QED
    BY <2>1, <2>2 DEF Reached, FromModel, FromSaveHr, FromHr, FromAdmin, FromIndex, FromFixed, FromChecked
<1> QED
  BY <1>1, Invariance, PTL
=============================================================================
