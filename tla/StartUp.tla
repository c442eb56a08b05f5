------------------------------ MODULE StartUp ------------------------------
(***************************************************************************)
(* The start of the API process: the checks of the environment, the schema *)
(* and the migrations DatabaseInitService applies statement by statement,  *)
(* the bootstrap administrator, the face model, and then the requests that *)
(* are checked and inserted under the unique index the start has built.    *)
(*                                                                         *)
(* No transaction holds a start together: a process may stop after any     *)
(* statement, and a second one may start beside it.  Of the tables, what   *)
(* statements of two processes can disagree about is kept: the check on    *)
(* users.role, and the unique index over the active regularization         *)
(* requests of one employee and one day.                                   *)
(***************************************************************************)
EXTENDS Integers

CONSTANTS
    Processes,   \* processes of the API on one database
    Types,       \* regularization request types
    Requests,    \* POST /regularization requests, two of which may overlap
    MaxStops,    \* bound: how often a process is stopped
    None

ASSUME NoneAssumption == None \notin Processes \cup Types

ASSUME MaxStopsAssumption == MaxStops \in Nat

VARIABLES
    settings,    \* what the environment of every process holds
    vector,      \* the server has the pgvector extension
    tables,      \* the schema: none yet, before request_type, or with it
    roleCheck,   \* users_role_check is there
    badRole,     \* a users row has a role of an old release
    index,       \* columns of wfh_requests_active_uniq
    admin,       \* the bootstrap administrator has an account
    hr,          \* the HR account: none, with an old link or role, or as it should be
    hrEmployee,  \* employee EMPHR has a row
    active,      \* pending and approved requests of the day, by type
    pc,          \* the statement a process is about to run
    existing,    \* the HR account a process found
    asking,      \* a request that found no active one: its process and type
    stops,       \* processes stopped so far
    overlapped   \* history: a process started while another one was up

database == <<tables, roleCheck, badRole, index, admin, hr, hrEmployee, active>>
vars == <<settings, vector, database, pc, existing, asking, stops, overlapped>>

Starting == {"environment", "extension", "schema", "fallback", "dropRoleCheck",
             "fixRoles", "dropRoleCheckAgain", "addRoleCheck", "indexByDate",
             "addType", "dropIndex", "indexByType", "findAdmin", "saveAdmin",
             "findHr", "findHrEmployee", "saveHrEmployee", "saveHr", "model"}

NoRequest == [process |-> None, type |-> None]

TypeOK ==
    /\ settings \in {"complete", "secretMissing", "modelMissing"}
    /\ vector \in BOOLEAN
    /\ tables \in {"none", "old", "new"}
    /\ roleCheck \in BOOLEAN
    /\ badRole \in BOOLEAN
    /\ index \in {"none", "date", "type"}
    /\ admin \in BOOLEAN
    /\ hr \in {"none", "stale", "linked"}
    /\ hrEmployee \in BOOLEAN
    /\ active \in [Types -> Nat]
    /\ pc \in [Processes -> Starting \cup {"down", "serving"}]
    /\ existing \in [Processes -> BOOLEAN]
    /\ asking \in [Requests -> [process : Processes \cup {None}, type : Types \cup {None}]]
    /\ stops \in 0 .. MaxStops
    /\ overlapped \in BOOLEAN

\* An empty database, one of the release before request_type, or a current one.
Init ==
    /\ settings \in {"complete", "secretMissing", "modelMissing"}
    /\ vector \in BOOLEAN
    /\ tables \in {"none", "old", "new"}
    /\ roleCheck = (tables = "new")
    /\ \/ tables = "none" /\ index = "none" /\ badRole = FALSE /\ admin = FALSE
          /\ hr = "none" /\ hrEmployee = FALSE
       \/ tables = "old" /\ index = "date" /\ badRole \in BOOLEAN /\ admin \in BOOLEAN
          /\ hr \in {"none", "stale"} /\ hrEmployee \in BOOLEAN
       \/ tables = "new" /\ index = "type" /\ badRole = FALSE /\ admin = TRUE
          /\ hr = "linked" /\ hrEmployee = TRUE
    /\ active = [t \in Types |-> 0]
    /\ pc = [p \in Processes |-> "down"]
    /\ existing = [p \in Processes |-> FALSE]
    /\ asking = [q \in Requests |-> NoRequest]
    /\ stops = 0
    /\ overlapped = FALSE

Duplicates == \E t \in Types : active[t] > 1

SameDay == \E t, u \in Types : t # u /\ active[t] > 0 /\ active[u] > 0

Goto(p, step) == pc' = [pc EXCEPT ![p] = step]

\* The requests a process was answering are lost with it.
Drop(p) == asking' = [q \in Requests |-> IF asking[q].process = p THEN NoRequest ELSE asking[q]]

-----------------------------------------------------------------------------
(* Processes *)

\* The container runs: restart: unless-stopped.
Start(p) ==
    /\ pc[p] = "down"
    /\ Goto(p, "environment")
    /\ overlapped' = (overlapped \/ \E o \in Processes \ {p} : pc[o] # "down")
    /\ UNCHANGED <<settings, vector, database, existing, asking, stops>>

Stop(p) ==
    /\ pc[p] # "down"
    /\ stops < MaxStops
    /\ stops' = stops + 1
    /\ Goto(p, "down")
    /\ existing' = [existing EXCEPT ![p] = FALSE]
    /\ Drop(p)
    /\ UNCHANGED <<settings, vector, database, overlapped>>

\* A statement throws out of the start, and the process exits.
Exit(p) == Goto(p, "down") /\ UNCHANGED database

-----------------------------------------------------------------------------
(* bootstrap and DatabaseInitService.applySchema, in order *)

\* assertSecretsConfigured, before anything connects; in production that asks
\* for the administrator's password too.
CheckEnvironment(p) ==
    /\ pc[p] = "environment"
    /\ Goto(p, IF settings = "secretMissing" THEN "down" ELSE "extension")
    /\ UNCHANGED database

\* CREATE EXTENSION IF NOT EXISTS vector
CreateExtension(p) ==
    /\ pc[p] = "extension"
    /\ Goto(p, IF vector THEN "schema" ELSE "fallback")
    /\ UNCHANGED database

\* The last statement of both files, which runs before request_type is added
\* to an old table: it finds the name taken there.
SchemaFails == index = "none" /\ (Duplicates \/ tables = "old")

\* CREATE ... IF NOT EXISTS; the tables of a new database have their checks.
ApplySchema(p) ==
    /\ pc[p] \in {"schema", "fallback"}
    /\ IF SchemaFails
       THEN Goto(p, IF pc[p] = "schema" THEN "fallback" ELSE "down") /\ UNCHANGED database
       ELSE /\ Goto(p, "dropRoleCheck")
            /\ tables' = IF tables = "none" THEN "new" ELSE tables
            /\ roleCheck' = (roleCheck \/ tables = "none")
            /\ index' = IF index = "none" THEN "type" ELSE index
            /\ UNCHANGED <<badRole, admin, hr, hrEmployee, active>>

DropRoleCheck(p) ==
    /\ pc[p] \in {"dropRoleCheck", "dropRoleCheckAgain"}
    /\ roleCheck' = FALSE
    /\ Goto(p, IF pc[p] = "dropRoleCheck" THEN "fixRoles" ELSE "addRoleCheck")
    /\ UNCHANGED <<tables, badRole, index, admin, hr, hrEmployee, active>>

\* Slip: the roles of old releases are left as they are.
KeepRoles(p) ==
    /\ pc[p] = "fixRoles"
    /\ Goto(p, "dropRoleCheckAgain")
    /\ UNCHANGED database

FixRoles(p) ==
    /\ pc[p] = "fixRoles"
    /\ badRole' = FALSE
    /\ Goto(p, "dropRoleCheckAgain")
    /\ UNCHANGED <<tables, roleCheck, index, admin, hr, hrEmployee, active>>

\* The one ADD CONSTRAINT whose "already exists" is not caught.
AddRoleCheck(p) ==
    /\ pc[p] = "addRoleCheck"
    /\ IF roleCheck \/ badRole
       THEN Exit(p)
       ELSE /\ roleCheck' = TRUE
            /\ Goto(p, "indexByDate")
            /\ UNCHANGED <<tables, badRole, index, admin, hr, hrEmployee, active>>

\* migrateWfhRegularization: the index of the release before request_type.
IndexByDate(p) ==
    /\ pc[p] = "indexByDate"
    /\ IF index # "none"
       THEN Goto(p, "addType") /\ UNCHANGED database
       ELSE IF Duplicates \/ SameDay
       THEN Exit(p)
       ELSE /\ index' = "date"
            /\ Goto(p, "addType")
            /\ UNCHANGED <<tables, roleCheck, badRole, admin, hr, hrEmployee, active>>

\* migrateRegularizationRequestType
AddType(p) ==
    /\ pc[p] = "addType"
    /\ tables' = "new"
    /\ Goto(p, "dropIndex")
    /\ UNCHANGED <<roleCheck, badRole, index, admin, hr, hrEmployee, active>>

\* Slip: the index of the older release is kept.
KeepIndex(p) ==
    /\ pc[p] = "dropIndex"
    /\ Goto(p, "indexByType")
    /\ UNCHANGED database

DropIndex(p) ==
    /\ pc[p] = "dropIndex"
    /\ index' = "none"
    /\ Goto(p, "indexByType")
    /\ UNCHANGED <<tables, roleCheck, badRole, admin, hr, hrEmployee, active>>

IndexByType(p) ==
    /\ pc[p] = "indexByType"
    /\ IF index # "none"
       THEN Goto(p, "findAdmin") /\ UNCHANGED database
       ELSE IF Duplicates
       THEN Exit(p)
       ELSE /\ index' = "type"
            /\ Goto(p, "findAdmin")
            /\ UNCHANGED <<tables, roleCheck, badRole, admin, hr, hrEmployee, active>>

-----------------------------------------------------------------------------
(* AuthService.onModuleInit, EmbeddingsService.onModuleInit *)

FindAdmin(p) ==
    /\ pc[p] = "findAdmin"
    /\ Goto(p, IF admin THEN "findHr" ELSE "saveAdmin")
    /\ UNCHANGED database

\* The e-mail is unique.
SaveAdmin(p) ==
    /\ pc[p] = "saveAdmin"
    /\ IF admin
       THEN Exit(p)
       ELSE /\ admin' = TRUE
            /\ Goto(p, "findHr")
            /\ UNCHANGED <<tables, roleCheck, badRole, index, hr, hrEmployee, active>>

\* ensureRoleUser, for the one account of its kind the model keeps.
FindRoleEmployee(p) ==
    /\ pc[p] \in {"findHr", "findHrEmployee"}
    /\ existing' = [existing EXCEPT ![p] = IF pc[p] = "findHr" THEN hr # "none" ELSE @]
    /\ Goto(p, IF pc[p] = "findHr" THEN "findHrEmployee"
               ELSE IF hrEmployee THEN "saveHr" ELSE "saveHrEmployee")
    /\ UNCHANGED database

\* The code of an employee is unique.
SaveRoleEmployee(p) ==
    /\ pc[p] = "saveHrEmployee"
    /\ IF hrEmployee
       THEN Exit(p)
       ELSE /\ hrEmployee' = TRUE
            /\ Goto(p, "saveHr")
            /\ UNCHANGED <<tables, roleCheck, badRole, index, admin, hr, active>>

\* Mends the role and the link of an account that was there, or inserts one:
\* the e-mail is unique.
SaveRoleUser(p) ==
    /\ pc[p] = "saveHr"
    /\ existing' = [existing EXCEPT ![p] = FALSE]
    /\ IF ~existing[p] /\ hr # "none"
       THEN Exit(p)
       ELSE /\ hr' = "linked"
            /\ Goto(p, "model")
            /\ UNCHANGED <<tables, roleCheck, badRole, index, admin, hrEmployee, active>>

\* Production refuses to serve without the ONNX model; then the port is opened.
LoadModel(p) ==
    /\ pc[p] = "model"
    /\ Goto(p, IF settings = "modelMissing" THEN "down" ELSE "serving")
    /\ UNCHANGED database

Statement(p) ==
    /\ \/ CheckEnvironment(p) \/ CreateExtension(p) \/ ApplySchema(p)
       \/ DropRoleCheck(p) \/ FixRoles(p) \/ AddRoleCheck(p)
       \/ IndexByDate(p) \/ AddType(p) \/ DropIndex(p) \/ IndexByType(p)
       \/ FindAdmin(p) \/ SaveAdmin(p) \/ SaveRoleEmployee(p) \/ LoadModel(p)
    /\ UNCHANGED existing

Step(p) ==
    /\ Statement(p) \/ FindRoleEmployee(p) \/ SaveRoleUser(p)
    /\ UNCHANGED <<settings, vector, asking, stops, overlapped>>

-----------------------------------------------------------------------------
(* RegularizationService.create and cancel, in a process that serves *)

\* The SELECT for an active request of the same type.
FindActive(q) ==
    /\ asking[q] = NoRequest
    /\ \E p \in Processes, t \in Types :
        /\ pc[p] = "serving"
        /\ active[t] = 0
        /\ asking' = [asking EXCEPT ![q] = [process |-> p, type |-> t]]
    /\ UNCHANGED <<settings, vector, database, pc, existing, stops, overlapped>>

\* The INSERT, as far as the index allows it.
Insert(q) ==
    /\ asking[q] # NoRequest
    /\ asking' = [asking EXCEPT ![q] = NoRequest]
    /\ IF \/ index = "type" /\ active[asking[q].type] > 0
          \/ index = "date" /\ \E t \in Types : active[t] > 0
       THEN UNCHANGED active
       ELSE active' = [active EXCEPT ![asking[q].type] = @ + 1]
    /\ UNCHANGED <<settings, vector, tables, roleCheck, badRole, index, admin, hr, hrEmployee, pc, existing,
                   stops, overlapped>>

Cancel(t) ==
    /\ \E p \in Processes : pc[p] = "serving"
    /\ active[t] > 0
    /\ active' = [active EXCEPT ![t] = @ - 1]
    /\ UNCHANGED <<settings, vector, tables, roleCheck, badRole, index, admin, hr, hrEmployee, pc, existing,
                   asking, stops, overlapped>>

-----------------------------------------------------------------------------

Next ==
    \/ \E p \in Processes : Start(p) \/ Stop(p) \/ Step(p)
    \/ \E q \in Requests : FindActive(q) \/ Insert(q)
    \/ \E t \in Types : Cancel(t)

Spec == Init /\ [][Next]_vars

\* A stopped container is started again, and a start that nothing stops goes
\* on.  Which of the processes the restart policy keeps up is left open.
FairSpec ==
    /\ Spec
    /\ WF_vars(\E p \in Processes : Start(p) /\ \A o \in Processes : pc[o] = "down")
    /\ \A p \in Processes : WF_vars(Step(p))

-----------------------------------------------------------------------------
(* Properties *)

Serving == \E p \in Processes : pc[p] = "serving"

\* What serves has the guards its handlers rely on: the index by type, the
\* check on roles, its accounts, and no two active requests of one kind,
\* whatever the database was before and wherever earlier starts had stopped.
\* A second process that starts meanwhile takes them away (dropped and built
\* again statement by statement).
ServedGuarded ==
    Serving /\ ~overlapped =>
        /\ settings = "complete"
        /\ index = "type" /\ ~Duplicates
        /\ roleCheck /\ ~badRole
        /\ admin
        /\ hr = "linked" /\ hrEmployee

\* A start that was stopped after any statement is made good by the next one:
\* the API comes to serve again, unless two processes ran beside each other
\* (CREATE ... IF NOT EXISTS, DROP ... IF EXISTS, ADD CONSTRAINT).
StartsAgain ==
    settings = "complete" => []<>(overlapped \/ Serving)
=============================================================================
