--------------------------- MODULE Identification ---------------------------
(***************************************************************************)
(* Face identification: what RecognitionService.identify and verify answer *)
(* to a live photograph, while administrators create, edit, enrol, reset   *)
(* and remove the employees it is compared with.  Every query a probe      *)
(* awaits is a step of its own; the enrollment requests, whose own steps   *)
(* are in module Enrollment, are one step each here.                       *)
(*                                                                         *)
(* An embedding is known by the way it was computed, its kind: with the    *)
(* ONNX model or with the prototype that stands in for it.  Two embeddings *)
(* are similar when they show one person and have one kind: the accuracy   *)
(* of the recogniser is assumed, what is built on it is the subject here.  *)
(***************************************************************************)
EXTENDS Integers, FiniteSets

CONSTANTS
    People,      \* the faces in front of a camera
    Employees,   \* employee ids, each used at most once (a UUID)
    PersonOf,    \* the person an id is given to
    Codes,       \* employee codes, and CompreFace subjects
    Poses,       \* REQUIRED_ENROLL_POSES
    Callers,     \* tokens: a device, or a user [role, employee]
    Probes,      \* one element per identification in flight
    Updates,     \* one element per PATCH /employees in flight
    None

ASSUME PersonAssumption == PersonOf \in [Employees -> People]

ASSUME CallersAssumption ==
    Callers \subseteq [role : {"device", "admin", "bu", "employee"},
                       employee : Employees \cup {None}]

ASSUME ProbesAssumption == IsFiniteSet(Probes)

ASSUME NoneAssumption == None \notin Employees \cup Codes \cup People \cup Updates

VARIABLES
    provider,   \* recognition.provider
    model,      \* EmbeddingsService.session is there
    status,     \* employees: the status of a row
    code,       \* its code, which outlives it here
    tpl,        \* face_templates: the kind of each pose's embedding
    subjects,   \* the people whose photographs CompreFace keeps for a code
    pc,         \* the query a probe awaits
    ask,        \* what it was asked
    found,      \* the best match so far
    answer,     \* what it answered
    counters,   \* RecognitionService.metrics
    edit,       \* the entity an update read, with its changes
    gone,       \* history: ids that were removed
    wanted,     \* history: the status last asked for, "any" once an update
                \* wrote over another change or was overtaken by one
    inherited,  \* history: ids created, or brought back by an update, under a
                \* code that a removed one had
    moved       \* history: employees changed since a probe began

rows    == <<status, code, tpl, subjects>>
probing == <<pc, ask, found, answer, counters>>
history == <<gone, wanted, inherited, moved>>
identifyVars == <<provider, model, rows, probing, edit, history>>

Kinds  == {"model", "prototype"}
Routes == {"identify", "kiosk", "verify"}

NoAsk    == [who |-> None, bound |-> None, input |-> "short", live |-> FALSE]
NoMatch  == [emp |-> None, similar |-> FALSE, via |-> "table"]
NoAnswer == [ok |-> FALSE, reason |-> "none", emp |-> None]

Blank == [p \in Poses |-> "none"]

Staff    == {e \in Employees : status[e] # "absent"}
Active   == {e \in Employees : status[e] = "active"}
Enrolled == {e \in Employees : tpl[e] # Blank}

\* buildEnrollmentStatus: a sample of every required pose.
Complete(e) == \A p \in Poses : tpl[e][p] # "none"

NoEdit == [emp |-> None, code |-> None, status |-> "absent", asked |-> FALSE]

NoCount == [c \in {"total", "accepted", "rejected"} |-> 0]

IdentifyInit ==
    /\ provider \in {"internal", "compreface"}
    /\ model \in BOOLEAN
    /\ status = [e \in Employees |-> "absent"]
    /\ code = [e \in Employees |-> None]
    /\ tpl = [e \in Employees |-> Blank]
    /\ subjects = [c \in Codes |-> {}]
    /\ pc = [r \in Probes |-> "idle"]
    /\ ask = [r \in Probes |-> NoAsk]
    /\ found = [r \in Probes |-> NoMatch]
    /\ answer = [r \in Probes |-> NoAnswer]
    /\ counters = NoCount
    /\ edit = [u \in Updates |-> NoEdit]
    /\ gone = {}
    /\ wanted = [e \in Employees |-> "absent"]
    /\ inherited = {}
    /\ moved = [r \in Probes |-> {}]

InFlight(r) == pc[r] \notin {"idle", "answered", "failed"}

\* Probes in flight and accepted ones remember that employee e changed.
Moves(e) == moved' = [r \in Probes |-> IF InFlight(r) \/ answer[r].ok
                                      THEN moved[r] \cup {e} ELSE {}]

\* The row of e has the status s asked for, unless an update other than u
\* holds what it read of e, or one was overtaken before.
Asked(u, e, s) ==
    wanted' = IF wanted[e] = "any" \/ \E v \in Updates \ {u} : edit[v].emp = e
              THEN [wanted EXCEPT ![e] = "any"] ELSE [wanted EXCEPT ![e] = s]

-----------------------------------------------------------------------------
(* Administration *)

\* EmployeesService.create: the unique index refuses a code in use, not one
\* that a removed employee had.
Create(e) ==
    /\ status[e] = "absent" /\ e \notin gone
    /\ \E c \in Codes \ {code[f] : f \in Staff}, s \in {"active", "inactive"} :
        /\ code' = [code EXCEPT ![e] = c]
        /\ status' = [status EXCEPT ![e] = s]
        /\ wanted' = [wanted EXCEPT ![e] = s]
        /\ inherited' = IF \E f \in gone : code[f] = c THEN inherited \cup {e} ELSE inherited
    /\ Moves(e)
    /\ UNCHANGED <<provider, model, tpl, subjects, probing, edit, gone>>

\* EmployeesService.remove: the rows cascade, the CompreFace subject stays.
Remove(e) ==
    /\ e \in Staff
    /\ status' = [status EXCEPT ![e] = "absent"]
    /\ tpl' = [tpl EXCEPT ![e] = Blank]
    /\ gone' = gone \cup {e}
    /\ Asked(None, e, "absent")
    /\ Moves(e)
    /\ UNCHANGED <<provider, model, code, subjects, probing, edit, inherited>>

\* Slip: the entity is built from the id of the request, without get(id).
ReadUpsert(u) ==
    /\ edit[u] = NoEdit
    /\ \E e \in Employees, c \in Codes :
        edit' = [edit EXCEPT ![u] = [emp |-> e, code |-> c, status |-> "active", asked |-> FALSE]]
    /\ UNCHANGED <<provider, model, rows, probing, history>>

\* EmployeesService.update up to the checks of the manager and the owner: the
\* entity is read, and the status of the request, if it names one, put in it.
ReadEntity(u) ==
    /\ edit[u] = NoEdit
    /\ \E e \in Staff, s \in {"active", "inactive"}, asked \in BOOLEAN :
        /\ ~asked => s = status[e]
        /\ edit' = [edit EXCEPT ![u] =
                       [emp |-> e, code |-> code[e], status |-> s, asked |-> asked]]
    /\ UNCHANGED <<provider, model, rows, probing, history>>

\* repo.save writes every column that differs from the row, and inserts the
\* row when it is not there any more.  The unique index may refuse that.
SaveEntity(u) ==
    LET e == edit[u].emp IN
    /\ edit[u] # NoEdit
    /\ edit' = [edit EXCEPT ![u] = NoEdit]
    /\ IF \E f \in Staff \ {e} : code[f] = edit[u].code
       THEN UNCHANGED <<rows, wanted, inherited, moved>>
       ELSE /\ status' = [status EXCEPT ![e] = edit[u].status]
            /\ code' = [code EXCEPT ![e] = edit[u].code]
            /\ Asked(u, e, IF edit[u].asked THEN edit[u].status ELSE wanted[e])
            /\ inherited' = IF e \notin Staff /\ \E f \in gone \ {e} : code[f] = edit[u].code
                            THEN inherited \cup {e} ELSE inherited
            /\ Moves(e)
            /\ UNCHANGED <<tpl, subjects>>
    /\ UNCHANGED <<provider, model, probing, gone>>

\* assertEnrollAccess: an administrator manages any face, everybody else the own.
MayEnroll(c, e) == c.role # "device" /\ (c.role = "admin" \/ c.employee = e)

\* TemplatesService.enroll: a photograph of the employee, for one pose.
Enroll(e) ==
    /\ e \in Staff
    /\ \E c \in Callers : MayEnroll(c, e)
    /\ \E p \in Poses : tpl' = [tpl EXCEPT ![e][p] = IF model THEN "model" ELSE "prototype"]
    /\ subjects' = IF provider = "compreface"
                   THEN [subjects EXCEPT ![code[e]] = @ \cup {PersonOf[e]}] ELSE subjects
    /\ Moves(e)
    /\ UNCHANGED <<provider, model, status, code, probing, edit, gone, wanted, inherited>>

\* TemplatesService.reset
Reset(e) ==
    /\ e \in Staff
    /\ \E c \in Callers : MayEnroll(c, e)
    /\ tpl' = [tpl EXCEPT ![e] = Blank]
    /\ subjects' = IF provider = "compreface"
                   THEN [subjects EXCEPT ![code[e]] = {}] ELSE subjects
    /\ Moves(e)
    /\ UNCHANGED <<provider, model, status, code, probing, edit, gone, wanted, inherited>>

-----------------------------------------------------------------------------
(* A probe: the attend/identify, attend/kiosk and attend/verify handlers *)

Goto(r, step) == pc' = [pc EXCEPT ![r] = step]

Count(c) == counters' = [counters EXCEPT ![c] = @ + 1]

\* boundClockInEmployeeId throws for a login without an employee, unless it is
\* an administrator's.
MayProbe(c) == c.employee # None \/ c.role \in {"device", "admin", "bu"}

Bound(c) == IF c.role = "device" THEN None ELSE c.employee

\* The employees each handler may compare the face with; None is everybody.
IdentifyTargets(c) == IF MayProbe(c) THEN {Bound(c)} ELSE {}

KioskTargets(c) == {None}

VerifyTargets(c) ==
    IF MayProbe(c) THEN {e \in Employees : Bound(c) \in {e, None}} ELSE {}

Targets(route, c) ==
    CASE route = "identify" -> IdentifyTargets(c)
      [] route = "kiosk"    -> KioskTargets(c)
      [] route = "verify"   -> VerifyTargets(c)

\* An embedding the caller computed comes without a photograph here.
Begin(r) ==
    /\ pc[r] = "idle"
    /\ \E route \in Routes, c \in Callers, who \in People,
          input \in {"photo", "embedding", "short"}, live \in BOOLEAN :
       \E bound \in Targets(route, c) :
        /\ route = "verify" => input = "photo"
        /\ IF route = "verify" THEN UNCHANGED counters ELSE Count("total")
        /\ IF input = "short"
           THEN /\ answer' = [answer EXCEPT ![r].reason = "missing_image"]
                /\ Goto(r, "answered")
                /\ UNCHANGED ask
           ELSE /\ ask' = [ask EXCEPT ![r] = [who |-> who, input |-> input,
                                              live |-> live, bound |-> bound]]
                /\ Goto(r, IF bound # None THEN "employee"
                           ELSE IF provider = "compreface" THEN "recognize" ELSE "search")
                /\ UNCHANGED answer
    /\ UNCHANGED <<provider, model, rows, found, edit, history>>

\* The locals of the handler end with it; history keeps what an accepted probe
\* was asked, and whom a change has reached since.
Forget(r, ok) ==
    /\ ask' = IF ok THEN ask ELSE [ask EXCEPT ![r] = NoAsk]
    /\ found' = [found EXCEPT ![r] = NoMatch]
    /\ moved' = IF ok THEN moved ELSE [moved EXCEPT ![r] = {}]

\* A query throws, the frame is too dark, or the client gives up.
ProbeFails(r) ==
    /\ InFlight(r)
    /\ Goto(r, "failed")
    /\ answer' = [answer EXCEPT ![r] = NoAnswer]
    /\ Forget(r, FALSE)
    /\ UNCHANGED <<provider, model, rows, counters, edit, gone, wanted, inherited>>

Answer(r, ok, reason, emp) ==
    /\ answer' = [answer EXCEPT ![r] = [ok |-> ok, reason |-> reason, emp |-> emp]]
    /\ Goto(r, "answered")
    /\ Forget(r, ok)

Candidate(r, e, similar, via) ==
    found' = [found EXCEPT ![r] = [emp |-> e, similar |-> similar, via |-> via]]

\* identifyBound reads the employee first.
FindEmployee(r) ==
    /\ pc[r] = "employee"
    /\ IF ask[r].bound \in Active
       THEN Goto(r, "search") /\ UNCHANGED <<ask, found, answer, counters, moved>>
       ELSE Answer(r, FALSE, "employee_not_found", None) /\ Count("rejected")
    /\ UNCHANGED <<provider, model, rows, edit, gone, wanted, inherited>>

\* CompreFace: the subject that looks most like the photograph, or null when
\* it knows no face, fails, or gets no photograph.
Recognize(r) ==
    /\ pc[r] = "recognize"
    /\ \/ Goto(r, "search") /\ UNCHANGED found
       \/ \E c \in Codes :
            LET known == {d \in Codes : ask[r].who \in subjects[d]} IN
            /\ ask[r].input = "photo"
            /\ subjects[c] # {}
            /\ known # {} => c \in known
            /\ Candidate(r, c, c \in known, "subject")
            /\ Goto(r, "subject")
    /\ UNCHANGED <<provider, model, rows, ask, answer, counters, edit, history>>

\* The active employee who has the code now.
FindSubject(r) ==
    /\ pc[r] = "subject"
    /\ \/ \E e \in Active : /\ code[e] = found[r].emp
                            /\ Candidate(r, e, found[r].similar, "subject")
                            /\ Goto(r, "status")
       \/ /\ \A e \in Active : code[e] # found[r].emp
          /\ found' = [found EXCEPT ![r] = NoMatch]
          /\ Goto(r, "search")
    /\ UNCHANGED <<provider, model, rows, ask, answer, counters, edit, history>>

ProbeKind(r) == IF model \/ ask[r].input = "embedding" THEN "model" ELSE "prototype"

LooksLike(r, e) ==
    PersonOf[e] = ask[r].who /\ \E p \in Poses : tpl[e][p] = ProbeKind(r)

\* Slip: the search for one employee loses its employee_id condition.
SearchAll(r) ==
    /\ pc[r] = "search"
    /\ LET pool  == Active \cap Enrolled
           alike == {e \in pool : LooksLike(r, e)}
       IN  \/ \E e \in pool : /\ alike # {} => e \in alike
                              /\ Candidate(r, e, e \in alike, "table")
           \/ pool = {} /\ UNCHANGED found
    /\ Goto(r, "status")
    /\ UNCHANGED <<provider, model, rows, ask, answer, counters, edit, history>>

\* search: the nearest template of an active employee, of the bound one if
\* there is one, by pgvector or, when that is off or throws, in memory.
\* Nobody at all ends an unbound probe.
Search(r) ==
    /\ pc[r] = "search"
    /\ LET pool  == {e \in Active \cap Enrolled : ask[r].bound \in {e, None}}
           alike == {e \in pool : LooksLike(r, e)}
       IN  \/ \E e \in pool : /\ alike # {} => e \in alike
                              /\ Candidate(r, e, e \in alike, "table")
                              /\ Goto(r, "status")
                              /\ UNCHANGED <<ask, answer, counters, moved>>
           \/ /\ pool = {} /\ ask[r].bound # None
              /\ Goto(r, "status")
              /\ UNCHANGED <<ask, found, answer, counters, moved>>
           \/ /\ pool = {} /\ ask[r].bound = None
              /\ Answer(r, FALSE, "no_templates", None)
              /\ Count("rejected")
    /\ UNCHANGED <<provider, model, rows, edit, gone, wanted, inherited>>

\* enrollmentBlockReason, of the candidate or of the bound employee.
BlockReason(e) ==
    IF e \notin Enrolled THEN "no_templates"
    ELSE IF ~Complete(e) THEN "enrollment_incomplete" ELSE "none"

\* Why a probe that nothing blocks is refused.
Refusal(r) ==
    LET far == IF ask[r].bound = None THEN "low_similarity" ELSE "identity_mismatch" IN
    IF found[r].emp = None THEN "no_templates"
    ELSE IF ~found[r].similar /\ (found[r].via = "subject" \/ ask[r].live) THEN far
    ELSE IF ~ask[r].live THEN "low_liveness" ELSE "none"

\* The employee a verdict is about.
Subject(r) == IF ask[r].bound = None THEN found[r].emp ELSE ask[r].bound

\* A verdict whose templates are looked at once more, for the legacy reason.
Rechecks(r) ==
    /\ model
    /\ BlockReason(Subject(r)) = "none"
    /\ found[r].emp # None
    /\ found[r].via = "table"
    /\ ask[r].bound = None => Refusal(r) = "low_similarity"

\* Slip: the enrollment is not looked at.
JudgeUnblocked(r) ==
    LET ok == found[r].emp # None /\ found[r].similar /\ ask[r].live IN
    /\ pc[r] = "status"
    /\ Count(IF ok THEN "accepted" ELSE "rejected")
    /\ Answer(r, ok, Refusal(r), IF ok THEN found[r].emp ELSE None)
    /\ UNCHANGED <<provider, model, rows, edit, gone, wanted, inherited>>

\* Slip: an accepted probe is counted after the last query.
JudgeUncounted(r) ==
    LET blocked == BlockReason(Subject(r))
        ok      == /\ found[r].emp # None /\ found[r].similar
                   /\ blocked = "none" /\ ask[r].live
    IN
    /\ pc[r] = "status"
    /\ IF Rechecks(r) THEN UNCHANGED counters ELSE Count(IF ok THEN "accepted" ELSE "rejected")
    /\ Answer(r, ok, IF blocked = "none" THEN Refusal(r) ELSE blocked,
              IF ok THEN found[r].emp ELSE None)
    /\ UNCHANGED <<provider, model, rows, edit, gone, wanted, inherited>>

\* enrollmentBlockReason and the verdict, which is counted at once.
Judge(r) ==
    LET blocked == BlockReason(Subject(r))
        ok      == /\ found[r].emp # None /\ found[r].similar
                   /\ blocked = "none" /\ ask[r].live
        emp     == IF ok THEN found[r].emp ELSE None
    IN
    /\ pc[r] = "status"
    /\ Count(IF ok THEN "accepted" ELSE "rejected")
    /\ IF Rechecks(r)
       THEN /\ Goto(r, "legacy")
            /\ answer' = [answer EXCEPT ![r].ok = ok, ![r].emp = emp]
            /\ UNCHANGED <<ask, found, moved>>
       ELSE Answer(r, ok, IF blocked = "none" THEN Refusal(r) ELSE blocked, emp)
    /\ UNCHANGED <<provider, model, rows, edit, gone, wanted, inherited>>

\* isLegacyTemplate of every template: enrolled before there was a model.
Legacy(e) == e \in Enrolled /\ \A p \in Poses : tpl[e][p] # "model"

CheckLegacy(r) ==
    /\ pc[r] = "legacy"
    /\ Answer(r, answer[r].ok,
              IF Legacy(Subject(r)) THEN "re_enroll_required" ELSE Refusal(r), answer[r].emp)
    /\ UNCHANGED <<provider, model, rows, counters, edit, gone, wanted, inherited>>

\* The process restarts, and may find the ONNX model now: what was in flight
\* and the metrics, kept in memory, are lost.
Restart ==
    /\ model' \in BOOLEAN
    /\ pc' = [r \in Probes |-> "idle"]
    /\ ask' = [r \in Probes |-> NoAsk]
    /\ found' = [r \in Probes |-> NoMatch]
    /\ answer' = [r \in Probes |-> NoAnswer]
    /\ counters' = NoCount
    /\ edit' = [u \in Updates |-> NoEdit]
    /\ moved' = [r \in Probes |-> {}]
    /\ UNCHANGED <<provider, rows, gone, wanted, inherited>>

-----------------------------------------------------------------------------

Probe(r) ==
    \/ Begin(r) \/ ProbeFails(r)
    \/ FindEmployee(r) \/ Recognize(r) \/ FindSubject(r) \/ Search(r)
    \/ Judge(r) \/ CheckLegacy(r)

Administer ==
    \/ \E e \in Employees : Create(e) \/ Remove(e) \/ Enroll(e) \/ Reset(e)
    \/ \E u \in Updates : ReadEntity(u) \/ SaveEntity(u)

IdentifyNext == (\E r \in Probes : Probe(r)) \/ Administer \/ Restart

IdentifySpec == IdentifyInit /\ [][IdentifyNext]_identifyVars

-----------------------------------------------------------------------------
(* Properties *)

\* Whom an accepted probe names is the person in front of the camera, and the
\* bound employee of a bound probe, through every edit, reset and removal in
\* between.  Only CompreFace names another: it still knows a removed
\* employee's photographs under a code that was given to somebody new, or that
\* an update which had read its owner before gave back to it
\* (EmployeesService.remove and update, ComprefaceService.recognize).
AcceptedIsTheFace ==
    \A r \in Probes : answer[r].ok =>
        /\ ask[r].bound \in {answer[r].emp, None}
        /\ \/ PersonOf[answer[r].emp] = ask[r].who
           \/ provider = "compreface" /\ answer[r].emp \in inherited

\* The employee an accepted probe names is active and has a template of every
\* pose, unless the row or a template changed while the probe went from one
\* query to the next or after it (identify, identifyBound, search,
\* enrollmentBlockReason: no transaction holds them together).
AcceptedIsEnrolled ==
    \A r \in Probes : answer[r].ok /\ answer[r].emp \notin moved[r] =>
        answer[r].emp \in Active /\ Complete(answer[r].emp)

\* The metrics count each verdict once, and no early answer: what was counted
\* differs from what was answered only by the probes that failed or are still
\* between the verdict and the answer (identify, identifyBound).
VerdictsCounted ==
    LET Verdicts(ok) == {r \in Probes : /\ pc[r] = "answered" /\ answer[r].ok = ok
                                        /\ answer[r].reason # "missing_image"}
        Late == {r \in Probes : pc[r] \in {"legacy", "failed"}}
    IN
    /\ counters["accepted"] \in Cardinality(Verdicts(TRUE))
                                .. Cardinality(Verdicts(TRUE) \cup Late)
    /\ counters["rejected"] \in Cardinality(Verdicts(FALSE))
                                .. Cardinality(Verdicts(FALSE) \cup Late)

\* A removed employee stays removed, and a status stays as it was last asked
\* for, unless an update saved what it had read before another change of the
\* same row (EmployeesService.update saves the entity whole).
EditsHold ==
    \A e \in Employees : wanted[e] \in {status[e], "any"}
=============================================================================
