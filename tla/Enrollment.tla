----------------------------- MODULE Enrollment -----------------------------
(***************************************************************************)
(* Face enrollment: TemplatesService.enroll and reset, the removal of an   *)
(* employee, and the nightly retention job, over three stores that share   *)
(* no transaction: table face_templates, the object storage that holds the *)
(* photographs, and the subjects of an optional CompreFace server.         *)
(*                                                                         *)
(* pc[r] names the await request r is suspended in.  The photograph that   *)
(* an enroll request uploads, its URL (a fresh UUID) and its CompreFace    *)
(* example are named by the request.                                       *)
(***************************************************************************)
EXTENDS Integers

CONSTANTS
    Employees,      \* employee ids, and CompreFace subjects
    Poses,          \* REQUIRED_ENROLL_POSES
    Requests,       \* one element per HTTP request that is ever made
    Looks,          \* what a photograph shows
    TooSimilar,     \* pairs of looks with cosine similarity >= POSE_DIVERSITY_MAX_SIM
    UseCompreFace,  \* compreface.enabled()
    RetentionDays,  \* days a file is kept
    MaxDay,         \* bound: the last day of the model
    NoImage         \* "no row" or "no url"

ASSUME SimilarAssumption ==
    /\ TooSimilar \subseteq Looks \X Looks
    /\ \A k, l \in Looks : <<k, l>> \in TooSimilar => <<l, k>> \in TooSimilar

ASSUME FlagAssumption == UseCompreFace \in BOOLEAN

ASSUME DaysAssumption == RetentionDays \in Nat \ {0} /\ MaxDay \in Nat

ASSUME NoImageAssumption == NoImage \notin Requests

VARIABLES
    staff,      \* employees that have a row
    tpl,        \* face_templates: the image of each employee and pose
    files,      \* enrollment photographs in the storage
    examples,   \* the images CompreFace keeps for a subject
    born,       \* the day a file was written
    day,        \* today
    kind,       \* what a request asks for
    emp,        \* the employee it is about
    pose,       \* the pose of an enroll request
    look,       \* what its photograph shows
    pc,         \* the await a handler is suspended in
    unlink,     \* the urls a handler still has to remove
    purged,     \* history: files the retention job removed
    overlapped, \* history: employees with two handlers in flight at once
    raced,      \* history: ... with two poses between check and write at once
    faulty      \* history: employees one of whose handlers had a call fail

request == <<kind, emp, pose, look>>
stores  == <<staff, tpl, files, examples, born, day, purged>>
history == <<overlapped, raced, faulty>>
vars    == <<stores, request, pc, unlink, history>>

Steps == {"idle", "diversity", "example", "existing", "put", "upsert",
          "forget", "select", "delete", "unlink", "templates", "employee", "done"}

\* From the answer to the diversity SELECT to the write of the template.
Window == {"example", "existing", "put", "upsert"}

TypeOK ==
    /\ staff \subseteq Employees
    /\ tpl \in [Employees -> [Poses -> Requests \cup {NoImage}]]
    /\ files \subseteq Requests
    /\ examples \in [Employees -> SUBSET Requests]
    /\ born \in [Requests -> 0 .. MaxDay]
    /\ day \in 0 .. MaxDay
    /\ kind \in [Requests -> {"enroll", "reset", "remove"}]
    /\ emp \in [Requests -> Employees]
    /\ pose \in [Requests -> Poses]
    /\ look \in [Requests -> Looks]
    /\ pc \in [Requests -> Steps]
    /\ unlink \in [Requests -> SUBSET Requests]
    /\ purged \subseteq Requests
    /\ overlapped \subseteq Employees
    /\ raced \subseteq Employees
    /\ faulty \subseteq Employees

Blank == [p \in Poses |-> NoImage]

Init ==
    /\ staff = Employees
    /\ tpl = [e \in Employees |-> Blank]
    /\ files = {}
    /\ examples = [e \in Employees |-> {}]
    /\ born = [r \in Requests |-> 0]
    /\ day = 0
    /\ kind \in [Requests -> {"enroll", "reset", "remove"}]
    /\ emp \in [Requests -> Employees]
    /\ pose \in [Requests -> Poses]
    /\ look \in [Requests -> Looks]
    /\ pc = [r \in Requests |-> "idle"]
    /\ unlink = [r \in Requests |-> {}]
    /\ purged = {}
    /\ overlapped = {}
    /\ raced = {}
    /\ faulty = {}

Goto(r, step) == pc' = [pc EXCEPT ![r] = step]

InFlight(r) == pc[r] \notin {"idle", "done"}

Quiet(e) == \A r \in Requests : emp[r] = e => ~InFlight(r)

Images(e) == {tpl[e][p] : p \in Poses} \ {NoImage}

\* Where a handler goes once nothing but the removal of old files is left.
Cleanup(S) == IF S = {} THEN "done" ELSE "unlink"

-----------------------------------------------------------------------------
(* Every handler starts with employees.get. *)

FirstStep(r) ==
    CASE kind[r] = "enroll" -> "diversity"
      [] kind[r] = "remove" -> "templates"
      [] OTHER -> IF UseCompreFace THEN "forget" ELSE "select"

Begin(r) ==
    /\ pc[r] = "idle"
    /\ emp[r] \in staff
    /\ Goto(r, FirstStep(r))
    /\ overlapped' = IF Quiet(emp[r]) THEN overlapped ELSE overlapped \cup {emp[r]}
    /\ UNCHANGED <<stores, request, unlink, raced, faulty>>

\* employees.get finds nobody, or the photograph fails the quality check.
Refuse(r) ==
    /\ \/ pc[r] = "idle" /\ emp[r] \notin staff
       \/ pc[r] = "diversity"
    /\ Goto(r, "done")
    /\ UNCHANGED <<stores, request, unlink, history>>

\* A call of the handler throws, or the process stops while it is awaited.
Fail(r) ==
    /\ InFlight(r)
    /\ Goto(r, "done")
    /\ faulty' = faulty \cup {emp[r]}
    /\ UNCHANGED <<stores, request, unlink, overlapped, raced>>

-----------------------------------------------------------------------------
(* RecognitionService.enrollInternal *)

\* Slip: compares with the template of the same pose only.
DiverseSamePose(r) ==
    tpl[emp[r]][pose[r]] # NoImage =>
        <<look[r], look[tpl[emp[r]][pose[r]]]>> \notin TooSimilar

\* No template of another pose looks like the new photograph.
Diverse(r) ==
    \A p \in Poses \ {pose[r]} :
        tpl[emp[r]][p] # NoImage => <<look[r], look[tpl[emp[r]][p]]>> \notin TooSimilar

CheckDiversity(r) ==
    /\ pc[r] = "diversity"
    /\ Diverse(r)
    /\ Goto(r, IF UseCompreFace THEN "example" ELSE "existing")
    /\ raced' = IF \E q \in Requests : /\ pc[q] \in Window
                                       /\ emp[q] = emp[r]
                                       /\ pose[q] # pose[r]
                THEN raced \cup {emp[r]} ELSE raced
    /\ UNCHANGED <<stores, request, unlink, overlapped, faulty>>

AddExample(r) ==
    /\ pc[r] = "example"
    /\ examples' = [examples EXCEPT ![emp[r]] = @ \cup {r}]
    /\ Goto(r, "existing")
    /\ UNCHANGED <<staff, tpl, files, born, day, purged, request, unlink, history>>

\* Slip: removes the previous photograph before the new one is in the table.
ReadExistingEager(r) ==
    /\ pc[r] = "existing"
    /\ files' = files \ {tpl[emp[r]][pose[r]]}
    /\ Goto(r, "put")
    /\ UNCHANGED <<staff, tpl, examples, born, day, purged, request, unlink, history>>

ReadExisting(r) ==
    /\ pc[r] = "existing"
    /\ unlink' = [unlink EXCEPT ![r] = {tpl[emp[r]][pose[r]]} \ {NoImage}]
    /\ Goto(r, "put")
    /\ UNCHANGED <<stores, request, history>>

Put(r) ==
    /\ pc[r] = "put"
    /\ files' = files \cup {r}
    /\ born' = [born EXCEPT ![r] = day]
    /\ Goto(r, "upsert")
    /\ UNCHANGED <<staff, tpl, examples, day, purged, request, unlink, history>>

\* Slip: forgets to remove the photograph it replaced.
UpsertOnly(r) ==
    /\ pc[r] = "upsert"
    /\ emp[r] \in staff
    /\ tpl' = [tpl EXCEPT ![emp[r]][pose[r]] = r]
    /\ Goto(r, "done")
    /\ UNCHANGED <<staff, files, examples, born, day, purged, request, unlink, history>>

\* INSERT ... ON CONFLICT (employee_id, pose) DO UPDATE.  The foreign key
\* refuses the row of an employee that is gone: that is a Fail.
Upsert(r) ==
    /\ pc[r] = "upsert"
    /\ emp[r] \in staff
    /\ tpl' = [tpl EXCEPT ![emp[r]][pose[r]] = r]
    /\ Goto(r, Cleanup(unlink[r]))
    /\ UNCHANGED <<staff, files, examples, born, day, purged, request, unlink, history>>

\* StorageService.remove, for one url: an error is logged and swallowed.
Unlink(r) ==
    /\ pc[r] = "unlink"
    /\ \E u \in unlink[r] :
        /\ unlink' = [unlink EXCEPT ![r] = @ \ {u}]
        /\ Goto(r, Cleanup(unlink[r] \ {u}))
        /\ \/ files' = files \ {u} /\ UNCHANGED faulty
           \/ faulty' = faulty \cup {emp[r]} /\ UNCHANGED files
    /\ UNCHANGED <<staff, tpl, examples, born, day, purged, request, overlapped, raced>>

-----------------------------------------------------------------------------
(* RecognitionService.clearEnrollments *)

\* Slip: the subject is left behind.
ForgetNothing(r) ==
    /\ pc[r] = "forget"
    /\ Goto(r, "select")
    /\ UNCHANGED <<stores, request, unlink, history>>

\* compreface.deleteSubject: an error is logged and swallowed.
Forget(r) ==
    /\ pc[r] = "forget"
    /\ \/ examples' = [examples EXCEPT ![emp[r]] = {}] /\ UNCHANGED faulty
       \/ faulty' = faulty \cup {emp[r]} /\ UNCHANGED examples
    /\ Goto(r, "select")
    /\ UNCHANGED <<staff, tpl, files, born, day, purged, request, unlink, overlapped, raced>>

SelectUrls(r) ==
    /\ pc[r] = "select"
    /\ unlink' = [unlink EXCEPT ![r] = Images(emp[r])]
    /\ Goto(r, "delete")
    /\ UNCHANGED <<stores, request, history>>

DeleteTemplates(r) ==
    /\ pc[r] = "delete"
    /\ tpl' = [tpl EXCEPT ![emp[r]] = Blank]
    /\ Goto(r, Cleanup(unlink[r]))
    /\ UNCHANGED <<staff, files, examples, born, day, purged, request, unlink, history>>

-----------------------------------------------------------------------------
(* EmployeesService.remove: the rows go, the photographs and the subject stay. *)

RemoveTemplates(r) ==
    /\ pc[r] = "templates"
    /\ tpl' = [tpl EXCEPT ![emp[r]] = Blank]
    /\ Goto(r, "employee")
    /\ UNCHANGED <<staff, files, examples, born, day, purged, request, unlink, history>>

\* ON DELETE CASCADE takes a template that was written meanwhile.
RemoveEmployee(r) ==
    /\ pc[r] = "employee"
    /\ staff' = staff \ {emp[r]}
    /\ tpl' = [tpl EXCEPT ![emp[r]] = Blank]
    /\ Goto(r, "done")
    /\ UNCHANGED <<files, examples, born, day, purged, request, unlink, history>>

-----------------------------------------------------------------------------
(* RetentionService.purge, nightly *)

\* No handler takes days.
NextDay ==
    /\ day < MaxDay
    /\ \A r \in Requests : ~InFlight(r)
    /\ day' = day + 1
    /\ UNCHANGED <<staff, tpl, files, examples, born, purged, request, pc, unlink, history>>

Expired == {r \in files : born[r] + RetentionDays < day}

\* deleteOlderThan walks every file of the local directory, enroll/ included.
Purge ==
    /\ Expired # {}
    /\ files' = files \ Expired
    /\ purged' = purged \cup Expired
    /\ UNCHANGED <<staff, tpl, examples, born, day, request, pc, unlink, history>>

-----------------------------------------------------------------------------

Handler(r) ==
    \/ Begin(r) \/ Refuse(r) \/ Fail(r)
    \/ CheckDiversity(r) \/ AddExample(r) \/ ReadExisting(r) \/ Put(r)
    \/ Upsert(r) \/ Unlink(r)
    \/ Forget(r) \/ SelectUrls(r) \/ DeleteTemplates(r)
    \/ RemoveTemplates(r) \/ RemoveEmployee(r)

Next == (\E r \in Requests : Handler(r)) \/ NextDay \/ Purge

Spec == Init /\ [][Next]_vars

-----------------------------------------------------------------------------
(* Properties *)

\* However enrolls, resets and removals of one employee overlap, the
\* photograph a template points to is in the storage, unless the retention
\* job took it: the new file is written before the row and the old one is
\* removed after it (enrollInternal, clearEnrollments).
ImagesExist ==
    \A e \in Employees : Images(e) \subseteq files \cup purged

\* Photographs of an employee that no template points to: only overlapping
\* handlers, a failed call or the employee's removal leave any behind.
NoOrphans ==
    \A e \in staff \ (overlapped \cup faulty) :
        Quiet(e) => {r \in files : emp[r] = e} \subseteq Images(e)

\* CompreFace and the table agree on who is enrolled, unless handlers
\* overlapped or a call failed: every stored template can be found there, and
\* after a reset it knows nothing of the employee.
SubjectFollowsTemplates ==
    UseCompreFace =>
        \A e \in staff \ (overlapped \cup faulty) :
            Quiet(e) => /\ Images(e) \subseteq examples[e]
                        /\ Images(e) = {} => examples[e] = {}

AreSimilar(a, b) ==
    a # NoImage /\ b # NoImage /\ <<look[a], look[b]>> \in TooSimilar

\* Two poses of an employee hold look-alike photographs only if two enroll
\* requests were between assertPoseDiversity and the upsert at the same time.
SimilarNeedsRace ==
    \A e \in Employees \ raced : \A p, o \in Poses :
        p # o => ~AreSimilar(tpl[e][p], tpl[e][o])

\* Only proof images are removed by age: what a template points to is kept.
EnrolledImagesKept ==
    \A e \in Employees : Images(e) \cap purged = {}

-----------------------------------------------------------------------------
(* The inductive invariant *)

\* Where a template comes from.
BelongsTo(r, e, p) ==
    /\ emp[r] = e
    /\ pose[r] = p
    /\ pc[r] \in {"unlink", "done"}
    /\ r \in files \cup purged

Provenance ==
    \A e \in Employees : \A p \in Poses :
        tpl[e][p] # NoImage => BelongsTo(tpl[e][p], e, p)

\* A photograph is stored before its row is written.
StoredFirst ==
    \A r \in Requests : pc[r] = "upsert" => r \in files \cup purged

\* What a handler is about to unlink has been replaced or deleted by then.
UnlinkStale ==
    \A r \in Requests : \A u \in unlink[r] :
        /\ emp[u] = emp[r]
        /\ pc[u] \in {"unlink", "done"}
        /\ kind[r] = "enroll" => pose[u] = pose[r]
        /\ pc[r] = "unlink" => u \notin Images(emp[u])

\* Each kind of request has its own steps.
OwnSteps ==
    \A r \in Requests :
        /\ pc[r] \in {"diversity"} \cup Window => kind[r] = "enroll"
        /\ pc[r] \in {"forget", "select", "delete"} => kind[r] = "reset"

\* Requests past the diversity check, against the table and each other.
WindowsDiverse ==
    \A r \in Requests : pc[r] \in Window /\ emp[r] \notin raced =>
        /\ Diverse(r)
        /\ \A q \in Requests : pc[q] \in Window /\ emp[q] = emp[r] => pose[q] = pose[r]

IInv ==
    /\ Provenance
    /\ StoredFirst
    /\ UnlinkStale
    /\ OwnSteps
    /\ WindowsDiverse
    /\ SimilarNeedsRace
=============================================================================
