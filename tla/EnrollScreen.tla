----------------------------- MODULE EnrollScreen -----------------------------
(***************************************************************************)
(* The Enroll screen of the mobile app (EnrollScreen.tsx) around the       *)
(* camera of module NativeCamera: an administrator picks an employee from  *)
(* a list, captures the poses one by one, resets them and sets the working *)
(* mode; anyone else has but the own face.                                 *)
(*                                                                         *)
(* A request is asked, served and answered in three steps, and another may *)
(* be asked in between; what the server does with one is in modules        *)
(* Enrollment and Identification, here it is one step.  No other client    *)
(* changes these employees meanwhile: nothing tells the screen.            *)
(***************************************************************************)
EXTENDS NativeCamera, FiniteSets

CONSTANTS
    People,     \* employees
    Poses,      \* the poses to capture
    Slots,       \* one element per request in flight
    NoOne

ASSUME PeopleAssumption ==
    /\ People # {} /\ NoOne \notin People
    /\ IsFiniteSet(Poses) /\ Poses # {}

VARIABLES
    have,       \* the server: the poses stored of each employee
    mode,       \* the server: the working mode of each employee
    admin,      \* isAdmin
    list,       \* employees: [pill, mode] of each, or NoOne before it is loaded
    sel,        \* selected
    enr,        \* enrollment: [emp, have], or NoOne
    pose,       \* enrollPose
    busy,       \* busy
    done,       \* confirm: the notice of a complete enrollment
    asking,     \* resetConfirm: "Reset face samples?"
    menu,       \* modeMenuFor: [emp, mode] as the row showed it, or NoOne
    modeBusy,   \* modeBusyId
    asks,       \* the requests in flight
    mixed,      \* history: the employee was selected while another request about
                \* samples was in flight, or one overlapped another or failed since
    listMixed   \* history: the same of the list, or samples were reset since

server     == <<have, mode>>
modals     == <<done, asking, menu>>
enrollVars == <<server, admin, list, sel, enr, pose, busy, modals, modeBusy,
                asks, mixed, listMixed>>

Modes == {"onsite", "remote"}

Free == [kind |-> "free", emp |-> NoOne, arg |-> NoOne, step |-> "none",
         got |-> NoOne]

Complete(h) == h = Poses

InFlight == {a \in Slots : asks[a] # Free}

Pending(kinds) == {a \in InFlight : asks[a].kind \in kinds}

SampleAsks == {"status", "photo", "enroll", "reset"}

\* A request of the screen, in a slot of its own.
Ask(a, kind, emp, arg) ==
    asks' = [asks EXCEPT ![a] = [kind |-> kind, emp |-> emp, arg |-> arg,
                                 step |-> "asked", got |-> NoOne]]

\* A modal covers the screen.
Uncovered == ~done /\ ~asking /\ menu = NoOne

-----------------------------------------------------------------------------

\* The effect at mount: an administrator loads the list, anyone else the status
\* of the own face.
EnrollInit ==
    /\ have \in [People -> {{}, Poses}]
    /\ mode = [e \in People |-> "onsite"]
    /\ admin \in BOOLEAN
    /\ list = NoOne /\ enr = NoOne
    /\ sel \in IF admin THEN {NoOne} ELSE People
    /\ pose \in Poses
    /\ busy = FALSE /\ modeBusy = NoOne
    /\ done = FALSE /\ asking = FALSE /\ menu = NoOne
    /\ \E first \in Slots :
        asks = [a \in Slots |->
                 IF a # first THEN Free
                 ELSE [Free EXCEPT !.kind = IF admin THEN "list" ELSE "status",
                                   !.emp = sel, !.step = "asked"]]
    /\ mixed = FALSE /\ listMixed = FALSE

\* applyEnrollment: the next pose is one that is missing, if any is.
ApplyEnrollment(e, h) ==
    /\ enr' = [emp |-> e, have |-> h]
    /\ IF Complete(h) THEN UNCHANGED pose ELSE pose' \in Poses \ h

\* A row of the list is tapped: nothing keeps it from being tapped while another
\* request is in flight.
Select(a) ==
    /\ Uncovered /\ admin /\ list # NoOne
    /\ asks[a] = Free
    /\ \E e \in People : sel' = e /\ Ask(a, "status", e, NoOne)
    /\ mixed' = (Pending(SampleAsks) # {})
    /\ UNCHANGED <<server, admin, list, enr, pose, busy, modals, modeBusy, listMixed>>

Search(a) ==
    /\ Uncovered /\ admin
    /\ asks[a] = Free
    /\ Ask(a, "list", NoOne, NoOne)
    /\ listMixed' = (Pending({"list", "mode", "reset"}) # {})
    /\ UNCHANGED <<server, admin, list, sel, enr, pose, busy, modals, modeBusy, mixed>>

PickPose ==
    /\ Uncovered /\ sel # NoOne
    /\ pose' \in Poses \ {pose}
    /\ UNCHANGED <<server, admin, list, sel, enr, busy, modals, modeBusy,
                   asks, mixed, listMixed>>

\* captureSample, up to the photograph: with the employee, the pose and the
\* enrollment that the screen shows now.
Capture(a) ==
    /\ Uncovered /\ ~busy /\ sel # NoOne /\ cameraReady
    /\ asks[a] = Free
    /\ busy' = TRUE
    /\ Ask(a, "photo", sel, [pose |-> pose,
                             was |-> enr # NoOne /\ Complete(enr.have)])
    /\ mixed' = (mixed \/ Pending(SampleAsks) # {})
    /\ UNCHANGED <<server, admin, list, sel, enr, pose, modals, modeBusy, listMixed>>

\* takePhoto works only while the camera is there.
Photo(a) ==
    /\ asks[a].kind = "photo"
    /\ IF Rendered
       THEN asks' = [asks EXCEPT ![a].kind = "enroll"] /\ UNCHANGED busy
       ELSE asks' = [asks EXCEPT ![a] = Free] /\ busy' = FALSE
    /\ UNCHANGED <<server, admin, list, sel, enr, pose, modals, modeBusy,
                   mixed, listMixed>>

AskReset ==
    /\ Uncovered /\ ~busy /\ sel # NoOne
    /\ asking' = TRUE
    /\ UNCHANGED <<server, admin, list, sel, enr, pose, busy, done, menu, modeBusy,
                   asks, mixed, listMixed>>

\* resetSamples: the modal stays until the answer, and its button is not disabled.
Reset(a) ==
    /\ asking
    /\ asks[a] = Free
    /\ busy' = TRUE
    /\ Ask(a, "reset", sel, NoOne)
    /\ mixed' = (mixed \/ Pending(SampleAsks) # {})
    /\ listMixed' = TRUE
    /\ UNCHANGED <<server, admin, list, sel, enr, pose, modals, modeBusy>>

OpenMenu ==
    /\ Uncovered /\ admin /\ list # NoOne
    /\ \E e \in People \ {modeBusy} : menu' = [emp |-> e, mode |-> list[e].mode]
    /\ UNCHANGED <<server, admin, list, sel, enr, pose, busy, done, asking, modeBusy, asks,
                   mixed, listMixed>>

\* setWorkingMode: of the mode shown, only the menu closes.
SetMode(a) ==
    /\ menu # NoOne /\ menu' = NoOne
    /\ \/ /\ \E m \in Modes : m # menu.mode /\ Ask(a, "mode", menu.emp, m)
          /\ asks[a] = Free /\ menu.emp # modeBusy
          /\ modeBusy' = menu.emp
          /\ listMixed' = (listMixed \/ Pending({"list", "mode"}) # {})
       \/ UNCHANGED <<asks, modeBusy, listMixed>>
    /\ UNCHANGED <<server, admin, list, sel, enr, pose, busy, done, asking, mixed>>

\* A modal is closed: "Done", "Cancel", or a tap beside it.
CloseModal ==
    /\ \/ done /\ done' = FALSE /\ UNCHANGED <<asking, menu>>
       \/ asking /\ asking' = FALSE /\ UNCHANGED <<done, menu>>
       \/ menu # NoOne /\ menu' = NoOne /\ UNCHANGED <<done, asking>>
    /\ UNCHANGED <<server, admin, list, sel, enr, pose, busy, modeBusy, asks,
                   mixed, listMixed>>

-----------------------------------------------------------------------------
(* The server, and its answers *)

Listed == [e \in People |-> [pill |-> Complete(have[e]), mode |-> mode[e]]]

ServeAsk(a) ==
    LET q == asks[a]
        Now == CASE q.kind = "enroll" -> [have EXCEPT ![q.emp] = @ \cup {q.arg.pose}]
                 [] q.kind = "reset"  -> [have EXCEPT ![q.emp] = {}]
                 [] OTHER             -> have
    IN
    /\ q.step = "asked" /\ q.kind # "photo"
    /\ have' = Now
    /\ mode' = IF q.kind = "mode" THEN [mode EXCEPT ![q.emp] = q.arg] ELSE mode
    /\ asks' = [asks EXCEPT ![a].step = "served",
                            ![a].got = IF q.kind = "list" THEN Listed
                                       ELSE IF q.kind = "mode" THEN q.arg
                                       ELSE Now[q.emp]]
    /\ UNCHANGED <<admin, list, sel, enr, pose, busy, modals, modeBusy,
                   mixed, listMixed>>

\* Slip: the list is not loaded again.
EnrollAnsweredAlone(a) ==
    LET q == asks[a] IN
    /\ q.kind = "enroll" /\ q.step = "served"
    /\ ApplyEnrollment(q.emp, q.got)
    /\ busy' = FALSE
    /\ done' = (done \/ (Complete(q.got) /\ ~q.arg.was))
    /\ asks' = [asks EXCEPT ![a] = Free]
    /\ UNCHANGED <<server, admin, list, sel, asking, menu, modeBusy, mixed, listMixed>>

\* The end of captureSample; an administrator's list is loaded again.
EnrollAnswered(a) ==
    LET q == asks[a] IN
    /\ q.kind = "enroll" /\ q.step = "served"
    /\ ApplyEnrollment(q.emp, q.got)
    /\ busy' = FALSE
    /\ done' = (done \/ (Complete(q.got) /\ ~q.arg.was))
    /\ IF admin THEN Ask(a, "list", NoOne, NoOne)
                ELSE asks' = [asks EXCEPT ![a] = Free]
    /\ listMixed' = (listMixed \/ Pending({"list", "mode"}) # {})
    /\ UNCHANGED <<server, admin, list, sel, asking, menu, modeBusy, mixed>>

\* The end of loadEnrollment and of resetSamples.
StatusAnswered(a) ==
    LET q == asks[a] IN
    /\ q.kind \in {"status", "reset"} /\ q.step = "served"
    /\ ApplyEnrollment(q.emp, q.got)
    /\ busy' = (busy /\ q.kind = "status")
    /\ asking' = (asking /\ q.kind # "reset")
    /\ asks' = [asks EXCEPT ![a] = Free]
    /\ UNCHANGED <<server, admin, list, sel, done, menu, modeBusy, mixed, listMixed>>

ListAnswered(a) ==
    /\ asks[a].kind = "list" /\ asks[a].step = "served"
    /\ list' = asks[a].got
    /\ asks' = [asks EXCEPT ![a] = Free]
    /\ UNCHANGED <<server, admin, sel, enr, pose, busy, modals, modeBusy,
                   mixed, listMixed>>

\* The updated employee is put into the row; any row's mode may be set again.
ModeAnswered(a) ==
    LET q == asks[a] IN
    /\ q.kind = "mode" /\ q.step = "served"
    /\ list' = [list EXCEPT ![q.emp].mode = q.got]
    /\ modeBusy' = NoOne
    /\ asks' = [asks EXCEPT ![a] = Free]
    /\ UNCHANGED <<server, admin, sel, enr, pose, busy, modals, mixed, listMixed>>

\* A request is refused or lost, before or after the server did it.
AskFails(a) ==
    LET q == asks[a] IN
    /\ q # Free /\ q.kind # "photo"
    /\ asks' = [asks EXCEPT ![a] = Free]
    /\ busy' = (busy /\ q.kind \notin {"enroll", "reset"})
    /\ asking' = (asking /\ q.kind # "reset")
    /\ modeBusy' = IF q.kind = "mode" THEN NoOne ELSE modeBusy
    /\ mixed' = (mixed \/ q.kind \in {"status", "enroll", "reset"})
    /\ listMixed' = (listMixed \/ q.kind \in {"list", "mode", "enroll"})
    /\ UNCHANGED <<server, admin, list, sel, enr, pose, done, menu>>

EnrollStep ==
    \/ PickPose \/ AskReset \/ OpenMenu \/ CloseModal
    \/ \E a \in Slots :
          \/ Select(a) \/ Search(a) \/ Capture(a) \/ Photo(a) \/ Reset(a) \/ SetMode(a)
          \/ ServeAsk(a) \/ EnrollAnswered(a) \/ StatusAnswered(a)
          \/ ListAnswered(a) \/ ModeAnswered(a) \/ AskFails(a)

EnrollNext ==
    \/ EnrollStep /\ UNCHANGED cameraVars
    \/ CameraNext /\ UNCHANGED enrollVars

EnrollSpec ==
    CameraInit /\ EnrollInit /\ [][EnrollNext]_<<cameraVars, enrollVars>>

-----------------------------------------------------------------------------
(* Properties *)

\* What an answer says of the employee who is selected.
SelectedIsTrue ==
    ~mixed /\ sel # NoOne =>
        /\ enr = [emp |-> sel, have |-> have[sel]]
        /\ done => Complete(have[sel])

\* With nothing in flight, the screen shows what the server has.  The banner, the
\* pose chips and the notice of a complete enrollment are those of the employee
\* who is selected, unless a request about samples overlapped another, or
\* failed, since the employee was selected; the rows of the list are the
\* server's, unless the list or a working mode was asked for while another
\* request was in flight, or failed, or samples were reset, since the list was
\* last loaded alone (EnrollScreen applyEnrollment, captureSample, resetSamples,
\* setWorkingMode, load, the rows of the list).
EnrollIsTrue ==
    InFlight = {} =>
        /\ SelectedIsTrue
        /\ listMixed \/ list \in {NoOne, Listed}
=============================================================================
