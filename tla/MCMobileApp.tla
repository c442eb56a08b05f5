------------------------------ MODULE MCMobileApp ------------------------------
(***************************************************************************)
(* Small instances of the screens of the mobile app for TLC.  The screens  *)
(* share no variable, so each is followed while the others rest: focus     *)
(* says which.                                                             *)
(***************************************************************************)
EXTENDS RosterScreen, EnrollScreen, RequestsScreen, TLC

CONSTANTS adm, hr, dev

VARIABLE focus   \* "roster", "camera", "samples", "modes" or "requests"

vars == <<focus, attendanceVars, cameraVars, enrollVars, requestsVars>>

-----------------------------------------------------------------------------

MCRoleOf == [t \in Tokens |-> CASE t = adm -> "admin" [] t = hr -> "hr"
                                [] t = dev -> "kiosk"]

\* November, December, January: the calendar begins on a Sunday, the last of
\* the year.
MCMonthStart == <<-55, -25, 7, 38>>
MCYearOf == <<1, 1, 2, 2>>

Followed == {Fixed("today"), [kind |-> "month", month |-> 1], None}

\* Bounds of the shell and the roster: storage operations in the queue; two of
\* the periods; one account and one device while settings are edited and stored;
\* and what touches the shell only (the device, the settings, the other tabs, a
\* token set during a first read) is followed before the roster is loaded.
Known == {token, disk.token} \cup {calls[r].acct : r \in Requests}
         \cup {io[i].val : i \in 1 .. Len(io)}

SettingsMove ==
    \/ disk.conf # None \/ form \notin {Blank, Default}
    \/ \E i \in 1 .. Len(io) : io[i].op = "setConf"

ShellOnly ==
    \/ SettingsMove \/ dev \in Known
    \/ raced \/ early \/ tab \notin {"settings", "attendance"}

RosterBounded ==
    /\ Len(io) <= IF \A l \in Loads : ~Idle(l) THEN 1 ELSE 3
    /\ SettingsMove => hr \notin Known
    /\ ShellOnly => /\ roster = NoCache /\ day = FirstDay
                    /\ \A l \in Loads : Idle(l)
    /\ screen.period \in Followed
    /\ roster.period \in Followed

-----------------------------------------------------------------------------

\* Where the camera is not followed it is ready.
CameraReady ==
    /\ listed = "front" /\ hook = "front" /\ device = "front"
    /\ permission = "granted" /\ poll = "waiting" /\ late = FALSE
    /\ initialized = TRUE /\ error = "none"
    /\ appActive = TRUE /\ isActive = TRUE /\ cameraReady = TRUE

\* What is not followed rests in one of its initial states.
Init ==
    /\ focus \in {"roster", "camera", "samples", "modes", "requests"}
    /\ AttendanceInit /\ EnrollInit /\ RequestsInit
    /\ IF focus = "camera" THEN CameraInit ELSE CameraReady
    /\ focus # "roster" => disk = [token |-> None, conf |-> None]
    /\ focus \notin {"samples", "camera"} => have = [e \in People |-> {}]
    /\ focus = "camera" => ~admin
    /\ focus \notin {"samples", "camera"} => admin
    /\ focus # "requests" => isAdmin /\ status = [i \in Ids |-> "none"]

RosterFollowed ==
    /\ focus = "roster"
    /\ AttendanceNext
    /\ UNCHANGED <<focus, cameraVars, enrollVars, requestsVars>>

CameraFollowed ==
    /\ focus = "camera"
    /\ EnrollNext
    /\ UNCHANGED <<focus, attendanceVars, requestsVars>>

EnrollFollowed ==
    /\ focus \in {"samples", "modes"}
    /\ EnrollStep
    /\ UNCHANGED <<focus, attendanceVars, cameraVars, requestsVars>>

RequestsFollowed ==
    /\ focus = "requests"
    /\ RequestsNext
    /\ UNCHANGED <<focus, attendanceVars, cameraVars, enrollVars>>

Next == RosterFollowed \/ CameraFollowed \/ EnrollFollowed \/ RequestsFollowed

Spec == Init /\ [][Next]_vars

\* Bounds of the Enroll screen: while the camera is followed, one request at a
\* time and no reset; while samples are, no working mode is set, and the other
\* way round.  Where both the samples and the list are excused, nothing is said
\* of the screen, and its steps are not followed.
EnrollBounded ==
    /\ focus = "camera" => ~asking /\ \A a, b \in InFlight : a = b
    /\ focus = "samples" => menu = NoOne /\ ~(mixed /\ listMixed)
    /\ focus = "modes" => ~asking /\ Pending({"photo"}) = {}

Symmetry ==
    UNION {Permutations(S) : S \in {Loads, Slots, Poses, People}}
=============================================================================
