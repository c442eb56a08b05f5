---------------------------- MODULE CameraBroker ----------------------------
(***************************************************************************)
(* CameraBrokerService: one PowerShell capture process shared by the HTTP  *)
(* streams of /camera/mjpeg.  The methods run to completion one at a time, *)
(* the events of the child processes (data, error, exit) and the stop      *)
(* timer come in between, and the exit of a process may be reported long   *)
(* after its successor was started.                                        *)
(***************************************************************************)
EXTENDS Integers

CONSTANTS
    Clients,    \* one element per stream that is ever opened
    MaxProcs    \* bound: capture processes ever spawned

ASSUME ProcsAssumption == MaxProcs \in Nat

VARIABLES
    clients,    \* this.clients
    child,      \* this.child, 0 for null
    starting,   \* this.starting is not null
    expected,   \* this.expectedExit
    timer,      \* this.stopTimer is running
    proc,       \* the capture processes
    spawned,    \* how many there have been
    left,       \* clients whose stream is closed
    served,     \* clients that got a frame
    told,       \* clients whose onStop was called
    crossed,    \* history: the exits of two processes were taken for each other
    desynced    \* history: a data handler threw

broker  == <<clients, child, starting, expected, timer>>
vars    == <<broker, proc, spawned, left, served, told, crossed, desynced>>

Procs == 1 .. MaxProcs

\* killed, dead: killed by stop, or ended by itself, with the exit event to come.
States == {"new", "live", "killed", "dead", "gone"}

TypeOK ==
    /\ clients \subseteq Clients /\ left \subseteq Clients /\ clients \cap left = {}
    /\ child \in Procs \cup {0}
    /\ starting \in BOOLEAN /\ expected \in BOOLEAN /\ timer \in BOOLEAN
    /\ proc \in [Procs -> States]
    /\ spawned \in 0 .. MaxProcs
    /\ served \subseteq Clients /\ told \subseteq Clients
    /\ crossed \in BOOLEAN /\ desynced \in BOOLEAN

Init ==
    /\ clients = {} /\ child = 0
    /\ starting = FALSE /\ expected = FALSE /\ timer = FALSE
    /\ proc = [q \in Procs |-> "new"]
    /\ spawned = 0
    /\ left = {} /\ served = {} /\ told = {}
    /\ crossed = FALSE /\ desynced = FALSE

-----------------------------------------------------------------------------
\* ensureStarted: nothing to do while there is a child or `starting`.
Running == child # 0 \/ starting

\* ensureStarted: a process is spawned.
Spawn ==
    /\ spawned < MaxProcs
    /\ spawned' = spawned + 1
    /\ child' = spawned + 1
    /\ starting' = TRUE
    /\ proc' = [proc EXCEPT ![spawned + 1] = "live"]

\* subscribe: a pending stop is called off.
Subscribe(c) ==
    /\ c \notin clients \cup left
    /\ clients' = clients \cup {c}
    /\ timer' = FALSE
    /\ IF Running THEN UNCHANGED <<child, starting, proc, spawned>> ELSE Spawn
    /\ UNCHANGED <<expected, left, served, told, crossed, desynced>>

\* subscribe, when PowerShell cannot be started: the error event follows at
\* once, before any other event, and fail tells all clients, this one too.
SubscribeFails(c) ==
    /\ c \notin clients \cup left
    /\ ~Running
    /\ clients' = clients \cup {c}
    /\ timer' = FALSE
    /\ told' = told \cup clients'
    /\ UNCHANGED <<child, starting, expected, proc, spawned, left, served, crossed, desynced>>

\* Slip: the camera keeps running after its last client.
UnsubscribeOnly(c) ==
    /\ c \in clients
    /\ clients' = clients \ {c}
    /\ left' = left \cup {c}
    /\ timer' = timer
    /\ UNCHANGED <<child, starting, expected, proc, spawned, served, told, crossed, desynced>>

\* The response closes: the client goes, and after the last one the stop
\* timer starts.
Unsubscribe(c) ==
    /\ c \in clients
    /\ clients' = clients \ {c}
    /\ left' = left \cup {c}
    /\ timer' = (timer \/ clients' = {})
    /\ UNCHANGED <<child, starting, expected, proc, spawned, served, told, crossed, desynced>>

\* stop: the child is killed, and its exit will be expected.
Stop ==
    /\ timer' = FALSE
    /\ child' = 0
    /\ starting' = FALSE
    /\ expected' = (expected \/ child # 0)
    /\ proc' = [q \in Procs |-> IF q = child /\ proc[q] = "live" THEN "killed" ELSE proc[q]]
    /\ crossed' = (crossed \/ (child # 0 /\ expected))

\* The stop timer fires.
TimerFires ==
    /\ timer
    /\ IF clients = {}
       THEN Stop
       ELSE timer' = FALSE /\ UNCHANGED <<child, starting, expected, proc, crossed>>
    /\ UNCHANGED <<clients, spawned, left, served, told, desynced>>

\* A process has output to be read: also after it was killed, or has exited.
HasOutput(q) == proc[q] \in {"live", "killed", "dead", "gone"}

\* child.stdout data with a whole frame: every client gets it.
Frame(q) ==
    /\ HasOutput(q)
    /\ served' = served \cup clients
    /\ UNCHANGED <<broker, proc, spawned, left, told, crossed, desynced>>

\* child.stdout data out of step: the handler throws, and the camera that
\* runs now is stopped.
BadFrame(q) ==
    /\ HasOutput(q)
    /\ Stop
    /\ desynced' = TRUE
    /\ UNCHANGED <<clients, spawned, left, served, told>>

\* A capture process ends by itself.
Crash(q) ==
    /\ proc[q] = "live"
    /\ proc' = [proc EXCEPT ![q] = "dead"]
    /\ UNCHANGED <<broker, spawned, left, served, told, crossed, desynced>>

\* Slip: whichever process failed, the current one is forgotten.
FailForgetting(q) ==
    /\ child' = 0
    /\ starting' = FALSE
    /\ told' = told \cup clients

\* Slip: a failed start is not reset.
FailStarting(q) ==
    /\ child' = IF child = q THEN 0 ELSE child
    /\ starting' = starting
    /\ told' = told \cup clients

\* Slip: the clients are not told.
FailSilently(q) ==
    /\ child' = IF child = q THEN 0 ELSE child
    /\ starting' = FALSE
    /\ told' = told

\* fail: the clients are told.
Fail(q) ==
    /\ child' = IF child = q THEN 0 ELSE child
    /\ starting' = FALSE
    /\ told' = told \cup clients

\* child exit: the first exit after a stop is the expected one, whichever
\* process it is of.
ExitEvent(q) ==
    /\ proc[q] \in {"killed", "dead"}
    /\ proc' = [proc EXCEPT ![q] = "gone"]
    /\ expected' = FALSE
    /\ crossed' = (crossed \/ (expected /\ \E p \in Procs \ {q} : proc[p] \in {"killed", "dead"}))
    /\ IF expected
       THEN child' = (IF child = q THEN 0 ELSE child) /\ UNCHANGED <<starting, told>>
       ELSE Fail(q)
    /\ UNCHANGED <<clients, timer, spawned, left, served, desynced>>

-----------------------------------------------------------------------------
Events(q) == Frame(q) \/ BadFrame(q) \/ Crash(q) \/ ExitEvent(q)

Next ==
    \/ \E c \in Clients : Subscribe(c) \/ SubscribeFails(c) \/ Unsubscribe(c)
    \/ TimerFires
    \/ \E q \in Procs : Events(q)

Spec == Init /\ [][Next]_vars

\* The runtime delivers events and timers, a live camera delivers a frame or
\* ends, and a response that onStop has ended closes.
Fairness ==
    /\ WF_vars(TimerFires)
    /\ \A q \in Procs :
          /\ WF_vars(ExitEvent(q))
          /\ WF_vars(proc[q] = "live" /\ Frame(q))
    /\ \A c \in Clients : WF_vars(c \in told /\ Unsubscribe(c))

FairSpec == Spec /\ Fairness

-----------------------------------------------------------------------------
(* Properties. *)

\* At no time do two capture processes hold the camera: a process that was
\* not killed and has not ended is the child.
OneCamera == \A q \in Procs : proc[q] = "live" => child = q

\* The camera does not run on without a client, except while the stop timer
\* counts.
NoIdleCamera ==
    (\E q \in Procs : proc[q] = "live") => clients # {} \/ timer

\* `starting` without a child makes ensureStarted do nothing.  That happens
\* when the exit of a crashed process is taken for the expected one of its
\* predecessor, and only as long as the exit of the predecessor, which resets
\* it, is still to come.
WedgeEnds ==
    starting /\ child = 0 => \E q \in Procs : proc[q] \in {"killed", "dead"}

\* The clients are told that the camera stopped only when no camera runs,
\* unless the exits of two processes were taken for each other: one flag,
\* expectedExit, stands for the exits of all the processes stop has killed.
ToldNeedsStop ==
    [][told' # told => child' = 0 \/ crossed]_vars

\* A client that waits for its first frame gets one, or is told that the
\* camera stopped, or leaves; unless a data handler threw, after which the
\* broker stops the camera and tells nobody.
WaitEnds ==
    \A c \in Clients :
        c \in clients \ (served \cup told) ~> c \notin clients \ (served \cup told) \/ desynced
=============================================================================
