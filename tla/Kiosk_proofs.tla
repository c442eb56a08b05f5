---------------------------- MODULE Kiosk_proofs ----------------------------
(***************************************************************************)
(* What the parts that look at a face promise: CameraBroker for any number *)
(* of streams and processes, Identification for any number of probes,      *)
(* employees and updates, and the camera of the app in a browser           *)
(* (WebCamera) for any number of windows.                                  *)
(***************************************************************************)
EXTENDS CameraBroker, Identification, WebCamera, FiniteSetTheorems, TLAPS

-----------------------------------------------------------------------------
(* The camera broker.  The events of old processes reach a broker that has   *)
(* one child and one expectedExit flag; the invariant says which processes   *)
(* they can be of.                                                           *)

\* Ended or killed, with the exit event to come.
Ending(q) == proc[q] \in {"killed", "dead"}

\* Processes are spawned in order.
FreshAbove == \A q \in Procs : q > spawned => proc[q] = "new"

\* The child was not killed, and its exit was not reported.
ChildRuns == child # 0 => proc[child] \in {"live", "dead"}

\* The exit that is expected is to come, and not from the child.
ExpectedComes == expected => \E q \in Procs : q # child /\ Ending(q)

\* While `starting` is stuck, no exit is expected: the next one resets it.
WedgeOpen == starting /\ child = 0 => ~expected

\* Unless two exits were crossed, one process at most is ending besides the
\* child, and none when no exit is expected.
OneEnding ==
    \/ crossed
    \/ \A p, q \in Procs :
          Ending(p) /\ p # child => expected /\ (Ending(q) /\ q # child => p = q)

IInv ==
    /\ TypeOK
    /\ FreshAbove /\ ChildRuns
    /\ OneCamera /\ NoIdleCamera
    /\ ExpectedComes /\ WedgeOpen /\ WedgeEnds
    /\ OneEnding

-----------------------------------------------------------------------------
LEMMA InitHolds == Init => IInv
<1>. SUFFICES ASSUME Init PROVE IInv
  OBVIOUS
<1>1. TypeOK
  <2>1. /\ clients \subseteq Clients /\ left \subseteq Clients /\ clients \cap left = {}
        /\ served \subseteq Clients /\ told \subseteq Clients
        /\ child \in Procs \cup {0} /\ spawned \in 0 .. MaxProcs
    BY ProcsAssumption DEF Init
  <2>2. proc \in [Procs -> States]
    BY DEF Init, States
  <2>3. /\ starting \in BOOLEAN /\ expected \in BOOLEAN /\ timer \in BOOLEAN
        /\ crossed \in BOOLEAN /\ desynced \in BOOLEAN
    BY DEF Init
  <2>. QED BY <2>1, <2>2, <2>3 DEF TypeOK
<1>2. \A q \in Procs : proc[q] = "new"
  BY DEF Init
<1>3. FreshAbove /\ ChildRuns /\ ExpectedComes /\ WedgeOpen
  BY <1>2 DEF Init, FreshAbove, ChildRuns, ExpectedComes, WedgeOpen
<1>4. OneCamera /\ NoIdleCamera /\ WedgeEnds
  BY <1>2 DEF Init, OneCamera, NoIdleCamera, WedgeEnds
<1>5. OneEnding
  BY <1>2 DEF OneEnding, Ending
<1>. QED BY <1>1, <1>3, <1>4, <1>5 DEF IInv

\* A new stream, with the process it may start.
LEMMA SubscribeStep ==
    ASSUME IInv, NEW c \in Clients, Subscribe(c)
    PROVE  IInv'
<1>. USE ProcsAssumption DEF IInv, Ending
<1>1. CASE Running
  BY <1>1 DEF Subscribe, Running, TypeOK, States, FreshAbove, ChildRuns, OneCamera, NoIdleCamera,
     ExpectedComes, WedgeOpen, WedgeEnds, OneEnding
<1>2. CASE ~Running
  <2>1. /\ child = 0 /\ ~starting
        /\ spawned < MaxProcs
        /\ spawned' = spawned + 1 /\ child' = spawned + 1
        /\ proc' = [proc EXCEPT ![spawned + 1] = "live"]
        /\ starting' = TRUE
        /\ clients' = clients \cup {c} /\ timer' = FALSE
        /\ UNCHANGED <<expected, left, served, told, crossed, desynced>>
        /\ c \notin left
    BY <1>2 DEF Subscribe, Running, Spawn
  <2>2. spawned + 1 \in Procs /\ proc[spawned + 1] = "new"
    BY <2>1 DEF TypeOK, Procs, FreshAbove
  <2>3. \A q \in Procs : q # spawned + 1 => proc'[q] = proc[q]
    BY <2>1 DEF TypeOK
  <2>4. proc'[spawned + 1] = "live"
    BY <2>1, <2>2 DEF TypeOK
  <2>5. TypeOK'
    <3>1. proc' \in [Procs -> States]
      BY <2>1, <2>2 DEF TypeOK, States
    <3>2. child' \in Procs \cup {0} /\ spawned' \in 0 .. MaxProcs
      BY <2>1, <2>2 DEF TypeOK, Procs
    <3>3. clients' \subseteq Clients /\ clients' \cap left' = {}
      BY <2>1 DEF TypeOK
    <3>. QED BY <2>1, <3>1, <3>2, <3>3 DEF TypeOK
  <2>6. FreshAbove' /\ ChildRuns' /\ WedgeOpen'
    BY <2>1, <2>2, <2>3, <2>4 DEF TypeOK, Procs, FreshAbove, ChildRuns, WedgeOpen
  <2>7. OneCamera' /\ NoIdleCamera' /\ WedgeEnds'
    BY <2>1, <2>2, <2>3, <2>4 DEF TypeOK, Procs, OneCamera, NoIdleCamera, WedgeEnds
  <2>8. ExpectedComes' /\ OneEnding'
    BY <2>1, <2>2, <2>3, <2>4 DEF TypeOK, Procs, ExpectedComes, OneEnding
  <2>. QED BY <2>5, <2>6, <2>7, <2>8
<1>. QED BY <1>1, <1>2

\* A stream that cannot start a process, and one that closes.
LEMMA StreamStep ==
    ASSUME IInv, NEW c \in Clients, SubscribeFails(c) \/ Unsubscribe(c)
    PROVE  IInv'
<1>. USE DEF IInv
<1>1. /\ UNCHANGED <<child, starting, expected, proc, spawned, crossed>>
      /\ c \notin left \/ c \in clients
  BY DEF SubscribeFails, Unsubscribe
<1>2. TypeOK'
  <2>1. CASE SubscribeFails(c)
    BY <2>1 DEF SubscribeFails, TypeOK
  <2>2. CASE Unsubscribe(c)
    <3>1. timer' \in BOOLEAN
      BY <2>2 DEF Unsubscribe
    <3>2. clients' \subseteq Clients /\ left' \subseteq Clients /\ clients' \cap left' = {}
      BY <2>2 DEF Unsubscribe, TypeOK
    <3>. QED BY <2>2, <3>1, <3>2 DEF Unsubscribe, TypeOK
  <2>. QED BY <2>1, <2>2
<1>3. NoIdleCamera'
  BY DEF SubscribeFails, Unsubscribe, NoIdleCamera
<1>4. FreshAbove' /\ ChildRuns' /\ OneCamera' /\ ExpectedComes' /\ WedgeOpen' /\ WedgeEnds'
  BY <1>1 DEF FreshAbove, ChildRuns, OneCamera, ExpectedComes, WedgeOpen, WedgeEnds, Ending
<1>5. OneEnding'
  BY <1>1 DEF OneEnding, Ending
<1>. QED BY <1>2, <1>3, <1>4, <1>5

\* stop, called by the timer or by a data handler that throws.
LEMMA StopStep ==
    ASSUME IInv, Stop,
           UNCHANGED <<clients, spawned, left, served, told>>,
           desynced' \in BOOLEAN
    PROVE  IInv'
<1>. USE ProcsAssumption DEF IInv
<1>1. /\ child' = 0 /\ ~starting' /\ ~timer'
      /\ expected' = (expected \/ child # 0)
      /\ crossed' = (crossed \/ (child # 0 /\ expected))
      /\ \A q \in Procs : proc'[q] = IF q = child /\ proc[q] = "live" THEN "killed" ELSE proc[q]
  BY DEF Stop
<1>2. \A q \in Procs : proc'[q] # "live"
  BY <1>1 DEF OneCamera
<1>3. \A q \in Procs : Ending(q)' <=> Ending(q) \/ (q = child /\ child # 0)
  BY <1>1 DEF Ending, ChildRuns, TypeOK, Procs
<1>4. TypeOK' /\ FreshAbove'
  BY <1>1 DEF Stop, TypeOK, States, FreshAbove
<1>5. ChildRuns' /\ OneCamera' /\ NoIdleCamera' /\ WedgeOpen' /\ WedgeEnds'
  BY <1>1, <1>2 DEF ChildRuns, OneCamera, NoIdleCamera, WedgeOpen, WedgeEnds
<1>6. ExpectedComes'
  <2>1. CASE child # 0
    BY <1>1, <1>3, <2>1 DEF ExpectedComes, TypeOK, Procs
  <2>2. CASE child = 0
    BY <1>1, <1>3, <2>2 DEF ExpectedComes, TypeOK, Procs
  <2>. QED BY <2>1, <2>2
<1>7. OneEnding'
  <2>1. CASE crossed'
    BY <2>1 DEF OneEnding
  <2>2. CASE ~crossed'
    BY <1>1, <1>3, <2>2 DEF OneEnding, TypeOK, Procs
  <2>. QED BY <2>1, <2>2
<1>. QED BY <1>4, <1>5, <1>6, <1>7

LEMMA TimerStep ==
    ASSUME IInv, TimerFires
    PROVE  IInv'
<1>1. CASE clients = {}
  BY <1>1, StopStep DEF TimerFires, IInv, TypeOK
<1>2. CASE clients # {}
  BY <1>2 DEF TimerFires, IInv, Ending, TypeOK, FreshAbove, ChildRuns, OneCamera, NoIdleCamera,
     ExpectedComes, WedgeOpen, WedgeEnds, OneEnding
<1>. QED BY <1>1, <1>2

LEMMA BadFrameStep ==
    ASSUME IInv, NEW q \in Procs, BadFrame(q)
    PROVE  IInv'
BY StopStep DEF BadFrame

LEMMA FrameStep ==
    ASSUME IInv, NEW q \in Procs, Frame(q)
    PROVE  IInv'
BY DEF Frame, broker, IInv, Ending, TypeOK, FreshAbove, ChildRuns, OneCamera, NoIdleCamera,
   ExpectedComes, WedgeOpen, WedgeEnds, OneEnding

\* A camera that ends by itself is the child.
LEMMA CrashStep ==
    ASSUME IInv, NEW q \in Procs, Crash(q)
    PROVE  IInv'
<1>. USE ProcsAssumption DEF IInv
<1>1. /\ UNCHANGED <<broker, spawned, left, served, told, crossed, desynced>>
      /\ proc[q] = "live" /\ proc'[q] = "dead"
      /\ \A p \in Procs : p # q => proc'[p] = proc[p]
      /\ q = child
  BY DEF Crash, TypeOK, OneCamera
<1>2. TypeOK' /\ FreshAbove'
  BY <1>1 DEF Crash, broker, TypeOK, States, FreshAbove
<1>3. ChildRuns' /\ OneCamera' /\ NoIdleCamera' /\ WedgeOpen' /\ WedgeEnds'
  BY <1>1 DEF broker, ChildRuns, OneCamera, NoIdleCamera, WedgeOpen, WedgeEnds, TypeOK, Procs
<1>4. ExpectedComes' /\ OneEnding'
  BY <1>1 DEF broker, Ending, ExpectedComes, OneEnding
<1>. QED BY <1>2, <1>3, <1>4

\* The exit event of any process, the child's or an old one's.
LEMMA ExitStep ==
    ASSUME IInv, NEW q \in Procs, ExitEvent(q)
    PROVE  IInv'
<1>. USE ProcsAssumption DEF IInv
<1>1. /\ Ending(q) /\ proc'[q] = "gone"
      /\ \A p \in Procs : p # q => proc'[p] = proc[p]
      /\ ~expected'
      /\ child' = IF child = q THEN 0 ELSE child
      /\ crossed' = (crossed \/ (expected /\ \E p \in Procs \ {q} : Ending(p)))
      /\ starting' = (expected /\ starting)
      /\ UNCHANGED <<clients, timer, spawned, left, served, desynced>>
      /\ told' \in {told, told \cup clients}
  BY DEF ExitEvent, Fail, Ending, TypeOK
<1>2. TypeOK'
  BY <1>1 DEF ExitEvent, TypeOK, States
<1>3. FreshAbove' /\ ChildRuns' /\ OneCamera' /\ NoIdleCamera'
  BY <1>1 DEF Ending, TypeOK, Procs, FreshAbove, ChildRuns, OneCamera, NoIdleCamera
<1>4. ExpectedComes' /\ WedgeOpen'
  BY <1>1 DEF ExpectedComes, WedgeOpen
<1>5. WedgeEnds'
  BY <1>1 DEF Ending, ExpectedComes, WedgeOpen, WedgeEnds
<1>6. OneEnding'
  <2>1. SUFFICES ASSUME ~crossed', NEW p \in Procs, Ending(p)', p # child'
                 PROVE  FALSE
    BY DEF OneEnding
  <2>2. p # q /\ Ending(p)
    BY <1>1, <2>1 DEF Ending
  <2>3. ~expected /\ ~crossed
    BY <1>1, <2>1, <2>2
  <2>4. p = child /\ q = child
    BY <1>1, <2>2, <2>3 DEF OneEnding
  <2>. QED BY <2>2, <2>4
<1>. QED BY <1>2, <1>3, <1>4, <1>5, <1>6

LEMMA StutterStep ==
    ASSUME IInv, UNCHANGED vars
    PROVE  IInv'
BY DEF vars, broker, IInv, Ending, TypeOK, FreshAbove, ChildRuns, OneCamera, NoIdleCamera,
   ExpectedComes, WedgeOpen, WedgeEnds, OneEnding

\* The invariant of the broker holds in every state of every behaviour.
THEOREM Inductive == Spec => []IInv
<1>1. Init => IInv
  BY InitHolds
<1>2. IInv /\ [Next]_vars => IInv'
  BY SubscribeStep, StreamStep, TimerStep, FrameStep, BadFrameStep, CrashStep, ExitStep,
     StutterStep DEF Next, Events
<1>. QED BY <1>1, <1>2, PTL DEF Spec

\* Every variable has its type.
THEOREM TypeCorrect == Spec => []TypeOK
<1>1. IInv => TypeOK
  BY DEF IInv
<1>. QED BY <1>1, Inductive, PTL

\* Two capture processes never hold the camera at once.
THEOREM OneCameraCorrect == Spec => []OneCamera
<1>1. IInv => OneCamera
  BY DEF IInv
<1>. QED BY <1>1, Inductive, PTL

\* No camera runs on without a client or a stop timer.
THEOREM NoIdleCameraCorrect == Spec => []NoIdleCamera
<1>1. IInv => NoIdleCamera
  BY DEF IInv
<1>. QED BY <1>1, Inductive, PTL

\* A stuck `starting` is reset by an exit event that is still to come.
THEOREM WedgeEndsCorrect == Spec => []WedgeEnds
<1>1. IInv => WedgeEnds
  BY DEF IInv
<1>. QED BY <1>1, Inductive, PTL

\* Clients are told of a stop only when no camera is left, unless two exits
\* were crossed.
THEOREM ToldNeedsStopCorrect == Spec => ToldNeedsStop
<1>1. ASSUME IInv, [Next]_vars
      PROVE  [told' # told => child' = 0 \/ crossed]_vars
  <2>1. SUFFICES ASSUME Next, told' # told, ~crossed
                 PROVE  child' = 0
    BY <1>1
  <2>2. CASE \E c \in Clients : SubscribeFails(c)
    BY <2>2 DEF SubscribeFails, Running
  <2>3. ASSUME NEW q \in Procs, ExitEvent(q)
        PROVE  child' = 0
    <3>1. ~expected /\ Fail(q) /\ Ending(q)
      BY <2>1, <2>3 DEF ExitEvent, Ending
    <3>2. q = child
      BY <1>1, <2>1, <3>1 DEF IInv, OneEnding
    <3>. QED BY <3>1, <3>2 DEF Fail
  <2>. QED
    BY <2>1, <2>2, <2>3 DEF Next, Events, Subscribe, Unsubscribe, TimerFires, Frame, BadFrame, Crash
<1>. QED BY <1>1, Inductive, PTL DEF Spec, ToldNeedsStop

-----------------------------------------------------------------------------
(* Identification: the inductive invariant. *)

Named == {e \in Employees : code[e] # None}

IdentifyTypes ==
    /\ provider \in {"internal", "compreface"}
    /\ status \in [Employees -> {"absent", "active", "inactive"}]
    /\ code \in [Employees -> Codes \cup {None}]
    /\ tpl \in [Employees -> [Poses -> {"none", "model", "prototype"}]]
    /\ subjects \in [Codes -> SUBSET People]
    /\ pc \in [Probes -> {"idle", "employee", "recognize", "subject", "search", "status",
                          "legacy", "answered", "failed"}]
    /\ DOMAIN ask = Probes /\ DOMAIN found = Probes /\ DOMAIN answer = Probes
    /\ \A r \in Probes : DOMAIN answer[r] = {"ok", "reason", "emp"}
    /\ counters \in [{"total", "accepted", "rejected"} -> Nat]
    /\ DOMAIN edit = Updates
    /\ gone \subseteq Employees
    /\ wanted \in [Employees -> {"absent", "active", "inactive", "any"}]
    /\ inherited \subseteq Employees
    /\ moved \in [Probes -> SUBSET Employees]

\* An update holds the row of an employee who was there, under the code of then
\* and now, and the status it was last asked for.
EditsKnown ==
    \A u \in Updates : edit[u] # NoEdit =>
        LET e == edit[u].emp IN
        /\ e \in Named
        /\ edit[u].code = code[e]
        /\ edit[u].status \in {"active", "inactive"}
        /\ edit[u].asked \/ edit[u].status = wanted[e] \/ wanted[e] = "any"

\* Codes belong to those who are or were there; one that did not get it from a
\* removed employee shares it with nobody, alive or gone.
CodesKnown ==
    /\ \A e \in Employees : status[e] # "absent" \/ e \in gone <=> e \in Named
    /\ \A e \in Employees, f \in Employees :
          e \in Staff \ inherited /\ f # e => code[f] # code[e]
    /\ \A c \in Codes : \A x \in subjects[c] :
          \E g \in Employees : code[g] = c /\ PersonOf[g] = x

\* What a probe has found by the time it waits for its next query.
FoundKnown(r) ==
    /\ pc[r] \in {"idle", "employee", "recognize", "search"} => found[r] = NoMatch
    /\ pc[r] \in {"recognize", "subject"} => ask[r].bound = None /\ provider = "compreface"
    /\ pc[r] = "subject" =>
          /\ found[r].emp \in Codes
          /\ found[r].similar =>
                \E g \in Employees : code[g] = found[r].emp /\ PersonOf[g] = ask[r].who
    /\ pc[r] \in {"status", "legacy"} /\ found[r].emp # None =>
          /\ found[r].emp \in Employees
          /\ ask[r].bound \in {found[r].emp, None}
          /\ found[r].similar =>
                \/ PersonOf[found[r].emp] = ask[r].who
                \/ provider = "compreface" /\ found[r].emp \in inherited
          /\ found[r].emp \notin moved[r] => found[r].emp \in Active

AnswerKnown(r) ==
    /\ pc[r] \notin {"legacy", "answered"} => ~answer[r].ok /\ answer[r].reason = "none"
    /\ answer[r].ok => answer[r].emp \in Employees

\* Probes with a counted verdict for ok.
Counted(ok) ==
    {r \in Probes :
        \/ pc[r] = "answered" /\ answer[r].ok = ok /\ answer[r].reason # "missing_image"
        \/ pc[r] = "legacy" /\ answer[r].ok = ok}

Failed == {r \in Probes : pc[r] = "failed"}

CountsKnown ==
    /\ Cardinality(Counted(TRUE)) =< counters["accepted"]
    /\ counters["accepted"] =< Cardinality(Counted(TRUE) \cup Failed)
    /\ Cardinality(Counted(FALSE)) =< counters["rejected"]
    /\ counters["rejected"] =< Cardinality(Counted(FALSE) \cup Failed)

IdentifyInv ==
    /\ IdentifyTypes
    /\ EditsKnown /\ CodesKnown
    /\ \A r \in Probes : FoundKnown(r) /\ AnswerKnown(r)
    /\ AcceptedIsTheFace /\ AcceptedIsEnrolled /\ CountsKnown /\ EditsHold

-----------------------------------------------------------------------------
(* Identification: types. *)

LEMMA IdentifyInitTypes == IdentifyInit => IdentifyTypes
<1> SUFFICES ASSUME IdentifyInit PROVE IdentifyTypes
  OBVIOUS
<1> USE DEF IdentifyInit
<1>1. /\ provider \in {"internal", "compreface"}
      /\ status \in [Employees -> {"absent", "active", "inactive"}]
      /\ code \in [Employees -> Codes \cup {None}]
      /\ subjects \in [Codes -> SUBSET People]
  OBVIOUS
<1>2. tpl \in [Employees -> [Poses -> {"none", "model", "prototype"}]]
  BY DEF Blank
<1>3. /\ pc \in [Probes -> {"idle", "employee", "recognize", "subject", "search", "status",
                            "legacy", "answered", "failed"}]
      /\ DOMAIN ask = Probes /\ DOMAIN found = Probes /\ DOMAIN answer = Probes
      /\ DOMAIN edit = Updates
  OBVIOUS
<1>4. \A r \in Probes : DOMAIN answer[r] = {"ok", "reason", "emp"}
  BY DEF NoAnswer
<1>5. counters \in [{"total", "accepted", "rejected"} -> Nat]
  BY DEF NoCount
<1>6. /\ gone \subseteq Employees
      /\ wanted \in [Employees -> {"absent", "active", "inactive", "any"}]
      /\ inherited \subseteq Employees
      /\ moved \in [Probes -> SUBSET Employees]
  OBVIOUS
<1> QED
  BY <1>1, <1>2, <1>3, <1>4, <1>5, <1>6 DEF IdentifyTypes

\* The rows and the history that administrators change.
AdminTypes ==
    /\ status \in [Employees -> {"absent", "active", "inactive"}]
    /\ code \in [Employees -> Codes \cup {None}]
    /\ tpl \in [Employees -> [Poses -> {"none", "model", "prototype"}]]
    /\ subjects \in [Codes -> SUBSET People]
    /\ DOMAIN edit = Updates
    /\ gone \subseteq Employees
    /\ wanted \in [Employees -> {"absent", "active", "inactive", "any"}]
    /\ inherited \subseteq Employees
    /\ moved \in [Probes -> SUBSET Employees]

LEMMA AdminTypesStep ==
    ASSUME AdminTypes, EditsKnown, CodesKnown, Administer
    PROVE  AdminTypes'
<1> USE DEF AdminTypes, history, rows
<1>0. ASSUME NEW e \in Employees, Moves(e) PROVE moved' \in [Probes -> SUBSET Employees]
  BY <1>0 DEF Moves
<1>1. ASSUME NEW e \in Employees, Create(e) PROVE AdminTypes'
  <2>1. PICK c \in Codes, s \in {"active", "inactive"} :
          /\ code' = [code EXCEPT ![e] = c]
          /\ status' = [status EXCEPT ![e] = s]
          /\ wanted' = [wanted EXCEPT ![e] = s]
          /\ inherited' = IF \E f \in gone : code[f] = c THEN inherited \cup {e} ELSE inherited
    BY <1>1 DEF Create
  <2>2. Moves(e) /\ UNCHANGED <<tpl, subjects, edit, gone>>
    BY <1>1 DEF Create
  <2> QED
    BY <1>0, <2>1, <2>2
<1>2. ASSUME NEW e \in Employees, Remove(e) PROVE AdminTypes'
  <2>1. tpl' \in [Employees -> [Poses -> {"none", "model", "prototype"}]]
    BY <1>2 DEF Remove, Blank
  <2>2. wanted' \in [Employees -> {"absent", "active", "inactive", "any"}]
    BY <1>2 DEF Remove, Asked
  <2> QED
    BY <1>0, <1>2, <2>1, <2>2 DEF Remove
<1>3. ASSUME NEW e \in Employees, Enroll(e) \/ Reset(e) PROVE AdminTypes'
  <2>1. tpl' \in [Employees -> [Poses -> {"none", "model", "prototype"}]]
    <3>1. CASE Enroll(e)
      <4>1. PICK p \in Poses :
               tpl' = [tpl EXCEPT ![e][p] = IF model THEN "model" ELSE "prototype"]
        BY <3>1 DEF Enroll
      <4> QED
        BY <4>1
    <3>2. CASE Reset(e)
      BY <3>2 DEF Reset, Blank
    <3> QED
      BY <1>3, <3>1, <3>2
  <2>2. code[e] \in Codes /\ PersonOf[e] \in People
    BY <1>3, NoneAssumption, PersonAssumption DEF Enroll, Reset, Staff, CodesKnown, Named
  <2>3. subjects' \in [Codes -> SUBSET People]
    BY <1>3, <2>2 DEF Enroll, Reset
  <2> QED
    BY <1>0, <1>3, <2>1, <2>3 DEF Enroll, Reset
<1>4. ASSUME NEW u \in Updates, ReadEntity(u) PROVE AdminTypes'
  BY <1>4 DEF ReadEntity
<1>5. ASSUME NEW u \in Updates, SaveEntity(u) PROVE AdminTypes'
  <2> DEFINE e == edit[u].emp
  <2>1. /\ e \in Employees /\ edit[u].code \in Codes \cup {None}
        /\ edit[u].status \in {"active", "inactive"}
    BY <1>5 DEF SaveEntity, EditsKnown, Named
  <2>2. CASE \E f \in Staff \ {e} : code[f] = edit[u].code
    BY <1>5, <2>2 DEF SaveEntity
  <2>3. CASE ~\E f \in Staff \ {e} : code[f] = edit[u].code
    <3> DEFINE s == IF edit[u].asked THEN edit[u].status ELSE wanted[e]
    <3>1. /\ status' = [status EXCEPT ![e] = edit[u].status]
          /\ code' = [code EXCEPT ![e] = edit[u].code]
          /\ Asked(u, e, s)
          /\ inherited' \subseteq inherited \cup {e}
          /\ Moves(e)
          /\ edit' = [edit EXCEPT ![u] = NoEdit]
          /\ UNCHANGED <<tpl, subjects, gone>>
      BY <1>5, <2>3 DEF SaveEntity
    <3>2. s \in {"absent", "active", "inactive", "any"}
      BY <2>1
    <3> HIDE DEF s, e
    <3>3. wanted' \in [Employees -> {"absent", "active", "inactive", "any"}]
      BY <2>1, <3>1, <3>2 DEF Asked
    <3> QED
      BY <1>0, <2>1, <3>1, <3>3
  <2> QED
    BY <2>2, <2>3
<1> QED
  BY <1>1, <1>2, <1>3, <1>4, <1>5 DEF Administer

LEMMA IdentifyTypesStep ==
    ASSUME IdentifyTypes, EditsKnown, CodesKnown, [IdentifyNext]_identifyVars
    PROVE  IdentifyTypes'
<1> USE DEF IdentifyTypes
<1>1. CASE UNCHANGED identifyVars
  BY <1>1 DEF identifyVars, rows, probing, history
<1>2. CASE Administer
  <2>1. AdminTypes'
    BY <1>2, AdminTypesStep DEF AdminTypes
  <2>2. UNCHANGED <<provider, model, probing>>
    BY <1>2 DEF Administer, Create, Remove, Enroll, Reset, ReadEntity, SaveEntity
  <2> QED
    BY <2>1, <2>2 DEF AdminTypes, probing
<1>3. CASE Restart
  <2>1. \A r \in Probes : answer'[r] = NoAnswer
    BY <1>3 DEF Restart
  <2>2. counters' \in [{"total", "accepted", "rejected"} -> Nat]
    BY <1>3 DEF Restart, NoCount
  <2> QED
    BY <1>3, <2>1, <2>2 DEF Restart, rows, NoAnswer
<1>4. ASSUME NEW r \in Probes, Probe(r) PROVE IdentifyTypes'
  <2>1. UNCHANGED <<provider, rows, edit, gone, wanted, inherited>>
    BY <1>4 DEF Probe, Begin, ProbeFails, FindEmployee, Recognize, FindSubject, Search, Judge,
                CheckLegacy, history
  <2>2. pc' \in [Probes -> {"idle", "employee", "recognize", "subject", "search", "status",
                            "legacy", "answered", "failed"}]
    <3>1. CASE Begin(r)
      <4>1. PICK step \in {"answered", "employee", "recognize", "search"} : Goto(r, step)
        BY <3>1 DEF Begin
      <4> QED
        BY <4>1 DEF Goto
    <3>2. CASE ~Begin(r)
      <4>1. PICK step \in {"subject", "search", "status", "legacy", "answered", "failed"} :
               Goto(r, step)
        BY <1>4, <3>2 DEF Probe, ProbeFails, FindEmployee, Recognize, FindSubject, Search, Judge,
                          CheckLegacy, Answer
      <4> QED
        BY <4>1 DEF Goto
    <3> QED
      BY <3>1, <3>2
  <2>3. DOMAIN ask' = Probes /\ DOMAIN found' = Probes
    BY <1>4 DEF Probe, Begin, ProbeFails, FindEmployee, Recognize, FindSubject, Search, Judge,
                CheckLegacy, Answer, Forget, Candidate
  <2>4. moved' \in [Probes -> SUBSET Employees]
    BY <1>4 DEF Probe, Begin, ProbeFails, FindEmployee, Recognize, FindSubject, Search, Judge,
                CheckLegacy, Answer, Forget, history
  <2>5. counters' \in [{"total", "accepted", "rejected"} -> Nat]
    <3>0. ASSUME NEW c \in {"total", "accepted", "rejected"}, Count(c)
          PROVE  counters' \in [{"total", "accepted", "rejected"} -> Nat]
      BY <3>0 DEF Count
    <3>1. CASE Begin(r)
      <4>1. counters' = counters \/ Count("total")
        BY <3>1 DEF Begin
      <4> QED
        BY <3>0, <4>1
    <3>2. CASE ProbeFails(r) \/ Recognize(r) \/ FindSubject(r) \/ CheckLegacy(r)
      BY <3>2 DEF ProbeFails, Recognize, FindSubject, CheckLegacy
    <3>3. CASE FindEmployee(r) \/ Search(r)
      <4>1. counters' = counters \/ Count("rejected")
        BY <3>3 DEF FindEmployee, Search
      <4> QED
        BY <3>0, <4>1
    <3>4. CASE Judge(r)
      <4>1. Count("accepted") \/ Count("rejected")
        BY <3>4 DEF Judge
      <4> QED
        BY <3>0, <4>1
    <3> QED
      BY <1>4, <3>1, <3>2, <3>3, <3>4 DEF Probe
  <2>6. DOMAIN answer' = Probes /\ \A q \in Probes : DOMAIN answer'[q] = {"ok", "reason", "emp"}
    <3> DEFINE Shaped == /\ DOMAIN answer' = Probes
                         /\ \A q \in Probes : DOMAIN answer'[q] = {"ok", "reason", "emp"}
    <3>1. ASSUME NEW ok, NEW reason, NEW e, Answer(r, ok, reason, e)
          PROVE  Shaped
      BY <3>1 DEF Answer
    <3>2. CASE UNCHANGED answer
      BY <3>2
    <3>3. CASE Begin(r) \/ ProbeFails(r)
      BY <3>3 DEF Begin, ProbeFails, NoAnswer
    <3>4. CASE Judge(r)
      <4>1. CASE ~Rechecks(r)
        <5>1. PICK ok, reason, e : Answer(r, ok, reason, e)
          BY <3>4, <4>1, Zenon DEF Judge
        <5> QED
          BY <3>1, <5>1
      <4>2. CASE Rechecks(r)
        <5>1. PICK ok, e : answer' = [answer EXCEPT ![r].ok = ok, ![r].emp = e]
          BY <3>4, <4>2, Zenon DEF Judge
        <5> QED
          BY <5>1
      <4> QED
        BY <4>1, <4>2
    <3>5. CASE FindEmployee(r) \/ Recognize(r) \/ FindSubject(r) \/ Search(r) \/ CheckLegacy(r)
      <4>1. UNCHANGED answer \/ \E ok, reason, e : Answer(r, ok, reason, e)
        BY <3>5, Zenon DEF FindEmployee, Recognize, FindSubject, Search, CheckLegacy
      <4> QED
        BY <3>1, <3>2, <4>1
    <3> QED
      BY <1>4, <3>3, <3>4, <3>5 DEF Probe
  <2> QED
    BY <2>1, <2>2, <2>3, <2>4, <2>5, <2>6 DEF rows
<1> QED
  BY <1>1, <1>2, <1>3, <1>4 DEF IdentifyNext

-----------------------------------------------------------------------------
(* Administration. *)

\* Whom a step of an administrator changes, the probes that it may concern
\* remember; a code stays with whom it was given to.
LEMMA AdminMarks ==
    ASSUME IdentifyTypes, EditsKnown, CodesKnown, Administer
    PROVE  /\ UNCHANGED <<provider, model, probing>>
           /\ inherited \subseteq inherited'
           /\ \A e \in Named : code'[e] = code[e]
           /\ \A r \in Probes : InFlight(r) \/ answer[r].ok =>
                 /\ moved[r] \subseteq moved'[r]
                 /\ \A e \in Employees \ moved'[r] : status'[e] = status[e] /\ tpl'[e] = tpl[e]
<1> USE DEF IdentifyTypes, history, rows
<1>0. UNCHANGED <<provider, model, probing>>
  BY DEF Administer, Create, Remove, Enroll, Reset, ReadEntity, SaveEntity
\* Only e changes, and is remembered.
<1>1. ASSUME NEW e \in Employees, Moves(e), inherited \subseteq inherited',
             \A f \in Employees \ {e} : status'[f] = status[f] /\ tpl'[f] = tpl[f],
             \A f \in Named : code'[f] = code[f]
      PROVE  /\ inherited \subseteq inherited'
             /\ \A f \in Named : code'[f] = code[f]
             /\ \A r \in Probes : InFlight(r) \/ answer[r].ok =>
                   /\ moved[r] \subseteq moved'[r]
                   /\ \A f \in Employees \ moved'[r] : status'[f] = status[f] /\ tpl'[f] = tpl[f]
  <2>1. \A r \in Probes : InFlight(r) \/ answer[r].ok => moved'[r] = moved[r] \cup {e}
    BY <1>1 DEF Moves
  <2> QED
    BY <1>1, <2>1
<1>2. ASSUME NEW e \in Employees, Create(e) \/ Remove(e) \/ Enroll(e) \/ Reset(e)
      PROVE  /\ Moves(e) /\ inherited \subseteq inherited'
             /\ \A f \in Employees \ {e} : status'[f] = status[f] /\ tpl'[f] = tpl[f]
             /\ \A f \in Named : code'[f] = code[f]
  <2>1. CASE Create(e)
    BY <2>1 DEF Create, Named, CodesKnown
  <2>2. CASE Remove(e)
    BY <2>2 DEF Remove, Named
  <2>3. CASE Enroll(e)
    BY <2>3 DEF Enroll, Named
  <2>4. CASE Reset(e)
    BY <2>4 DEF Reset, Named
  <2> QED
    BY <1>2, <2>1, <2>2, <2>3, <2>4
<1>3. ASSUME NEW u \in Updates, SaveEntity(u)
      PROVE  /\ inherited \subseteq inherited'
             /\ \A f \in Named : code'[f] = code[f]
             /\ \A r \in Probes : InFlight(r) \/ answer[r].ok =>
                   /\ moved[r] \subseteq moved'[r]
                   /\ \A f \in Employees \ moved'[r] : status'[f] = status[f] /\ tpl'[f] = tpl[f]
  <2> DEFINE e == edit[u].emp
  <2>1. e \in Employees /\ edit[u].code = code[e]
    BY <1>3 DEF SaveEntity, EditsKnown, Named
  <2>2. CASE \E f \in Staff \ {e} : code[f] = edit[u].code
    BY <1>3, <2>2 DEF SaveEntity, Named
  <2>3. CASE ~\E f \in Staff \ {e} : code[f] = edit[u].code
    <3>1. /\ status' = [status EXCEPT ![e] = edit[u].status]
          /\ code' = [code EXCEPT ![e] = edit[u].code]
          /\ inherited \subseteq inherited'
          /\ Moves(e)
          /\ tpl' = tpl
      BY <1>3, <2>3 DEF SaveEntity
    <3> HIDE DEF e
    <3>2. /\ \A f \in Employees \ {e} : status'[f] = status[f] /\ tpl'[f] = tpl[f]
          /\ \A f \in Named : code'[f] = code[f]
      BY <2>1, <3>1 DEF Named
    <3> QED
      BY <1>1, <2>1, <3>1, <3>2
  <2> QED
    BY <2>2, <2>3
<1>4. ASSUME NEW u \in Updates, ReadEntity(u)
      PROVE  /\ inherited' = inherited /\ code' = code /\ moved' = moved
             /\ status' = status /\ tpl' = tpl
  BY <1>4 DEF ReadEntity
<1> QED
  BY <1>0, <1>1, <1>2, <1>3, <1>4 DEF Administer

\* What an update holds when it is saved.
LEMMA SavedEntity ==
    ASSUME IdentifyTypes, EditsKnown, CodesKnown, NEW u \in Updates, SaveEntity(u)
    PROVE  LET e == edit[u].emp IN
           /\ e \in Named /\ edit[u].code = code[e] /\ edit[u].status \in {"active", "inactive"}
           /\ code' = code
           /\ edit' = [edit EXCEPT ![u] = NoEdit] /\ gone' = gone /\ subjects' = subjects
           /\ \/ UNCHANGED <<status, wanted, inherited>>
              \/ /\ \A f \in Staff \ {e} : code[f] # code[e]
                 /\ status' = [status EXCEPT ![e] = edit[u].status]
                 /\ Asked(u, e, IF edit[u].asked THEN edit[u].status ELSE wanted[e])
                 /\ inherited' = IF e \notin Staff /\ \E f \in gone \ {e} : code[f] = code[e]
                                 THEN inherited \cup {e} ELSE inherited
<1> DEFINE e == edit[u].emp
<1>1. /\ e \in Named /\ edit[u].code = code[e] /\ edit[u].status \in {"active", "inactive"}
  BY DEF SaveEntity, EditsKnown
<1>2. e \in Employees /\ code \in [Employees -> Codes \cup {None}]
  BY <1>1 DEF Named, IdentifyTypes
<1>3. /\ edit' = [edit EXCEPT ![u] = NoEdit] /\ gone' = gone /\ subjects' = subjects
  BY DEF SaveEntity, rows
<1>4. CASE \E f \in Staff \ {e} : code[f] = edit[u].code
  BY <1>1, <1>3, <1>4 DEF SaveEntity, rows
<1>5. CASE ~\E f \in Staff \ {e} : code[f] = edit[u].code
  <2>1. /\ status' = [status EXCEPT ![e] = edit[u].status]
        /\ code' = [code EXCEPT ![e] = edit[u].code]
        /\ Asked(u, e, IF edit[u].asked THEN edit[u].status ELSE wanted[e])
        /\ inherited' = IF e \notin Staff /\ \E f \in gone \ {e} : code[f] = edit[u].code
                        THEN inherited \cup {e} ELSE inherited
    BY <1>5 DEF SaveEntity
  <2>2. code' = code
    BY <1>1, <1>2, <2>1
  <2> HIDE DEF e
  <2>3. /\ \A f \in Staff \ {e} : code[f] # code[e]
        /\ inherited' = IF e \notin Staff /\ \E f \in gone \ {e} : code[f] = code[e]
                        THEN inherited \cup {e} ELSE inherited
    BY <1>1, <1>5, <2>1
  <2> QED
    BY <1>1, <1>3, <2>1, <2>2, <2>3 DEF e
<1> QED
  BY <1>4, <1>5

\* What was last asked for, after another change of the same row.
LEMMA AskedAgain ==
    ASSUME IdentifyTypes, NEW u, NEW e \in Employees,
           NEW s \in {"absent", "active", "inactive", "any"}, Asked(u, e, s)
    PROVE  /\ wanted' \in [Employees -> {"absent", "active", "inactive", "any"}]
           /\ \A f \in Employees \ {e} : wanted'[f] = wanted[f]
           /\ wanted'[e] \in {s, "any"}
           /\ wanted[e] = "any" => wanted'[e] = "any"
           /\ \A v \in Updates \ {u} : edit[v].emp = e => wanted'[e] = "any"
BY DEF Asked, IdentifyTypes

\* Every step of an administrator keeps what is known of updates and codes.
LEMMA EditsKnownStep ==
    ASSUME IdentifyTypes, EditsKnown, CodesKnown, EditsHold, Administer
    PROVE  EditsKnown' /\ EditsHold'
<1> USE DEF IdentifyTypes, history, rows
<1>1. ASSUME NEW e \in Employees, Create(e) PROVE EditsKnown' /\ EditsHold'
  <2>1. e \notin Named
    BY <1>1 DEF Create, CodesKnown
  <2>2. PICK c \in Codes, s \in {"active", "inactive"} :
          /\ code' = [code EXCEPT ![e] = c]
          /\ status' = [status EXCEPT ![e] = s]
          /\ wanted' = [wanted EXCEPT ![e] = s]
    BY <1>1 DEF Create
  <2>3. edit' = edit
    BY <1>1 DEF Create
  <2>4. EditsHold'
    BY <2>2 DEF EditsHold
  <2>5. \A f \in Named : f \in Named' /\ code'[f] = code[f] /\ wanted'[f] = wanted[f]
    BY <2>1, <2>2 DEF Named
  <2> QED
    BY <2>3, <2>4, <2>5 DEF EditsKnown
<1>2. ASSUME NEW e \in Employees, Remove(e) PROVE EditsKnown' /\ EditsHold'
  <2>1. /\ status' = [status EXCEPT ![e] = "absent"] /\ code' = code /\ edit' = edit
        /\ Asked(None, e, "absent")
    BY <1>2 DEF Remove
  <2>2. /\ \A f \in Employees \ {e} : wanted'[f] = wanted[f]
        /\ wanted'[e] \in {"absent", "any"}
        /\ \A v \in Updates \ {None} : edit[v].emp = e => wanted'[e] = "any"
    BY <2>1, AskedAgain
  <2>3. EditsHold'
    BY <2>1, <2>2 DEF EditsHold
  <2>4. None \notin Updates
    BY NoneAssumption
  <2>5. EditsKnown'
    BY <2>1, <2>2, <2>4 DEF EditsKnown, Named
  <2> QED
    BY <2>3, <2>5
<1>3. ASSUME NEW e \in Employees, Enroll(e) \/ Reset(e) PROVE EditsKnown' /\ EditsHold'
  <2>1. UNCHANGED <<status, code, edit, wanted>>
    BY <1>3 DEF Enroll, Reset
  <2> QED
    BY <2>1 DEF EditsKnown, EditsHold, Named
<1>4. ASSUME NEW u \in Updates, ReadEntity(u) PROVE EditsKnown' /\ EditsHold'
  <2>1. UNCHANGED <<status, code, wanted>>
    BY <1>4 DEF ReadEntity
  <2>2. PICK e \in Staff, s \in {"active", "inactive"}, asked \in BOOLEAN :
           /\ ~asked => s = status[e]
           /\ edit' = [edit EXCEPT ![u] = [emp |-> e, code |-> code[e], status |-> s, asked |-> asked]]
    BY <1>4 DEF ReadEntity
  <2>3. e \in Named /\ e \in Employees
    BY DEF Staff, CodesKnown
  <2>4. asked \/ s = wanted[e] \/ wanted[e] = "any"
    BY <2>2, <2>3 DEF EditsHold
  <2>5. /\ edit'[u].emp = e /\ edit'[u].code = code[e] /\ edit'[u].status = s
        /\ edit'[u].asked = asked
    BY <2>2
  <2>6. \A v \in Updates \ {u} : edit'[v] = edit[v]
    BY <2>2
  <2>7. EditsKnown'
    BY <2>1, <2>3, <2>4, <2>5, <2>6 DEF EditsKnown, Named
  <2> QED
    BY <2>1, <2>7 DEF EditsHold
<1>5. ASSUME NEW u \in Updates, SaveEntity(u) PROVE EditsKnown' /\ EditsHold'
  <2> DEFINE e == edit[u].emp
             s == IF edit[u].asked THEN edit[u].status ELSE wanted[e]
  <2>1. /\ e \in Named /\ edit[u].code = code[e] /\ edit[u].status \in {"active", "inactive"}
        /\ code' = code /\ edit' = [edit EXCEPT ![u] = NoEdit]
        /\ edit[u].asked \/ edit[u].status = wanted[e] \/ wanted[e] = "any"
        /\ \/ UNCHANGED <<status, wanted>>
           \/ status' = [status EXCEPT ![e] = edit[u].status] /\ Asked(u, e, s)
    BY <1>5, SavedEntity DEF SaveEntity, EditsKnown
  <2>2. e \in Employees /\ s \in {"absent", "active", "inactive", "any"}
    BY <2>1 DEF Named
  <2>3. s = edit[u].status \/ wanted[e] = "any"
    BY <2>1
  <2>4. edit'[u] = NoEdit /\ \A v \in Updates \ {u} : edit'[v] = edit[v]
    BY <2>1
  <2>5. CASE UNCHANGED <<status, wanted>>
    BY <2>1, <2>4, <2>5 DEF EditsKnown, EditsHold, Named
  <2>6. CASE status' = [status EXCEPT ![e] = edit[u].status] /\ Asked(u, e, s)
    <3> HIDE DEF e, s
    <3>1. /\ \A f \in Employees \ {e} : wanted'[f] = wanted[f]
          /\ wanted'[e] \in {s, "any"}
          /\ wanted[e] = "any" => wanted'[e] = "any"
          /\ \A v \in Updates \ {u} : edit[v].emp = e => wanted'[e] = "any"
      BY <2>2, <2>6, AskedAgain
    <3>2. wanted'[e] \in {edit[u].status, "any"}
      BY <2>3, <3>1
    <3>3. EditsHold'
      BY <2>1, <2>2, <2>6, <3>1, <3>2 DEF EditsHold
    <3>4. EditsKnown'
      BY <2>1, <2>4, <3>1 DEF EditsKnown, Named
    <3> QED
      BY <3>3, <3>4
  <2> QED
    BY <2>1, <2>5, <2>6
<1> QED
  BY <1>1, <1>2, <1>3, <1>4, <1>5 DEF Administer

LEMMA CodesKnownStep ==
    ASSUME IdentifyTypes, EditsKnown, CodesKnown, Administer
    PROVE  CodesKnown'
<1> USE DEF IdentifyTypes, history, rows
<1>0. None \notin Codes
  BY NoneAssumption
\* Photographs stay with somebody who has the code.
<1>01. ASSUME \A e \in Named : code'[e] = code[e],
              \A c \in Codes : \A x \in subjects'[c] :
                 x \in subjects[c] \/ \E g \in Named : code[g] = c /\ PersonOf[g] = x
       PROVE  \A c \in Codes : \A x \in subjects'[c] :
                 \E g \in Employees : code'[g] = c /\ PersonOf[g] = x
  <2> SUFFICES ASSUME NEW c \in Codes, NEW x \in subjects'[c]
               PROVE  \E g \in Employees : code'[g] = c /\ PersonOf[g] = x
    OBVIOUS
  <2>1. PICK g \in Employees : code[g] = c /\ PersonOf[g] = x
    BY <1>01 DEF CodesKnown, Named
  <2>2. g \in Named
    BY <1>0, <2>1 DEF Named
  <2> QED
    BY <1>01, <2>1, <2>2
<1>1. ASSUME NEW e \in Employees, Create(e) PROVE CodesKnown'
  <2>1. status[e] = "absent" /\ e \notin gone /\ e \notin Named
    BY <1>1 DEF Create, CodesKnown
  <2>2. PICK c \in Codes \ {code[f] : f \in Staff}, s \in {"active", "inactive"} :
          /\ code' = [code EXCEPT ![e] = c]
          /\ status' = [status EXCEPT ![e] = s]
          /\ inherited' = IF \E f \in gone : code[f] = c THEN inherited \cup {e} ELSE inherited
    BY <1>1 DEF Create
  <2>3. subjects' = subjects /\ gone' = gone
    BY <1>1 DEF Create
  <2>4. /\ \A f \in Employees \ {e} : code'[f] = code[f] /\ status'[f] = status[f]
        /\ code'[e] = c /\ status'[e] = s /\ c # None /\ s # "absent"
    BY <1>0, <2>2
  <2>5. \A f \in Employees : status'[f] # "absent" \/ f \in gone' <=> f \in Named'
    BY <2>3, <2>4 DEF CodesKnown, Named
  <2>6. ASSUME NEW f \in Staff' \ inherited', NEW g \in Employees, g # f PROVE code'[g] # code'[f]
    <3>1. CASE f = e
      <4>1. \A h \in gone : code[h] # c
        BY <2>2, <2>6, <3>1
      <4>2. g \in Staff \/ g \in gone \/ code[g] = None
        BY DEF Staff, CodesKnown, Named
      <4> QED
        BY <2>2, <2>4, <2>6, <3>1, <4>1, <4>2
    <3>2. CASE f # e
      <4>1. f \in Staff \ inherited /\ f \in Employees
        BY <2>2, <2>4, <2>6, <3>2 DEF Staff
      <4>2. code[g] # code[f]
        BY <2>6, <4>1 DEF CodesKnown
      <4>3. c # code[f]
        BY <2>2, <4>1
      <4> QED
        BY <2>4, <3>2, <4>1, <4>2, <4>3
    <3> QED
      BY <3>1, <3>2
  <2>7. \A h \in Named : code'[h] = code[h]
    BY <2>1, <2>4 DEF Named
  <2>8. \A d \in Codes : \A x \in subjects'[d] :
           \E g \in Employees : code'[g] = d /\ PersonOf[g] = x
    BY <1>01, <2>3, <2>7
  <2>9. \A f \in Employees, g \in Employees :
           f \in Staff' \ inherited' /\ g # f => code'[g] # code'[f]
    BY <2>6
  <2> QED
    BY <2>5, <2>8, <2>9 DEF CodesKnown
<1>2. ASSUME NEW e \in Employees, Remove(e) PROVE CodesKnown'
  <2>1. /\ e \in Staff /\ status' = [status EXCEPT ![e] = "absent"] /\ gone' = gone \cup {e}
        /\ code' = code /\ subjects' = subjects /\ inherited' = inherited
    BY <1>2 DEF Remove
  <2>2. Staff' = Staff \ {e} /\ Named' = Named
    BY <2>1 DEF Staff, Named
  <2>3. \A f \in Employees : status'[f] # "absent" \/ f \in gone' <=> f \in Named'
    BY <2>1, <2>2 DEF CodesKnown, Staff
  <2> QED
    BY <2>1, <2>2, <2>3 DEF CodesKnown
<1>3. ASSUME NEW e \in Employees, Enroll(e) \/ Reset(e) PROVE CodesKnown'
  <2>1. /\ e \in Staff /\ status' = status /\ code' = code /\ gone' = gone /\ inherited' = inherited
    BY <1>3 DEF Enroll, Reset
  <2>2. e \in Named
    BY <2>1 DEF CodesKnown, Staff
  <2>3. \A c \in Codes : \A x \in subjects'[c] :
           x \in subjects[c] \/ \E g \in Named : code[g] = c /\ PersonOf[g] = x
    BY <1>3, <2>2 DEF Enroll, Reset
  <2>4. \A d \in Codes : \A x \in subjects'[d] :
           \E g \in Employees : code'[g] = d /\ PersonOf[g] = x
    BY <1>01, <2>1, <2>3
  <2> QED
    BY <2>1, <2>4 DEF CodesKnown, Staff, Named
<1>4. ASSUME NEW u \in Updates, ReadEntity(u) PROVE CodesKnown'
  BY <1>4 DEF ReadEntity, CodesKnown, Staff, Named
<1>5. ASSUME NEW u \in Updates, SaveEntity(u) PROVE CodesKnown'
  <2> DEFINE e == edit[u].emp
  <2>1. /\ e \in Named /\ edit[u].status \in {"active", "inactive"}
        /\ code' = code /\ gone' = gone /\ subjects' = subjects
        /\ \/ UNCHANGED <<status, inherited>>
           \/ /\ \A f \in Staff \ {e} : code[f] # code[e]
              /\ status' = [status EXCEPT ![e] = edit[u].status]
              /\ inherited' = IF e \notin Staff /\ \E f \in gone \ {e} : code[f] = code[e]
                              THEN inherited \cup {e} ELSE inherited
    BY <1>5, SavedEntity
  <2> HIDE DEF e
  <2>2. CASE UNCHANGED <<status, inherited>>
    BY <2>1, <2>2 DEF CodesKnown, Staff, Named
  <2>3. CASE /\ \A f \in Staff \ {e} : code[f] # code[e]
             /\ status' = [status EXCEPT ![e] = edit[u].status]
             /\ inherited' = IF e \notin Staff /\ \E f \in gone \ {e} : code[f] = code[e]
                             THEN inherited \cup {e} ELSE inherited
    <3>1. /\ \A f \in Employees \ {e} : status'[f] = status[f]
          /\ status'[e] # "absent" /\ e \in Employees /\ Named' = Named
      BY <2>1, <2>3 DEF Named
    <3>2. \A f \in Employees : status'[f] # "absent" \/ f \in gone' <=> f \in Named'
      BY <2>1, <3>1 DEF CodesKnown
    <3>3. ASSUME NEW f \in Employees, f \in Staff' \ inherited', NEW g \in Employees, g # f
          PROVE  code'[g] # code'[f]
      <4>1. CASE f \in Staff
        <5>1. f \notin inherited
          BY <2>3, <3>3
        <5> QED
          BY <2>1, <3>3, <4>1, <5>1 DEF CodesKnown
      <4>2. CASE f \notin Staff
        <5>1. f = e
          BY <3>1, <3>3, <4>2 DEF Staff
        <5>2. \A h \in gone \ {e} : code[h] # code[e]
          BY <2>3, <3>3, <4>2, <5>1
        <5>3. g \in Staff \/ g \in gone \/ code[g] = None
          BY DEF Staff, CodesKnown, Named
        <5>4. code[e] # None
          BY <2>1 DEF Named
        <5> QED
          BY <2>1, <2>3, <3>3, <5>1, <5>2, <5>3, <5>4
      <4> QED
        BY <4>1, <4>2
    <3> QED
      BY <2>1, <3>2, <3>3 DEF CodesKnown
  <2> QED
    BY <2>1, <2>2, <2>3
<1> QED
  BY <1>1, <1>2, <1>3, <1>4, <1>5 DEF Administer

-----------------------------------------------------------------------------
(* Probes. *)

\* A step of an administrator leaves what probes know true.
LEMMA FoundAdmin ==
    ASSUME IdentifyTypes, EditsKnown, CodesKnown, AcceptedIsTheFace, AcceptedIsEnrolled,
           \A r \in Probes : FoundKnown(r) /\ AnswerKnown(r), Administer
    PROVE  /\ \A r \in Probes : FoundKnown(r)' /\ AnswerKnown(r)'
           /\ AcceptedIsTheFace' /\ AcceptedIsEnrolled'
<1>1. /\ provider' = provider /\ pc' = pc /\ ask' = ask /\ found' = found /\ answer' = answer
      /\ inherited \subseteq inherited'
      /\ \A e \in Named : code'[e] = code[e]
      /\ \A r \in Probes : InFlight(r) \/ answer[r].ok =>
            /\ moved[r] \subseteq moved'[r]
            /\ \A e \in Employees \ moved'[r] : status'[e] = status[e] /\ tpl'[e] = tpl[e]
  BY AdminMarks DEF probing
<1>2. \A r \in Probes : AnswerKnown(r)'
  BY <1>1 DEF AnswerKnown
<1>3. ASSUME NEW r \in Probes PROVE FoundKnown(r)'
  <2>1. ASSUME pc[r] = "subject", found[r].similar
        PROVE  \E g \in Employees : code'[g] = found[r].emp /\ PersonOf[g] = ask[r].who
    <3>1. PICK g \in Employees : code[g] = found[r].emp /\ PersonOf[g] = ask[r].who
      BY <2>1 DEF FoundKnown
    <3>2. g \in Named
      BY <2>1, <3>1, NoneAssumption DEF FoundKnown, Named
    <3> QED
      BY <1>1, <3>1, <3>2
  <2>2. ASSUME pc[r] \in {"status", "legacy"}, found[r].emp # None, found[r].emp \notin moved'[r]
        PROVE  found[r].emp \in Active'
    <3>1. InFlight(r)
      BY <2>2 DEF InFlight
    <3>2. found[r].emp \in Employees \ moved'[r] /\ found[r].emp \in Active
      BY <1>1, <2>2, <3>1 DEF FoundKnown
    <3> QED
      BY <1>1, <3>1, <3>2 DEF Active
  <2> QED
    BY <1>1, <2>1, <2>2 DEF FoundKnown
<1>4. AcceptedIsTheFace'
  BY <1>1 DEF AcceptedIsTheFace
<1>5. AcceptedIsEnrolled'
  <2> SUFFICES ASSUME NEW r \in Probes, answer[r].ok, answer[r].emp \notin moved'[r]
               PROVE  answer[r].emp \in Active' /\ Complete(answer[r].emp)'
    BY <1>1 DEF AcceptedIsEnrolled
  <2>1. answer[r].emp \in Active /\ Complete(answer[r].emp)
    BY <1>1 DEF AcceptedIsEnrolled
  <2>2. answer[r].emp \in Employees \ moved'[r]
    BY DEF AnswerKnown
  <2> QED
    BY <1>1, <2>1, <2>2 DEF Active, Complete
<1> QED
  BY <1>2, <1>3, <1>4, <1>5

\* A step of one probe concerns no other, and no employee.
LEMMA ProbeAlone ==
    ASSUME IdentifyTypes, NEW r \in Probes, Probe(r)
    PROVE  /\ UNCHANGED <<provider, model, rows, edit, gone, wanted, inherited>>
           /\ \A q \in Probes \ {r} :
                 /\ pc'[q] = pc[q] /\ ask'[q] = ask[q] /\ found'[q] = found[q]
                 /\ answer'[q] = answer[q] /\ moved'[q] = moved[q]
<1> USE DEF IdentifyTypes, history
<1>1. UNCHANGED <<provider, model, rows, edit, gone, wanted, inherited>>
  BY DEF Probe, Begin, ProbeFails, FindEmployee, Recognize, FindSubject, Search, Judge, CheckLegacy
<1>2. \A q \in Probes \ {r} : pc'[q] = pc[q]
  <2>1. \E step : Goto(r, step)
    BY DEF Probe, Begin, ProbeFails, FindEmployee, Recognize, FindSubject, Search, Judge,
           CheckLegacy, Answer
  <2> QED
    BY <2>1 DEF Goto
<1>3. \A q \in Probes \ {r} : ask'[q] = ask[q] /\ moved'[q] = moved[q]
  BY DEF Probe, Begin, ProbeFails, FindEmployee, Recognize, FindSubject, Search, Judge,
         CheckLegacy, Answer, Forget
<1>4. \A q \in Probes \ {r} : found'[q] = found[q]
  BY DEF Probe, Begin, ProbeFails, FindEmployee, Recognize, FindSubject, Search, Judge,
         CheckLegacy, Answer, Forget, Candidate
<1>5. \A q \in Probes \ {r} : answer'[q] = answer[q]
  BY DEF Probe, Begin, ProbeFails, FindEmployee, Recognize, FindSubject, Search, Judge,
         CheckLegacy, Answer
<1> QED
  BY <1>1, <1>2, <1>3, <1>4, <1>5

\* Without the face, the photographs or the enrollment nobody is accepted.
Accepts(r) ==
    /\ found[r].emp # None /\ found[r].similar
    /\ BlockReason(Subject(r)) = "none" /\ ask[r].live

\* The verdict, and the count of it.
LEMMA Verdict ==
    ASSUME IdentifyTypes, NEW r \in Probes, Judge(r)
    PROVE  /\ pc[r] = "status" /\ pc'[r] \in {"legacy", "answered"}
           /\ pc'[r] = "legacy" =>
                 ask'[r] = ask[r] /\ found'[r] = found[r] /\ moved'[r] = moved[r]
           /\ pc'[r] = "answered" => answer'[r].reason # "missing_image"
           /\ \/ /\ Accepts(r) /\ answer'[r].ok = TRUE /\ Count("accepted")
                 /\ answer'[r].emp = found[r].emp
                 /\ ask'[r] = ask[r] /\ moved'[r] = moved[r]
              \/ ~Accepts(r) /\ answer'[r].ok = FALSE /\ Count("rejected")
<1> USE DEF IdentifyTypes
<1> DEFINE reason == IF BlockReason(Subject(r)) = "none" THEN Refusal(r) ELSE BlockReason(Subject(r))
<1>1. reason # "missing_image"
  BY DEF Refusal, BlockReason
<1> HIDE DEF reason
<1>2. pc[r] = "status"
  BY DEF Judge
<1>3. CASE Accepts(r)
  <2>1. CASE Rechecks(r)
    <3>1. /\ Goto(r, "legacy") /\ Count("accepted")
          /\ answer' = [answer EXCEPT ![r].ok = TRUE, ![r].emp = found[r].emp]
          /\ UNCHANGED <<ask, found, moved>>
      BY <1>3, <2>1 DEF Judge, Accepts
    <3>2. answer'[r].ok = TRUE /\ answer'[r].emp = found[r].emp
      BY <3>1
    <3> QED
      BY <1>2, <1>3, <3>1, <3>2 DEF Goto
  <2>2. CASE ~Rechecks(r)
    <3>1. Answer(r, TRUE, reason, found[r].emp) /\ Count("accepted")
      BY <1>3, <2>2 DEF Judge, Accepts, reason
    <3>2. /\ answer'[r].ok = TRUE /\ answer'[r].emp = found[r].emp /\ answer'[r].reason = reason
          /\ pc'[r] = "answered" /\ ask' = ask /\ moved' = moved
      BY <3>1 DEF Answer, Goto, Forget
    <3> QED
      BY <1>1, <1>2, <1>3, <3>1, <3>2
  <2> QED
    BY <2>1, <2>2
<1>4. CASE ~Accepts(r)
  <2>1. CASE Rechecks(r)
    <3>1. /\ Goto(r, "legacy") /\ Count("rejected")
          /\ answer' = [answer EXCEPT ![r].ok = FALSE, ![r].emp = None]
          /\ UNCHANGED <<ask, found, moved>>
      BY <1>4, <2>1 DEF Judge, Accepts
    <3>2. answer'[r].ok = FALSE
      BY <3>1
    <3> QED
      BY <1>2, <1>4, <3>1, <3>2 DEF Goto
  <2>2. CASE ~Rechecks(r)
    <3>1. Answer(r, FALSE, reason, None) /\ Count("rejected")
      BY <1>4, <2>2 DEF Judge, Accepts, reason
    <3>2. answer'[r].ok = FALSE /\ answer'[r].reason = reason /\ pc'[r] = "answered"
      BY <3>1 DEF Answer, Goto
    <3> QED
      BY <1>1, <1>2, <1>4, <3>1, <3>2
  <2> QED
    BY <2>1, <2>2
<1> QED
  BY <1>3, <1>4

\* What a probe does keeps what it knows.
LEMMA FoundProbe ==
    ASSUME IdentifyTypes, CodesKnown, NEW r \in Probes, Probe(r),
           FoundKnown(r), AnswerKnown(r), AcceptedIsTheFace, AcceptedIsEnrolled
    PROVE  /\ FoundKnown(r)' /\ AnswerKnown(r)'
           /\ answer'[r].ok =>
                 /\ ask'[r].bound \in {answer'[r].emp, None}
                 /\ \/ PersonOf[answer'[r].emp] = ask'[r].who
                    \/ provider' = "compreface" /\ answer'[r].emp \in inherited'
           /\ answer'[r].ok /\ answer'[r].emp \notin moved'[r] =>
                 answer'[r].emp \in Active' /\ \A p \in Poses : tpl'[answer'[r].emp][p] # "none"
<1> USE DEF IdentifyTypes
<1> DEFINE Right == answer'[r].ok =>
                      /\ ask'[r].bound \in {answer'[r].emp, None}
                      /\ \/ PersonOf[answer'[r].emp] = ask'[r].who
                         \/ provider' = "compreface" /\ answer'[r].emp \in inherited'
           Held == answer'[r].ok /\ answer'[r].emp \notin moved'[r] =>
                      answer'[r].emp \in Active' /\ \A p \in Poses : tpl'[answer'[r].emp][p] # "none"
           Good == FoundKnown(r)' /\ AnswerKnown(r)' /\ Right /\ Held
<1>0. /\ provider' = provider /\ inherited' = inherited /\ code' = code /\ Active' = Active
      /\ status' = status /\ tpl' = tpl /\ subjects' = subjects
  BY ProbeAlone DEF rows, Active
\* Nobody is accepted.
<1>01. ASSUME answer'[r].ok = FALSE, pc'[r] \in {"answered", "failed"},
              pc'[r] = "failed" => answer'[r].reason = "none"
       PROVE  Good
  BY <1>01 DEF FoundKnown, AnswerKnown
\* A query was answered, and the verdict is still out.
<1>02. ASSUME UNCHANGED answer, pc[r] \notin {"legacy", "answered"}
       PROVE  AnswerKnown(r)' /\ Right /\ Held
  <2>1. ~answer'[r].ok /\ answer'[r].reason = "none"
    BY <1>02 DEF AnswerKnown
  <2> QED
    BY <2>1, Zenon DEF AnswerKnown
<1>1. CASE Begin(r)
  <2>1. /\ pc[r] = "idle" /\ found' = found
        /\ \/ Goto(r, "answered") /\ answer' = [answer EXCEPT ![r].reason = "missing_image"]
           \/ /\ UNCHANGED answer
              /\ \/ Goto(r, "employee") \/ Goto(r, "search")
                 \/ Goto(r, "recognize") /\ ask'[r].bound = None /\ provider = "compreface"
    <3>1. PICK input, live, who, bound :
             \/ Goto(r, "answered") /\ answer' = [answer EXCEPT ![r].reason = "missing_image"]
             \/ /\ UNCHANGED answer
                /\ ask' = [ask EXCEPT ![r] = [who |-> who, input |-> input,
                                               live |-> live, bound |-> bound]]
                /\ Goto(r, IF bound # None THEN "employee"
                           ELSE IF provider = "compreface" THEN "recognize" ELSE "search")
      BY <1>1 DEF Begin
    <3> DEFINE asked == [who |-> who, input |-> input, live |-> live, bound |-> bound]
    <3>2. ASSUME ask' = [ask EXCEPT ![r] = asked] PROVE ask'[r].bound = bound
      BY <3>2
    <3>3. pc[r] = "idle" /\ found' = found
      BY <1>1 DEF Begin
    <3>4. CASE Goto(r, "answered") /\ answer' = [answer EXCEPT ![r].reason = "missing_image"]
      BY <3>3, <3>4
    <3>5. CASE /\ UNCHANGED answer /\ ask' = [ask EXCEPT ![r] = asked]
               /\ Goto(r, IF bound # None THEN "employee"
                          ELSE IF provider = "compreface" THEN "recognize" ELSE "search")
      <4> HIDE DEF asked
      <4>1. ask'[r].bound = bound
        BY <3>2, <3>5
      <4>2. CASE bound # None
        BY <3>3, <3>5, <4>2
      <4>3. CASE bound = None /\ provider = "compreface"
        BY <3>3, <3>5, <4>1, <4>3
      <4>4. CASE bound = None /\ provider # "compreface"
        BY <3>3, <3>5, <4>4
      <4> QED
        BY <4>2, <4>3, <4>4
    <3> QED
      BY <3>1, <3>4, <3>5
  <2>2. found[r] = NoMatch /\ ~answer[r].ok
    BY <2>1 DEF FoundKnown, AnswerKnown
  <2>3. CASE Goto(r, "answered") /\ answer' = [answer EXCEPT ![r].reason = "missing_image"]
    <3>1. answer'[r].ok = answer[r].ok /\ pc'[r] = "answered"
      BY <2>3 DEF Goto
    <3> QED
      BY <2>2, <3>1 DEF FoundKnown, AnswerKnown
  <2>4. CASE UNCHANGED answer
    <3>1. /\ pc'[r] \in {"employee", "search", "recognize", "answered"}
          /\ pc'[r] = "recognize" => ask'[r].bound = None /\ provider = "compreface"
      BY <2>1 DEF Goto
    <3>2. FoundKnown(r)'
      BY <1>0, <2>1, <2>2, <3>1 DEF FoundKnown
    <3> QED
      BY <1>02, <2>1, <2>4, <3>2
  <2> QED
    BY <2>1, <2>3, <2>4
<1>2. CASE ProbeFails(r)
  <2>1. answer'[r] = NoAnswer /\ pc'[r] = "failed"
    BY <1>2 DEF ProbeFails, Goto
  <2> QED
    BY <1>01, <2>1 DEF NoAnswer
<1>3. CASE FindEmployee(r)
  <2>1. CASE Goto(r, "search") /\ UNCHANGED <<ask, found, answer, counters, moved>>
    <3>1. FoundKnown(r)'
      BY <1>3, <2>1 DEF FindEmployee, Goto, FoundKnown
    <3> QED
      BY <1>02, <1>3, <2>1, <3>1 DEF FindEmployee
  <2>2. CASE Answer(r, FALSE, "employee_not_found", None)
    BY <1>01, <2>2 DEF Answer, Goto
  <2> QED
    BY <1>3, <2>1, <2>2 DEF FindEmployee
<1>4. CASE Recognize(r)
  <2>1. pc[r] = "recognize" /\ UNCHANGED answer /\ ask' = ask
    BY <1>4 DEF Recognize
  <2>2. found[r] = NoMatch /\ ask[r].bound = None /\ provider = "compreface"
    BY <2>1 DEF FoundKnown
  <2>3. CASE Goto(r, "search") /\ UNCHANGED found
    <3>1. FoundKnown(r)'
      BY <2>2, <2>3 DEF Goto, FoundKnown
    <3> QED
      BY <1>02, <2>1, <3>1
  <2>4. ASSUME NEW c \in Codes,
               Candidate(r, c, c \in {d \in Codes : ask[r].who \in subjects[d]}, "subject"),
               Goto(r, "subject")
        PROVE  Good
    <3> DEFINE known == {d \in Codes : ask[r].who \in subjects[d]}
    <3>1. found'[r] = [emp |-> c, similar |-> c \in known, via |-> "subject"]
      BY <2>4 DEF Candidate
    <3>2. found'[r].emp = c /\ found'[r].similar = (c \in known) /\ pc'[r] = "subject"
      BY <2>4, <3>1 DEF Goto
    <3>3. c \in known => \E g \in Employees : code[g] = c /\ PersonOf[g] = ask[r].who
      <4> SUFFICES ASSUME c \in known
                   PROVE  \E g \in Employees : code[g] = c /\ PersonOf[g] = ask[r].who
        OBVIOUS
      <4>1. ask[r].who \in subjects[c]
        OBVIOUS
      <4>2. \A x \in subjects[c] : \E g \in Employees : code[g] = c /\ PersonOf[g] = x
        BY DEF CodesKnown
      <4> QED
        BY <4>1, <4>2, Zenon
    <3>4. FoundKnown(r)'
      BY <1>0, <2>1, <2>2, <3>2, <3>3 DEF FoundKnown
    <3> QED
      BY <1>02, <2>1, <3>4
  <2> QED
    BY <1>4, <2>3, <2>4 DEF Recognize
<1>5. CASE FindSubject(r)
  <2>1. pc[r] = "subject" /\ UNCHANGED answer /\ ask' = ask
    BY <1>5 DEF FindSubject
  <2>2. ask[r].bound = None /\ provider = "compreface"
    BY <2>1 DEF FoundKnown
  <2>3. CASE found' = [found EXCEPT ![r] = NoMatch] /\ Goto(r, "search")
    <3>1. FoundKnown(r)'
      BY <2>3 DEF Goto, FoundKnown
    <3> QED
      BY <1>02, <2>1, <3>1
  <2>4. ASSUME NEW e \in Active, code[e] = found[r].emp,
               Candidate(r, e, found[r].similar, "subject"), Goto(r, "status")
        PROVE  Good
    <3>1. found'[r] = [emp |-> e, similar |-> found[r].similar, via |-> "subject"]
      BY <2>4 DEF Candidate
    <3>2. found'[r].emp = e /\ found'[r].similar = found[r].similar /\ pc'[r] = "status"
      BY <2>4, <3>1 DEF Goto
    <3>3. e \in Employees /\ e \in Staff
      BY DEF Active, Staff
    <3>4. found[r].similar => PersonOf[e] = ask[r].who \/ e \in inherited
      <4>1. SUFFICES ASSUME found[r].similar, e \notin inherited PROVE PersonOf[e] = ask[r].who
        OBVIOUS
      <4>2. PICK g \in Employees : code[g] = found[r].emp /\ PersonOf[g] = ask[r].who
        BY <2>1, <4>1 DEF FoundKnown
      <4> QED
        BY <2>4, <3>3, <4>1, <4>2 DEF CodesKnown
    <3>5. FoundKnown(r)'
      BY <1>0, <2>1, <2>2, <3>2, <3>3, <3>4 DEF FoundKnown
    <3> QED
      BY <1>02, <2>1, <3>5
  <2> QED
    BY <1>5, <2>3, <2>4 DEF FindSubject
<1>6. CASE Search(r)
  <2> DEFINE pool  == {e \in Active \cap Enrolled : ask[r].bound \in {e, None}}
             alike == {e \in pool : LooksLike(r, e)}
  <2>1. pc[r] = "search" /\ found[r] = NoMatch
    BY <1>6 DEF Search, FoundKnown
  <2>2. ASSUME NEW e \in pool, Candidate(r, e, e \in alike, "table"), Goto(r, "status"),
               UNCHANGED <<ask, answer, counters, moved>>
        PROVE  Good
    <3>1. found'[r] = [emp |-> e, similar |-> e \in alike, via |-> "table"]
      BY <2>2 DEF Candidate
    <3>2. found'[r].emp = e /\ found'[r].similar = (e \in alike) /\ pc'[r] = "status"
      BY <2>2, <3>1 DEF Goto
    <3>3. e \in Employees /\ e \in Active /\ ask[r].bound \in {e, None}
      BY DEF Active
    <3>4. e \in alike => PersonOf[e] = ask[r].who
      BY DEF LooksLike
    <3>5. FoundKnown(r)'
      BY <1>0, <2>2, <3>2, <3>3, <3>4 DEF FoundKnown
    <3> QED
      BY <1>02, <2>1, <2>2, <3>5
  <2>3. CASE Goto(r, "status") /\ UNCHANGED <<ask, found, answer, counters, moved>>
    <3>1. FoundKnown(r)'
      BY <2>1, <2>3 DEF Goto, FoundKnown, NoMatch
    <3> QED
      BY <1>02, <2>1, <2>3, <3>1
  <2>4. CASE Answer(r, FALSE, "no_templates", None)
    BY <1>01, <2>4 DEF Answer, Goto
  <2> QED
    BY <1>6, <2>2, <2>3, <2>4 DEF Search
<1>7. CASE Judge(r)
  <2>1. /\ pc[r] = "status" /\ pc'[r] \in {"legacy", "answered"}
        /\ pc'[r] = "legacy" =>
              ask'[r] = ask[r] /\ found'[r] = found[r] /\ moved'[r] = moved[r]
        /\ \/ /\ Accepts(r) /\ answer'[r].ok = TRUE
              /\ answer'[r].emp = found[r].emp
              /\ ask'[r] = ask[r] /\ moved'[r] = moved[r]
           \/ ~Accepts(r) /\ answer'[r].ok = FALSE
    BY <1>7, Verdict
  <2>2. FoundKnown(r)'
    BY <1>0, <2>1 DEF FoundKnown
  <2>3. CASE answer'[r].ok = FALSE
    BY <2>1, <2>2, <2>3, Zenon DEF AnswerKnown
  <2>4. CASE /\ Accepts(r) /\ answer'[r].ok = TRUE /\ answer'[r].emp = found[r].emp
             /\ ask'[r] = ask[r] /\ moved'[r] = moved[r]
    <3>1. /\ found[r].emp \in Employees
          /\ ask[r].bound \in {found[r].emp, None}
          /\ \/ PersonOf[found[r].emp] = ask[r].who
             \/ provider = "compreface" /\ found[r].emp \in inherited
          /\ found[r].emp \notin moved[r] => found[r].emp \in Active
      BY <2>1, <2>4 DEF FoundKnown, Accepts
    <3>2. Subject(r) = found[r].emp
      BY <3>1 DEF Subject
    <3>3. \A p \in Poses : tpl[found[r].emp][p] # "none"
      BY <2>4, <3>2 DEF Accepts, BlockReason, Complete
    <3>5. Right
      BY <1>0, <2>4, <3>1
    <3>6. Held
      BY <1>0, <2>4, <3>1, <3>3
    <3>7. AnswerKnown(r)'
      BY <2>1, <2>4, <3>1 DEF AnswerKnown
    <3> QED
      BY <2>2, <3>5, <3>6, <3>7
  <2> QED
    BY <2>1, <2>3, <2>4
<1>8. CASE CheckLegacy(r)
  <2>1. /\ answer'[r].ok = answer[r].ok /\ answer'[r].emp = answer[r].emp /\ pc'[r] = "answered"
        /\ answer[r].ok => ask' = ask /\ moved' = moved
    <3> DEFINE reason == IF Legacy(Subject(r)) THEN "re_enroll_required" ELSE Refusal(r)
    <3>1. Answer(r, answer[r].ok, reason, answer[r].emp)
      BY <1>8 DEF CheckLegacy
    <3> HIDE DEF reason
    <3>2. answer'[r] = [ok |-> answer[r].ok, reason |-> reason, emp |-> answer[r].emp]
      BY <3>1 DEF Answer
    <3>3. answer'[r].ok = answer[r].ok /\ answer'[r].emp = answer[r].emp
      BY <3>2
    <3>4. pc'[r] = "answered" /\ (answer[r].ok => ask' = ask /\ moved' = moved)
      BY <3>1 DEF Answer, Goto, Forget
    <3> QED
      BY <3>3, <3>4
  <2>2. FoundKnown(r)' /\ AnswerKnown(r)'
    BY <2>1 DEF FoundKnown, AnswerKnown
  <2>3. Right
    BY <1>0, <2>1 DEF AcceptedIsTheFace
  <2>4. Held
    <3> DEFINE e == answer[r].emp
    <3>1. answer[r].ok /\ e \notin moved[r] => e \in Active /\ \A p \in Poses : tpl[e][p] # "none"
      BY DEF AcceptedIsEnrolled, Complete
    <3>2. answer'[r].emp = e /\ (answer'[r].ok => moved'[r] = moved[r] /\ answer[r].ok)
      BY <2>1
    <3> QED
      BY <1>0, <3>1, <3>2
  <2> QED
    BY <2>2, <2>3, <2>4
<1> QED
  BY <1>1, <1>2, <1>3, <1>4, <1>5, <1>6, <1>7, <1>8 DEF Probe

-----------------------------------------------------------------------------
(* Identification: the metrics. *)

\* A count n between those with a verdict S and those who may have had one, F
\* too: nobody new has one.
LEMMA TallyKept ==
    ASSUME NEW S, NEW F, NEW S2, NEW F2, NEW n \in Nat,
           IsFiniteSet(S), IsFiniteSet(S2 \cup F2), S2 \subseteq S, S \cup F \subseteq S2 \cup F2,
           Cardinality(S) =< n, n =< Cardinality(S \cup F)
    PROVE  Cardinality(S2) =< n /\ n =< Cardinality(S2 \cup F2)
<1>1. IsFiniteSet(S2) /\ Cardinality(S2) =< Cardinality(S)
  BY FS_Subset
<1>2. IsFiniteSet(S \cup F) /\ Cardinality(S \cup F) =< Cardinality(S2 \cup F2)
  BY FS_Subset
<1>3. /\ Cardinality(S) \in Nat /\ Cardinality(S \cup F) \in Nat
      /\ Cardinality(S2) \in Nat /\ Cardinality(S2 \cup F2) \in Nat
  BY <1>1, <1>2, FS_CardinalityType
<1> QED
  BY <1>1, <1>2, <1>3

\* And one more has.
LEMMA TallyMore ==
    ASSUME NEW S, NEW F, NEW r, NEW n \in Nat,
           IsFiniteSet(S), IsFiniteSet(F), r \notin S, r \notin F,
           Cardinality(S) =< n, n =< Cardinality(S \cup F)
    PROVE  Cardinality(S \cup {r}) =< n + 1 /\ n + 1 =< Cardinality((S \cup {r}) \cup F)
<1>1. IsFiniteSet(S \cup F)
  BY FS_Union
<1>2. Cardinality(S \cup {r}) = Cardinality(S) + 1
  BY FS_AddElement
<1>3. Cardinality((S \cup F) \cup {r}) = Cardinality(S \cup F) + 1
  BY <1>1, FS_AddElement
<1>4. (S \cup F) \cup {r} = (S \cup {r}) \cup F
  OBVIOUS
<1>5. Cardinality(S) \in Nat /\ Cardinality(S \cup F) \in Nat
  BY <1>1, FS_CardinalityType
<1> QED
  BY <1>2, <1>3, <1>4, <1>5

LEMMA FiniteCounts == IsFiniteSet(Failed) /\ \A ok : IsFiniteSet(Counted(ok))
  BY ProbesAssumption, FS_Subset DEF Failed, Counted

\* The count c for ok, after nobody or after r has had the verdict.
LEMMA Tallied ==
    ASSUME NEW ok, NEW c, NEW r, counters[c] \in Nat,
           Cardinality(Counted(ok)) =< counters[c],
           counters[c] =< Cardinality(Counted(ok) \cup Failed),
           IsFiniteSet(Failed'), IsFiniteSet(Counted(ok)'),
           \/ /\ counters'[c] = counters[c] /\ Counted(ok)' \subseteq Counted(ok)
              /\ Counted(ok) \cup Failed \subseteq Counted(ok)' \cup Failed'
           \/ /\ counters'[c] = counters[c] + 1 /\ r \notin Counted(ok) /\ r \notin Failed
              /\ Counted(ok)' = Counted(ok) \cup {r} /\ Failed' = Failed
    PROVE  /\ Cardinality(Counted(ok)') =< counters'[c]
           /\ counters'[c] =< Cardinality(Counted(ok)' \cup Failed')
<1> DEFINE S == Counted(ok)   S2 == Counted(ok)'   F == Failed   F2 == Failed'
           n == counters[c]   m == counters'[c]
<1>1. /\ IsFiniteSet(S) /\ IsFiniteSet(F) /\ IsFiniteSet(S2) /\ IsFiniteSet(F2) /\ n \in Nat
      /\ Cardinality(S) =< n /\ n =< Cardinality(S \cup F)
  BY FiniteCounts
<1>2. \/ m = n /\ S2 \subseteq S /\ S \cup F \subseteq S2 \cup F2
      \/ m = n + 1 /\ r \notin S /\ r \notin F /\ S2 = S \cup {r} /\ F2 = F
  OBVIOUS
<1>3. Cardinality(S2) =< m /\ m =< Cardinality(S2 \cup F2)
  <2> HIDE DEF S, S2, F, F2, n, m
  <2>1. CASE m = n /\ S2 \subseteq S /\ S \cup F \subseteq S2 \cup F2
    <3>1. IsFiniteSet(S2 \cup F2)
      BY <1>1, FS_Union
    <3>2. Cardinality(S2) =< n /\ n =< Cardinality(S2 \cup F2)
      BY <1>1, <2>1, <3>1, TallyKept, Zenon
    <3> QED
      BY <2>1, <3>2
  <2>2. CASE m = n + 1 /\ r \notin S /\ r \notin F /\ S2 = S \cup {r} /\ F2 = F
    <3>1. Cardinality(S \cup {r}) =< n + 1 /\ n + 1 =< Cardinality((S \cup {r}) \cup F)
      BY <1>1, <2>2, TallyMore
    <3> QED
      BY <2>2, <3>1
  <2> QED
    BY <1>2, <2>1, <2>2
<1> QED
  BY <1>3

\* The verdict is counted when the probe joins those who have it.
LEMMA CountsProbe ==
    ASSUME IdentifyTypes, NEW r \in Probes, Probe(r), AnswerKnown(r), CountsKnown
    PROVE  CountsKnown'
<1> USE DEF IdentifyTypes
<1>0. /\ counters["accepted"] \in Nat /\ counters["rejected"] \in Nat
      /\ \A q \in Probes \ {r} : pc'[q] = pc[q] /\ answer'[q] = answer[q]
  BY ProbeAlone
<1>01. IsFiniteSet(Failed') /\ \A ok : IsFiniteSet(Counted(ok)')
  <2>1. Failed' \subseteq Probes /\ \A ok : Counted(ok)' \subseteq Probes
    BY DEF Failed, Counted
  <2> QED
    BY <2>1, ProbesAssumption, FS_Subset
\* What it takes, for each of the two counts.
<1> DEFINE Kept(ok, c) ==
             \/ /\ counters'[c] = counters[c] /\ Counted(ok)' \subseteq Counted(ok)
                /\ Counted(ok) \cup Failed \subseteq Counted(ok)' \cup Failed'
             \/ /\ counters'[c] = counters[c] + 1 /\ r \notin Counted(ok) /\ r \notin Failed
                /\ Counted(ok)' = Counted(ok) \cup {r} /\ Failed' = Failed
<1>1. SUFFICES Kept(TRUE, "accepted") /\ Kept(FALSE, "rejected")
  <2>1. /\ Cardinality(Counted(TRUE)') =< counters'["accepted"]
        /\ counters'["accepted"] =< Cardinality(Counted(TRUE)' \cup Failed')
    BY <1>0, <1>01, <1>1, Tallied DEF CountsKnown
  <2>2. /\ Cardinality(Counted(FALSE)') =< counters'["rejected"]
        /\ counters'["rejected"] =< Cardinality(Counted(FALSE)' \cup Failed')
    BY <1>0, <1>01, <1>1, Tallied DEF CountsKnown
  <2> QED
    BY <2>1, <2>2 DEF CountsKnown
\* A step that counts a verdict other than ok, or none, keeps the count for ok.
<1>2. ASSUME NEW ok, NEW c, counters'[c] = counters[c], r \notin Failed,
             r \in Counted(ok)' => r \in Counted(ok),
             r \in Counted(ok) => r \in Counted(ok)' \/ r \in Failed'
      PROVE  Kept(ok, c)
  BY <1>0, <1>2 DEF Counted, Failed
<1>3. ASSUME NEW ok, NEW c, counters'[c] = counters[c] + 1, r \notin Failed, r \notin Failed',
             r \notin Counted(ok), r \in Counted(ok)'
      PROVE  Kept(ok, c)
  <2>1. Failed' = Failed
    BY <1>0, <1>3 DEF Failed
  <2>2. Counted(ok)' = Counted(ok) \cup {r}
    BY <1>0, <1>3 DEF Counted
  <2> QED
    BY <1>3, <2>1, <2>2
<1>4. ASSUME pc[r] \notin {"legacy", "answered", "failed"}
      PROVE  r \notin Failed /\ r \notin Counted(TRUE) /\ r \notin Counted(FALSE)
  BY <1>4 DEF Failed, Counted
<1>5. ASSUME pc'[r] \notin {"legacy", "answered", "failed"}
      PROVE  r \notin Failed' /\ r \notin Counted(TRUE)' /\ r \notin Counted(FALSE)'
  BY <1>5 DEF Failed, Counted
\* A rejection before the verdict.
<1>6. ASSUME NEW reason, Answer(r, FALSE, reason, None), reason # "missing_image",
             Count("rejected"), pc[r] \notin {"legacy", "answered", "failed"}
      PROVE  Kept(TRUE, "accepted") /\ Kept(FALSE, "rejected")
  <2>1. pc'[r] = "answered" /\ answer'[r].ok = FALSE /\ answer'[r].reason = reason
    BY <1>6 DEF Answer, Goto
  <2>2. r \notin Failed' /\ r \notin Counted(TRUE)' /\ r \in Counted(FALSE)'
    BY <1>6, <2>1 DEF Failed, Counted
  <2>3. counters'["accepted"] = counters["accepted"]
        /\ counters'["rejected"] = counters["rejected"] + 1
    BY <1>6 DEF Count
  <2>4. Kept(TRUE, "accepted")
    BY <1>2, <1>4, <1>6, <2>2, <2>3
  <2> QED
    BY <1>3, <1>4, <1>6, <2>2, <2>3, <2>4
<1> HIDE DEF Kept
<1>7. CASE Begin(r)
  <2>1. pc[r] = "idle" /\ (counters' = counters \/ Count("total"))
    BY <1>7 DEF Begin
  <2>2. counters'["accepted"] = counters["accepted"] /\ counters'["rejected"] = counters["rejected"]
    BY <2>1 DEF Count
  <2>3. \/ pc'[r] \notin {"legacy", "answered", "failed"}
        \/ pc'[r] = "answered" /\ answer'[r].reason = "missing_image"
    <3>1. \/ Goto(r, "employee") \/ Goto(r, "recognize") \/ Goto(r, "search")
          \/ Goto(r, "answered") /\ answer' = [answer EXCEPT ![r].reason = "missing_image"]
      BY <1>7 DEF Begin
    <3> QED
      BY <3>1 DEF Goto
  <2>4. r \notin Failed /\ r \notin Counted(TRUE)' /\ r \notin Counted(FALSE)'
        /\ r \notin Counted(TRUE) /\ r \notin Counted(FALSE)
    BY <1>4, <2>1, <2>3 DEF Counted
  <2> QED
    BY <1>2, <2>2, <2>4
<1>8. CASE ProbeFails(r)
  <2>1. counters' = counters /\ pc'[r] = "failed" /\ InFlight(r)
    BY <1>8 DEF ProbeFails, Goto
  <2>2. r \notin Failed /\ r \in Failed' /\ r \notin Counted(TRUE)' /\ r \notin Counted(FALSE)'
    BY <2>1 DEF Failed, Counted, InFlight
  <2> QED
    BY <1>2, <2>1, <2>2
<1>9. CASE FindEmployee(r)
  <2>1. pc[r] = "employee"
    BY <1>9 DEF FindEmployee
  <2>2. CASE Goto(r, "search") /\ UNCHANGED <<ask, found, answer, counters, moved>>
    BY <1>2, <1>4, <1>5, <2>1, <2>2 DEF Goto
  <2> QED
    BY <1>6, <1>9, <2>1, <2>2 DEF FindEmployee
<1>10. CASE Recognize(r) \/ FindSubject(r)
  <2>1. /\ pc[r] \notin {"legacy", "answered", "failed"} /\ counters' = counters
        /\ Goto(r, "search") \/ Goto(r, "subject") \/ Goto(r, "status")
    BY <1>10 DEF Recognize, FindSubject
  <2>2. pc'[r] \notin {"legacy", "answered", "failed"}
    BY <2>1 DEF Goto
  <2> QED
    BY <1>2, <1>4, <1>5, <2>1, <2>2
<1>11. CASE Search(r)
  <2>1. pc[r] = "search"
    BY <1>11 DEF Search
  <2>2. CASE Goto(r, "status") /\ counters' = counters
    BY <1>2, <1>4, <1>5, <2>1, <2>2 DEF Goto
  <2>3. CASE Answer(r, FALSE, "no_templates", None) /\ Count("rejected")
    BY <1>6, <2>1, <2>3
  <2> QED
    BY <1>11, <2>2, <2>3 DEF Search
<1>12. CASE Judge(r)
  <2>1. /\ pc[r] = "status" /\ pc'[r] \in {"legacy", "answered"}
        /\ pc'[r] = "answered" => answer'[r].reason # "missing_image"
        /\ \/ answer'[r].ok = TRUE /\ Count("accepted")
           \/ answer'[r].ok = FALSE /\ Count("rejected")
    BY <1>12, Verdict
  <2>2. r \notin Failed /\ r \notin Counted(TRUE) /\ r \notin Counted(FALSE) /\ r \notin Failed'
    BY <1>4, <2>1 DEF Failed
  <2>3. CASE answer'[r].ok = TRUE /\ Count("accepted")
    <3>1. r \in Counted(TRUE)' /\ r \notin Counted(FALSE)'
      BY <2>1, <2>3 DEF Counted
    <3>2. counters'["accepted"] = counters["accepted"] + 1
          /\ counters'["rejected"] = counters["rejected"]
      BY <2>3 DEF Count
    <3> QED
      BY <1>2, <1>3, <2>2, <3>1, <3>2
  <2>4. CASE answer'[r].ok = FALSE /\ Count("rejected")
    <3>1. r \in Counted(FALSE)' /\ r \notin Counted(TRUE)'
      BY <2>1, <2>4 DEF Counted
    <3>2. counters'["rejected"] = counters["rejected"] + 1
          /\ counters'["accepted"] = counters["accepted"]
      BY <2>4 DEF Count
    <3> QED
      BY <1>2, <1>3, <2>2, <3>1, <3>2
  <2> QED
    BY <2>1, <2>3, <2>4
<1>13. CASE CheckLegacy(r)
  <2> DEFINE reason == IF Legacy(Subject(r)) THEN "re_enroll_required" ELSE Refusal(r)
  <2>1. Answer(r, answer[r].ok, reason, answer[r].emp) /\ counters' = counters /\ pc[r] = "legacy"
    BY <1>13 DEF CheckLegacy
  <2>2. reason # "missing_image"
    BY DEF Refusal
  <2> HIDE DEF reason
  <2>3. pc'[r] = "answered" /\ answer'[r].ok = answer[r].ok /\ answer'[r].reason = reason
    BY <2>1 DEF Answer, Goto
  <2>4. /\ r \notin Failed
        /\ r \in Counted(TRUE) <=> r \in Counted(TRUE)'
        /\ r \in Counted(FALSE) <=> r \in Counted(FALSE)'
    BY <2>1, <2>2, <2>3 DEF Counted, Failed
  <2> QED
    BY <1>2, <2>1, <2>4
<1> QED
  BY <1>7, <1>8, <1>9, <1>10, <1>11, <1>12, <1>13 DEF Probe

-----------------------------------------------------------------------------
(* Identification: the invariant holds. *)

LEMMA IdentifyInitInv == IdentifyInit => IdentifyInv
<1> SUFFICES ASSUME IdentifyInit PROVE IdentifyInv
  OBVIOUS
<1>1. IdentifyTypes
  BY IdentifyInitTypes
<1>2. /\ \A e \in Employees : status[e] = "absent" /\ code[e] = None /\ wanted[e] = "absent"
      /\ \A c \in Codes : subjects[c] = {}
      /\ \A u \in Updates : edit[u] = NoEdit
      /\ \A r \in Probes : pc[r] = "idle" /\ found[r] = NoMatch /\ answer[r] = NoAnswer
      /\ gone = {} /\ counters["accepted"] = 0 /\ counters["rejected"] = 0
  BY DEF IdentifyInit, NoCount
<1>3. EditsKnown /\ CodesKnown /\ EditsHold
  BY <1>2 DEF EditsKnown, CodesKnown, EditsHold, Staff, Named
<1>4. \A r \in Probes : ~answer[r].ok /\ answer[r].reason = "none"
  BY <1>2 DEF NoAnswer
<1>5. \A r \in Probes : FoundKnown(r) /\ AnswerKnown(r)
  BY <1>2, <1>4 DEF FoundKnown, AnswerKnown
<1>6. AcceptedIsTheFace /\ AcceptedIsEnrolled
  BY <1>4, Zenon DEF AcceptedIsTheFace, AcceptedIsEnrolled
<1>7. Counted(TRUE) = {} /\ Counted(FALSE) = {} /\ Failed = {}
  BY <1>2 DEF Counted, Failed
<1>8. CountsKnown
  <2>1. ASSUME NEW S, S = {}, NEW n, n = 0
        PROVE  Cardinality(S) =< n /\ n =< Cardinality(S \cup Failed)
    BY <1>7, <2>1, FS_EmptySet
  <2> QED
    BY <1>2, <1>7, <2>1 DEF CountsKnown
<1> QED
  BY <1>1, <1>3, <1>5, <1>6, <1>8 DEF IdentifyInv

LEMMA IdentifyInvStep ==
    ASSUME IdentifyInv, [IdentifyNext]_identifyVars
    PROVE  IdentifyInv'
<1> USE DEF IdentifyInv
<1>1. IdentifyTypes'
  BY IdentifyTypesStep
<1>2. CASE UNCHANGED identifyVars
  <2> USE <1>2 DEF identifyVars, rows, probing, history
  <2>1. EditsKnown' /\ CodesKnown' /\ EditsHold'
    BY DEF EditsKnown, CodesKnown, EditsHold, Staff, Named
  <2>2. \A r \in Probes : FoundKnown(r)' /\ AnswerKnown(r)'
    BY DEF FoundKnown, AnswerKnown, Active
  <2>3. AcceptedIsTheFace' /\ AcceptedIsEnrolled'
    BY DEF AcceptedIsTheFace, AcceptedIsEnrolled, Active, Complete
  <2>4. CountsKnown'
    BY DEF CountsKnown, Counted, Failed
  <2> QED
    BY <1>1, <2>1, <2>2, <2>3, <2>4
<1>3. CASE Administer
  <2>1. EditsKnown' /\ EditsHold' /\ CodesKnown'
    BY <1>3, EditsKnownStep, CodesKnownStep
  <2>2. /\ \A r \in Probes : FoundKnown(r)' /\ AnswerKnown(r)'
        /\ AcceptedIsTheFace' /\ AcceptedIsEnrolled'
    BY <1>3, FoundAdmin
  <2>3. counters' = counters /\ pc' = pc /\ answer' = answer
    BY <1>3, AdminMarks DEF probing
  <2>4. CountsKnown'
    BY <2>3 DEF CountsKnown, Counted, Failed
  <2> QED
    BY <1>1, <2>1, <2>2, <2>4
<1>4. CASE Restart
  <2>1. /\ \A u \in Updates : edit'[u] = NoEdit
        /\ \A r \in Probes : pc'[r] = "idle" /\ found'[r] = NoMatch /\ answer'[r] = NoAnswer
        /\ counters'["accepted"] = 0 /\ counters'["rejected"] = 0
        /\ UNCHANGED <<status, code, tpl, subjects, gone, wanted, inherited>>
    BY <1>4 DEF Restart, rows, NoCount
  <2>2. EditsKnown' /\ CodesKnown' /\ EditsHold'
    BY <2>1 DEF EditsKnown, CodesKnown, EditsHold, Staff, Named
  <2>3. \A r \in Probes : ~answer'[r].ok /\ answer'[r].reason = "none"
    BY <2>1 DEF NoAnswer
  <2>4. \A r \in Probes : FoundKnown(r)' /\ AnswerKnown(r)'
    BY <2>1, <2>3 DEF FoundKnown, AnswerKnown
  <2>5. AcceptedIsTheFace' /\ AcceptedIsEnrolled'
    BY <2>3, Zenon DEF AcceptedIsTheFace, AcceptedIsEnrolled
  <2>6. Counted(TRUE)' = {} /\ Counted(FALSE)' = {} /\ Failed' = {}
    BY <2>1 DEF Counted, Failed
  <2>7. CountsKnown'
    <3>1. ASSUME NEW S, S = {}, NEW n, n = 0
          PROVE  Cardinality(S) =< n /\ n =< Cardinality(S \cup Failed')
      BY <2>6, <3>1, FS_EmptySet
    <3> QED
      BY <2>1, <2>6, <3>1 DEF CountsKnown
  <2> QED
    BY <1>1, <2>2, <2>4, <2>5, <2>7
<1>5. ASSUME NEW r \in Probes, Probe(r) PROVE IdentifyInv'
  <2>1. /\ UNCHANGED <<provider, status, code, tpl, subjects, edit, gone, wanted, inherited>>
        /\ \A q \in Probes \ {r} :
              /\ pc'[q] = pc[q] /\ ask'[q] = ask[q] /\ found'[q] = found[q]
              /\ answer'[q] = answer[q] /\ moved'[q] = moved[q]
    BY <1>5, ProbeAlone DEF rows
  <2>2. EditsKnown' /\ CodesKnown' /\ EditsHold'
    BY <2>1 DEF EditsKnown, CodesKnown, EditsHold, Staff, Named
  <2>3. /\ FoundKnown(r)' /\ AnswerKnown(r)'
        /\ answer'[r].ok =>
              /\ ask'[r].bound \in {answer'[r].emp, None}
              /\ \/ PersonOf[answer'[r].emp] = ask'[r].who
                 \/ provider' = "compreface" /\ answer'[r].emp \in inherited'
        /\ answer'[r].ok /\ answer'[r].emp \notin moved'[r] =>
              answer'[r].emp \in Active' /\ \A p \in Poses : tpl'[answer'[r].emp][p] # "none"
    BY <1>5, FoundProbe
  <2>4. \A q \in Probes \ {r} : FoundKnown(q)' /\ AnswerKnown(q)'
    BY <2>1 DEF FoundKnown, AnswerKnown, Active
  <2>5. AcceptedIsTheFace'
    BY <2>1, <2>3 DEF AcceptedIsTheFace
  <2>6. AcceptedIsEnrolled'
    BY <2>1, <2>3 DEF AcceptedIsEnrolled, Active, Complete
  <2>7. CountsKnown'
    BY <1>5, CountsProbe
  <2> QED
    BY <1>1, <2>2, <2>3, <2>4, <2>5, <2>6, <2>7
<1> QED
  BY <1>2, <1>3, <1>4, <1>5 DEF IdentifyNext

LEMMA IdentifyInvariance == IdentifySpec => []IdentifyInv
<1>1. IdentifyInit => IdentifyInv
  BY IdentifyInitInv
<1>2. IdentifyInv /\ [IdentifyNext]_identifyVars => IdentifyInv'
  BY IdentifyInvStep
<1> QED
  BY <1>1, <1>2, PTL DEF IdentifySpec

\* Whom an accepted identification names is the person in front of the camera,
\* and the bound employee, whatever administrators do meanwhile: the only
\* exception is a code that CompreFace still has photographs of its former
\* owner for (RecognitionService.identify and verify, ComprefaceService.recognize).
THEOREM AcceptedIsTheFaceCorrect == IdentifySpec => []AcceptedIsTheFace
BY IdentifyInvariance, PTL DEF IdentifyInv

\* An employee accepted by an identification is active and has a template of
\* every pose unless something of hers changed since it began, because the
\* queries of RecognitionService.identify run in no transaction.
THEOREM AcceptedIsEnrolledCorrect == IdentifySpec => []AcceptedIsEnrolled
BY IdentifyInvariance, PTL DEF IdentifyInv

\* RecognitionService.metrics count every verdict once, for any number of
\* identifications in flight, through failures and restarts: they are off by
\* those that failed, or still look for the legacy reason, at most.
THEOREM VerdictsCountedCorrect == IdentifySpec => []VerdictsCounted
<1>1. ASSUME NEW ok, NEW n \in Nat, Cardinality(Counted(ok)) =< n,
             n =< Cardinality(Counted(ok) \cup Failed)
      PROVE  LET V == {r \in Probes : /\ pc[r] = "answered" /\ answer[r].ok = ok
                                       /\ answer[r].reason # "missing_image"}
                 L == {r \in Probes : pc[r] \in {"legacy", "failed"}}
             IN  n \in Cardinality(V) .. Cardinality(V \cup L)
  <2> DEFINE V == {r \in Probes : /\ pc[r] = "answered" /\ answer[r].ok = ok
                                   /\ answer[r].reason # "missing_image"}
             L == {r \in Probes : pc[r] \in {"legacy", "failed"}}
  <2>1. V \subseteq Counted(ok) /\ Counted(ok) \cup Failed \subseteq V \cup L
    BY DEF Counted, Failed
  <2>2. V \cup L \subseteq Probes
    OBVIOUS
  <2> HIDE DEF V, L
  <2>3. IsFiniteSet(V \cup L) /\ IsFiniteSet(Counted(ok))
    BY <2>2, ProbesAssumption, FS_Subset, FiniteCounts
  <2>4. IsFiniteSet(V) /\ Cardinality(V) =< Cardinality(Counted(ok))
    BY <2>1, <2>3, FS_Subset
  <2>5. IsFiniteSet(Counted(ok) \cup Failed)
        /\ Cardinality(Counted(ok) \cup Failed) =< Cardinality(V \cup L)
    BY <2>1, <2>3, FS_Subset
  <2>6. /\ Cardinality(V) \in Nat /\ Cardinality(Counted(ok)) \in Nat
        /\ Cardinality(Counted(ok) \cup Failed) \in Nat /\ Cardinality(V \cup L) \in Nat
    BY <2>3, <2>4, <2>5, FS_CardinalityType
  <2>7. n \in Cardinality(V) .. Cardinality(V \cup L)
    BY <1>1, <2>4, <2>5, <2>6
  <2> QED
    BY <2>7 DEF V, L
<1>2. IdentifyInv => VerdictsCounted
  <2> SUFFICES ASSUME IdentifyInv PROVE VerdictsCounted
    OBVIOUS
  <2>1. counters["accepted"] \in Nat /\ counters["rejected"] \in Nat
    BY DEF IdentifyInv, IdentifyTypes
  <2> QED
    BY <1>1, <2>1 DEF IdentifyInv, CountsKnown, VerdictsCounted
<1> QED
  BY <1>2, IdentifyInvariance, PTL

\* A removed employee stays removed and a status stays as it was last asked
\* for, unless EmployeesService.update saved an entity read before another
\* change of the same row, for any number of updates in flight.
THEOREM EditsHoldCorrect == IdentifySpec => []EditsHold
BY IdentifyInvariance, PTL DEF IdentifyInv

-----------------------------------------------------------------------------
(* The camera in a browser: the inductive invariant. *)

IsPanel(p) ==
    /\ DOMAIN p = {"mount", "stream", "step", "watched", "heard", "queued", "busy", "heldByPeer",
                   "poll", "spent", "ready", "lost"}
    /\ p.mount \in {"new", "up", "gone"}
    /\ p.stream \in {"none", "live", "ended"}
    /\ p.step \in {"idle", "open", "peers", "again"}
    /\ p.watched \in BOOLEAN /\ p.queued \in BOOLEAN /\ p.busy \in BOOLEAN
    /\ p.heldByPeer \in BOOLEAN /\ p.poll \in BOOLEAN /\ p.lost \in BOOLEAN

Messages == {"holding", "idle", "release", "released"}

WebTypes ==
    /\ DOMAIN panel = AppWindows
    /\ \A w \in AppWindows : IsPanel(panel[w])
    /\ mail \in [AppWindows -> Seq(Messages)]

\* Every "holding" in box is followed by a message of M.
Answered(box, M) ==
    \A i \in 1 .. Len(box) : box[i] = "holding" => \E j \in i + 1 .. Len(box) : box[j] \in M

\* A window that is not up yet is as new; one with a stream asks for none.
Calm(p) ==
    /\ p.mount = "new" => p = NewPanel
    /\ p.stream # "none" => p.step = "idle"

\* A window without a stream, and that did not lose it, has a reason to go on,
\* and has told its screen of the failure when it rests.
Motive(p) ==
    p.mount = "up" /\ p.stream = "none" /\ ~p.lost =>
        /\ \/ p.step # "idle" /\ p.watched
           \/ p.busy /\ (p.heldByPeer \/ p.poll)
        /\ p.step = "idle" => p.ready = "failure"

AtRest == \A w \in AppWindows : Calm(panel[w]) /\ (~Up(w) => mail[w] = <<>>)

GoesOn == ~stray => \A w \in AppWindows : Motive(panel[w])

\* A request on its way has a window behind it that waits for the answer.
Asks ==
    ~stray /\ (\E w \in AppWindows : "release" \in Range(mail[w])) =>
        \E w \in AppWindows : Up(w) /\ panel[w].step = "peers"

\* Whom the others can rely on: it has a stream or lost one, or nothing will
\* keep it from trying, since every "holding" it knows of was taken back.
Root(w) ==
    /\ Up(w)
    /\ \/ panel[w].stream # "none" \/ panel[w].lost
       \/ panel[w].step = "peers" /\ Answered(mail[w], {"released", "idle"})
       \/ panel[w].step = "again" /\ Answered(mail[w], {"idle"})
       \/ /\ panel[w].heldByPeer => "idle" \in Range(mail[w])
          /\ Answered(mail[w], {"idle"})

Rooted == ~stray /\ (\E w \in AppWindows : Up(w)) => \E w \in AppWindows : Root(w)

WebInv == WebTypes /\ AtRest /\ GoesOn /\ Asks /\ Rooted

-----------------------------------------------------------------------------
(* Messages. *)

LEMMA BoxHead ==
    ASSUME NEW q \in Seq(Messages), q # <<>>
    PROVE  /\ Head(q) \in Messages /\ Tail(q) \in Seq(Messages)
           /\ Range(q) = {Head(q)} \cup Range(Tail(q))
           /\ \A M : Answered(q, M) => Answered(Tail(q), M)
           /\ \A M : Answered(q, M) /\ Head(q) = "holding" => \E m \in M : m \in Range(Tail(q))
<1>1. Len(q) \in Nat \ {0} /\ Len(Tail(q)) = Len(q) - 1 /\ Tail(q) \in Seq(Messages)
  OBVIOUS
<1>2. Head(q) = q[1] /\ DOMAIN q = 1 .. Len(q) /\ DOMAIN Tail(q) = 1 .. Len(q) - 1
      /\ Head(q) \in Messages
  BY <1>1
<1>3. \A i \in 1 .. Len(q) - 1 : Tail(q)[i] = q[i + 1] /\ i + 1 \in 1 .. Len(q)
  BY <1>1
<1>4. \A i \in 2 .. Len(q) : i - 1 \in 1 .. Len(q) - 1 /\ Tail(q)[i - 1] = q[i]
  BY <1>1
<1>5. Range(q) = {Head(q)} \cup Range(Tail(q))
  <2>1. Range(q) \subseteq {Head(q)} \cup Range(Tail(q))
    <3> SUFFICES ASSUME NEW i \in 1 .. Len(q) PROVE q[i] = q[1] \/ q[i] \in Range(Tail(q))
      BY <1>2 DEF Range
    <3>1. i = 1 \/ i \in 2 .. Len(q)
      BY <1>1
    <3> QED
      BY <1>2, <1>4, <3>1 DEF Range
  <2>2. {Head(q)} \cup Range(Tail(q)) \subseteq Range(q)
    <3>1. 1 \in 1 .. Len(q)
      BY <1>1
    <3> QED
      BY <1>2, <1>3, <3>1 DEF Range
  <2> QED
    BY <2>1, <2>2
<1>6. ASSUME NEW M, Answered(q, M) PROVE Answered(Tail(q), M)
  <2> SUFFICES ASSUME NEW i \in 1 .. Len(q) - 1, Tail(q)[i] = "holding"
               PROVE  \E j \in i + 1 .. Len(q) - 1 : Tail(q)[j] \in M
    BY <1>1 DEF Answered
  <2>1. PICK j \in i + 2 .. Len(q) : q[j] \in M
    <3>1. i + 1 \in 1 .. Len(q) /\ q[i + 1] = "holding" /\ (i + 1) + 1 = i + 2
      BY <1>1, <1>3
    <3> QED
      BY <1>6, <3>1 DEF Answered
  <2>2. j - 1 \in i + 1 .. Len(q) - 1 /\ j \in 2 .. Len(q)
    BY <1>1
  <2> QED
    BY <1>4, <2>1, <2>2
<1>7. ASSUME NEW M, Answered(q, M), Head(q) = "holding"
      PROVE  \E m \in M : m \in Range(Tail(q))
  <2>1. 1 \in 1 .. Len(q) /\ 1 + 1 = 2
    BY <1>1
  <2>2. PICK j \in 2 .. Len(q) : q[j] \in M
    BY <1>2, <1>7, <2>1 DEF Answered
  <2> QED
    BY <1>2, <1>4, <2>2 DEF Range
<1> QED
  BY <1>1, <1>2, <1>5, <1>6, <1>7

LEMMA BoxAppend ==
    ASSUME NEW q \in Seq(Messages), NEW m \in Messages
    PROVE  /\ Append(q, m) \in Seq(Messages) /\ Append(q, m) # <<>>
           /\ Range(Append(q, m)) = Range(q) \cup {m}
           /\ \A M : m # "holding" /\ (m \in M \/ Answered(q, M)) => Answered(Append(q, m), M)
<1> DEFINE s == Append(q, m)
<1>1. /\ Len(q) \in Nat /\ Len(s) = Len(q) + 1 /\ s \in Seq(Messages) /\ s # <<>>
      /\ s[Len(q) + 1] = m /\ \A i \in 1 .. Len(q) : s[i] = q[i]
  OBVIOUS
<1>2. DOMAIN q = 1 .. Len(q) /\ DOMAIN s = 1 .. Len(q) + 1
  BY <1>1
<1> HIDE DEF s
<1>3. \A i \in 1 .. Len(q) + 1 : i \in 1 .. Len(q) \/ i = Len(q) + 1
  BY <1>1
<1>4. 1 .. Len(q) \subseteq 1 .. Len(q) + 1 /\ Len(q) + 1 \in 1 .. Len(q) + 1
  BY <1>1
<1>5. Range(s) = Range(q) \cup {m}
  <2>1. Range(s) \subseteq Range(q) \cup {m}
    BY <1>1, <1>2, <1>3 DEF Range
  <2>2. Range(q) \cup {m} \subseteq Range(s)
    BY <1>1, <1>2, <1>4 DEF Range
  <2> QED
    BY <2>1, <2>2
<1>6. ASSUME NEW M, m # "holding", m \in M \/ Answered(q, M) PROVE Answered(s, M)
  <2> SUFFICES ASSUME NEW i \in 1 .. Len(q) + 1, s[i] = "holding"
               PROVE  \E j \in i + 1 .. Len(q) + 1 : s[j] \in M
    BY <1>1 DEF Answered
  <2>1. i \in 1 .. Len(q) /\ q[i] = "holding"
    BY <1>1, <1>3, <1>6
  <2>2. CASE m \in M
    <3>1. Len(q) + 1 \in i + 1 .. Len(q) + 1
      BY <1>1, <2>1
    <3> QED
      BY <1>1, <2>2, <3>1
  <2>3. CASE Answered(q, M)
    <3>1. PICK j \in i + 1 .. Len(q) : q[j] \in M
      BY <2>1, <2>3 DEF Answered
    <3>2. j \in 1 .. Len(q) /\ j \in i + 1 .. Len(q) + 1
      BY <1>1, <2>1
    <3> QED
      BY <1>1, <3>1, <3>2
  <2> QED
    BY <1>6, <2>2, <2>3
<1> QED
  BY <1>1, <1>5, <1>6 DEF s

\* An answer that is not there did not take anything back.
LEMMA Unanswered ==
    ASSUME NEW q \in Seq(Messages), Answered(q, {"released", "idle"}), "released" \notin Range(q)
    PROVE  Answered(q, {"idle"})
<1> SUFFICES ASSUME NEW i \in 1 .. Len(q), q[i] = "holding"
             PROVE  \E j \in i + 1 .. Len(q) : q[j] \in {"idle"}
  BY DEF Answered
<1>1. PICK j \in i + 1 .. Len(q) : q[j] \in {"released", "idle"}
  BY DEF Answered
<1>2. j \in DOMAIN q
  OBVIOUS
<1> QED
  BY <1>1, <1>2 DEF Range

LEMMA Posted ==
    ASSUME WebTypes, NEW w \in AppWindows, NEW m \in Messages,
           NEW box \in [AppWindows -> Seq(Messages)]
    PROVE  /\ PostFrom(box, w, m) \in [AppWindows -> Seq(Messages)]
           /\ \A v \in AppWindows :
                 \/ PostFrom(box, w, m)[v] = box[v] /\ (v = w \/ ~Up(v) \/ ~Up(w))
                 \/ PostFrom(box, w, m)[v] = Append(box[v], m) /\ v # w /\ Up(v) /\ Up(w)
BY BoxAppend DEF PostFrom

-----------------------------------------------------------------------------
(* A panel. *)

\* What only messages and the outcome of an open change.
Alike(p, q) ==
    /\ q.mount = p.mount /\ q.stream = p.stream /\ q.busy = p.busy
    /\ q.heldByPeer = p.heldByPeer /\ q.ready = p.ready /\ q.lost = p.lost

LEMMA AcquireDoes ==
    ASSUME NEW p, IsPanel(p), NEW q, q = Acquire(p)
    PROVE  /\ IsPanel(q) /\ Alike(p, q) /\ q.poll = p.poll /\ q.watched = p.watched
           /\ p.mount # "up" \/ p.stream # "none" => q = p
           /\ p.mount = "up" /\ p.stream = "none" /\ p.step = "idle" => q.step = "open"
           /\ p.step # "idle" => q.step = p.step
<1> USE DEF IsPanel, Alike
<1>1. CASE p.mount # "up" \/ p.stream # "none"
  BY <1>1 DEF Acquire
<1>2. CASE p.mount = "up" /\ p.stream = "none" /\ p.step = "idle"
  <2>1. q = [p EXCEPT !.step = "open"]
    BY <1>2 DEF Acquire
  <2> QED
    BY <1>2, <2>1
<1>3. CASE p.mount = "up" /\ p.stream = "none" /\ p.step # "idle"
  <2>1. q = [p EXCEPT !.queued = TRUE]
    BY <1>3 DEF Acquire
  <2> QED
    BY <1>3, <2>1
<1> QED
  BY <1>1, <1>2, <1>3

LEMMA SchedulePollDoes ==
    ASSUME NEW p, IsPanel(p), NEW q, q = SchedulePoll(p)
    PROVE  /\ IsPanel(q) /\ Alike(p, q) /\ q.step = p.step /\ q.watched = p.watched
           /\ q.queued = p.queued /\ (p.poll \/ Wanting(p) => q.poll)
<1>1. q = [p EXCEPT !.poll = p.poll \/ Wanting(p)]
  BY DEF SchedulePoll
<1>2. Wanting(p) \in BOOLEAN
  BY DEF Wanting
<1> QED
  BY <1>1, <1>2 DEF IsPanel, Alike

LEMMA AcquireAndWatchDoes ==
    ASSUME NEW p, IsPanel(p), NEW q, q = AcquireAndWatch(p), p.mount = "up", p.stream = "none"
    PROVE  /\ IsPanel(q) /\ Alike(p, q) /\ (p.poll => q.poll)
           /\ p.step = "idle" => q.step = "open" /\ q.watched
           /\ p.step # "idle" => q.step = p.step /\ q.watched = p.watched /\ (Wanting(p) => q.poll)
<1>1. CASE p.step = "idle"
  <2> DEFINE r == [p EXCEPT !.watched = TRUE]
  <2>1. IsPanel(r) /\ Alike(p, r) /\ r.watched /\ r.step = "idle" /\ r.poll = p.poll
    BY <1>1 DEF IsPanel, Alike
  <2>2. q = Acquire(r)
    BY <1>1 DEF AcquireAndWatch
  <2> HIDE DEF r
  <2>3. /\ IsPanel(q) /\ Alike(r, q) /\ q.poll = r.poll /\ q.watched = r.watched
        /\ r.mount = "up" /\ r.stream = "none" /\ r.step = "idle" => q.step = "open"
    BY <2>1, <2>2, AcquireDoes
  <2> QED
    BY <1>1, <2>1, <2>3 DEF Alike
<1>2. CASE p.step # "idle"
  <2> DEFINE r == Acquire(p)
  <2>1. q = SchedulePoll(r)
    BY <1>2 DEF AcquireAndWatch
  <2>2. /\ IsPanel(r) /\ Alike(p, r) /\ r.poll = p.poll /\ r.watched = p.watched
        /\ r.step = p.step
    BY <1>2, AcquireDoes
  <2> HIDE DEF r
  <2>3. /\ IsPanel(q) /\ Alike(r, q) /\ q.step = r.step /\ q.watched = r.watched
        /\ r.poll \/ Wanting(r) => q.poll
    BY <2>1, <2>2, SchedulePollDoes
  <2>4. Wanting(r) <=> Wanting(p)
    BY <2>2 DEF Wanting, Alike
  <2> QED
    BY <1>2, <2>2, <2>3, <2>4 DEF Alike
<1> QED
  BY <1>1, <1>2

LEMMA FinallyDoes ==
    ASSUME NEW p, IsPanel(p), NEW q, q = Finally(p)
    PROVE  /\ IsPanel(q) /\ Alike(p, q) /\ (p.poll => q.poll)
           /\ q.step \in {"idle", "open"}
           /\ p.mount # "up" \/ p.stream # "none" => q.step = "idle"
           /\ p.watched /\ Wanting(p) => q.poll
<1> DEFINE s == [p EXCEPT !.step = "idle", !.heard = FALSE, !.queued = FALSE, !.watched = FALSE]
           r == IF p.watched THEN SchedulePoll(s) ELSE s
<1>1. q = IF p.queued THEN Acquire(r) ELSE r
  BY DEF Finally
<1>2. IsPanel(s) /\ Alike(p, s) /\ s.step = "idle" /\ s.poll = p.poll
  BY DEF IsPanel, Alike
<1> HIDE DEF s
<1>3. /\ IsPanel(r) /\ Alike(p, r) /\ r.step = "idle"
      /\ p.poll => r.poll
      /\ p.watched /\ Wanting(p) => r.poll
  <2>1. CASE p.watched
    <3>1. /\ IsPanel(r) /\ Alike(s, r) /\ r.step = s.step
          /\ s.poll \/ Wanting(s) => r.poll
      BY <1>2, <2>1, SchedulePollDoes
    <3>2. Wanting(s) <=> Wanting(p)
      BY <1>2 DEF Wanting, Alike
    <3> QED
      BY <1>2, <3>1, <3>2 DEF Alike
  <2>2. CASE ~p.watched
    BY <1>2, <2>2
  <2> QED
    BY <2>1, <2>2
<1> HIDE DEF r
<1>4. CASE ~p.queued
  BY <1>1, <1>3, <1>4
<1>5. CASE p.queued
  <2>1. /\ IsPanel(q) /\ Alike(r, q) /\ q.poll = r.poll
        /\ r.mount # "up" \/ r.stream # "none" => q = r
        /\ r.mount = "up" /\ r.stream = "none" => q.step = "open"
    BY <1>1, <1>3, <1>5, AcquireDoes
  <2> QED
    BY <1>3, <2>1 DEF Alike
<1> QED
  BY <1>4, <1>5 DEF IsPanel

LEMMA CaughtDoes ==
    ASSUME NEW p, IsPanel(p), NEW error, NEW q, q = Caught(p, error)
    PROVE  /\ IsPanel(q)
           /\ q.mount = p.mount /\ q.stream = p.stream
           /\ q.heldByPeer = p.heldByPeer /\ q.lost = p.lost
           /\ p.poll => q.poll
           /\ q.step \in {"idle", "open"}
           /\ p.mount # "up" \/ p.stream # "none" => q.step = "idle"
           /\ p.mount = "up" => q.ready = "failure" /\ (q.busy => ~p.heldByPeer)
           /\ p.mount = "up" /\ p.watched /\ q.busy /\ p.stream = "none" => q.poll
<1>1. CASE p.mount # "up"
  <2>1. /\ IsPanel(q) /\ Alike(p, q) /\ (p.poll => q.poll)
        /\ p.mount # "up" \/ p.stream # "none" => q.step = "idle"
    BY <1>1, FinallyDoes DEF Caught
  <2> QED
    BY <1>1, <2>1 DEF Alike
<1>2. CASE p.mount = "up"
  <2> DEFINE asBusy == (error = "busy" /\ ~p.heldByPeer)
             r == [p EXCEPT !.busy = asBusy, !.ready = "failure"]
  <2>1. q = Finally(r)
    BY <1>2 DEF Caught
  <2>2. asBusy \in BOOLEAN /\ (asBusy => ~p.heldByPeer)
    OBVIOUS
  <2> HIDE DEF asBusy
  <2>3. /\ IsPanel(r) /\ r.mount = p.mount /\ r.stream = p.stream /\ r.lost = p.lost
        /\ r.heldByPeer = p.heldByPeer /\ r.poll = p.poll /\ r.watched = p.watched
        /\ r.ready = "failure" /\ r.busy = asBusy
    BY <2>2 DEF IsPanel
  <2> HIDE DEF r
  <2>4. /\ IsPanel(q) /\ Alike(r, q) /\ (r.poll => q.poll)
        /\ q.step \in {"idle", "open"}
        /\ r.mount # "up" \/ r.stream # "none" => q.step = "idle"
        /\ r.watched /\ Wanting(r) => q.poll
    BY <2>1, <2>3, FinallyDoes
  <2>5. r.busy => ~p.heldByPeer
    BY <2>2, <2>3
  <2>6. Wanting(r) <=> p.mount = "up" /\ r.busy /\ ~p.heldByPeer /\ p.stream = "none"
    BY <2>3 DEF Wanting
  <2> QED
    BY <1>2, <2>3, <2>4, <2>5, <2>6 DEF Alike
<1> QED
  BY <1>1, <1>2

-----------------------------------------------------------------------------
(* What a step of window w has to do for the invariant. *)

PanelStep(w) ==
    /\ DOMAIN panel' = AppWindows /\ \A v \in AppWindows \ {w} : panel'[v] = panel[v]
    /\ IsPanel(panel'[w]) /\ Calm(panel'[w]) /\ (~stray' => Motive(panel'[w]))
    /\ stray => stray'

MailStep(w) ==
    /\ mail' \in [AppWindows -> Seq(Messages)]
    /\ \A v \in AppWindows : ~Up(v)' => mail'[v] = <<>>

\* To the others nothing is sent that keeps them from trying.
Harmless(w) ==
    \A v \in AppWindows \ {w} :
        \/ mail'[v] = mail[v]
        \/ \E m \in Messages \ {"holding"} : mail'[v] = Append(mail[v], m)

RootStep(w) ==
    \/ Root(w)'
    \/ /\ Harmless(w) /\ (Up(w)' => Up(w))
       /\ ~stray' /\ Root(w) /\ (\E u \in AppWindows : Up(u)') => \E v \in AppWindows : Root(v)'

\* The mail stays, or window w takes a message.
Quiet(w) ==
    \/ mail' = mail
    \/ mail[w] # <<>> /\ mail' = RestOfMail(w)

LEMMA QuietDoes ==
    ASSUME WebTypes, AtRest, NEW w \in AppWindows, Quiet(w), PanelStep(w), Up(w)' <=> Up(w)
    PROVE  /\ MailStep(w) /\ Harmless(w)
           /\ \A v \in AppWindows : Range(mail'[v]) \subseteq Range(mail[v])
           /\ \A M : Answered(mail[w], M) => Answered(mail'[w], M)
<1>1. CASE mail' = mail
  BY <1>1 DEF WebTypes, AtRest, MailStep, Harmless, PanelStep, Up
<1>2. CASE mail[w] # <<>> /\ mail' = RestOfMail(w)
  <2>1. mail[w] \in Seq(Messages)
    BY DEF WebTypes
  <2>2. mail' = [mail EXCEPT ![w] = Tail(mail[w])] /\ DOMAIN mail = AppWindows
    BY <1>2 DEF RestOfMail, WebTypes
  <2>3. mail'[w] = Tail(mail[w]) /\ \A v \in AppWindows \ {w} : mail'[v] = mail[v]
    BY <2>2
  <2>4. /\ Tail(mail[w]) \in Seq(Messages) /\ Range(Tail(mail[w])) \subseteq Range(mail[w])
        /\ \A M : Answered(mail[w], M) => Answered(Tail(mail[w]), M)
    BY <1>2, <2>1, BoxHead
  <2>5. mail' \in [AppWindows -> Seq(Messages)]
    BY <2>2, <2>4 DEF WebTypes
  <2>6. Up(w)
    BY <1>2 DEF AtRest
  <2>7. MailStep(w)
    BY <2>3, <2>5, <2>6 DEF MailStep, AtRest, PanelStep, Up
  <2> QED
    BY <2>3, <2>4, <2>7 DEF Harmless
<1> QED
  BY <1>1, <1>2 DEF Quiet

\* Nobody asks, and who asked still waits for the answer.
LEMMA Unasked ==
    ASSUME NEW w \in AppWindows, Asks, PanelStep(w),
           (\E v \in AppWindows : "release" \in Range(mail'[v])) =>
              \E v \in AppWindows : "release" \in Range(mail[v]),
           /\ ~stray' /\ Up(w) /\ panel[w].step = "peers"
           /\ \E v \in AppWindows : "release" \in Range(mail[v])
           => Up(w)' /\ panel'[w].step = "peers"
    PROVE  Asks'
<1> SUFFICES ASSUME ~stray', \E v \in AppWindows : "release" \in Range(mail'[v])
             PROVE  \E u \in AppWindows : Up(u)' /\ panel'[u].step = "peers"
  BY DEF Asks
<1>1. \E v \in AppWindows : "release" \in Range(mail[v])
  OBVIOUS
<1>2. PICK u \in AppWindows : Up(u) /\ panel[u].step = "peers"
  BY <1>1 DEF Asks, PanelStep
<1>3. CASE u = w
  BY <1>1, <1>2, <1>3
<1>4. CASE u # w
  BY <1>2, <1>4 DEF PanelStep, Up
<1> QED
  BY <1>3, <1>4

LEMMA OthersKeep ==
    ASSUME WebTypes, NEW w \in AppWindows, PanelStep(w), Harmless(w),
           NEW v \in AppWindows \ {w}, Root(v)
    PROVE  Root(v)'
<1>1. panel'[v] = panel[v]
  BY DEF PanelStep
<1>2. CASE mail'[v] = mail[v]
  BY <1>1, <1>2 DEF Root, Up
<1>3. ASSUME NEW m \in Messages \ {"holding"}, mail'[v] = Append(mail[v], m) PROVE Root(v)'
  <2>1. mail[v] \in Seq(Messages)
    BY DEF WebTypes
  <2>2. /\ Range(mail'[v]) = Range(mail[v]) \cup {m}
        /\ \A M : Answered(mail[v], M) => Answered(mail'[v], M)
    BY <1>3, <2>1, BoxAppend
  <2> QED
    BY <1>1, <2>2 DEF Root, Up
<1> QED
  BY <1>2, <1>3 DEF Harmless

LEMMA WebInvFrom ==
    ASSUME WebInv, NEW w \in AppWindows, PanelStep(w), MailStep(w), RootStep(w), Asks'
    PROVE  WebInv'
<1>1. WebTypes'
  BY DEF WebInv, WebTypes, PanelStep, MailStep
<1>2. AtRest'
  BY DEF WebInv, AtRest, PanelStep, MailStep
<1>3. GoesOn'
  BY DEF WebInv, GoesOn, PanelStep
<1>4. Rooted'
  <2> SUFFICES ASSUME ~stray', NEW u \in AppWindows, Up(u)' PROVE \E v \in AppWindows : Root(v)'
    BY DEF Rooted
  <2>1. CASE Root(w)'
    BY <2>1
  <2>2. CASE /\ Harmless(w) /\ (Up(w)' => Up(w))
             /\ ~stray' /\ Root(w) /\ (\E x \in AppWindows : Up(x)')
                => \E v \in AppWindows : Root(v)'
    <3>1. Up(u) /\ ~stray
      BY <2>2 DEF PanelStep, Up
    <3>2. PICK v \in AppWindows : Root(v)
      BY <3>1 DEF WebInv, Rooted
    <3>3. CASE v = w
      BY <2>2, <3>2, <3>3
    <3>4. CASE v # w
      BY <2>2, <3>2, <3>4, OthersKeep DEF WebInv
    <3> QED
      BY <3>3, <3>4
  <2> QED
    BY <2>1, <2>2 DEF RootStep
<1> QED
  BY <1>1, <1>2, <1>3, <1>4 DEF WebInv

LEMMA QuietStep ==
    ASSUME WebInv, NEW w \in AppWindows, Quiet(w), PanelStep(w), Up(w)' <=> Up(w),
           ~stray' /\ Root(w) => Root(w)',
           /\ ~stray' /\ Up(w) /\ panel[w].step = "peers"
           /\ \E v \in AppWindows : "release" \in Range(mail[v])
           => panel'[w].step = "peers"
    PROVE  WebInv'
<1>1. /\ MailStep(w) /\ Harmless(w)
      /\ \A v \in AppWindows : Range(mail'[v]) \subseteq Range(mail[v])
  BY QuietDoes DEF WebInv
<1>2. RootStep(w)
  BY <1>1 DEF RootStep
<1>3. (\E v \in AppWindows : "release" \in Range(mail'[v])) =>
         \E v \in AppWindows : "release" \in Range(mail[v])
  BY <1>1
<1>4. Asks'
  BY <1>3, Unasked DEF WebInv
<1> QED
  BY <1>1, <1>2, <1>4, WebInvFrom

\* What is known of window w before a step.
LEMMA Here ==
    ASSUME WebInv, NEW w \in AppWindows
    PROVE  /\ DOMAIN panel = AppWindows /\ IsPanel(panel[w]) /\ Calm(panel[w])
           /\ mail[w] \in Seq(Messages)
           /\ ~Up(w) => mail[w] = <<>>
           /\ ~stray => Motive(panel[w])
BY DEF WebInv, WebTypes, AtRest, GoesOn

LEMMA Replaced ==
    ASSUME WebInv, NEW w \in AppWindows, NEW q, panel' = [panel EXCEPT ![w] = q],
           IsPanel(q), Calm(q), ~stray' => Motive(q), stray => stray'
    PROVE  PanelStep(w) /\ panel'[w] = q
BY Here DEF PanelStep

\* A new panel is as the component starts it.
LEMMA New == NewPanel.mount = "new" /\ IsPanel(NewPanel) /\ ~NewPanel.heldByPeer
             /\ NewPanel.step = "idle" /\ NewPanel.stream = "none" /\ ~NewPanel.poll
             /\ ~NewPanel.spent
BY DEF NewPanel, IsPanel

-----------------------------------------------------------------------------
(* The steps that send nothing. *)

LEMMA OpenFailsStep ==
    ASSUME WebInv, NEW w \in AppWindows, StillBusy(w) \/ Refused(w)
    PROVE  WebInv'
<1> DEFINE p == panel[w]
<1>1. PICK error : panel' = [panel EXCEPT ![w] = Caught(p, error)]
  BY DEF StillBusy, Refused, OpenFails
<1>2. /\ p.step \in {"open", "again"} /\ mail' = mail
      /\ stray' = (stray \/ (Up(w) /\ ~panel'[w].busy))
  BY DEF StillBusy, Refused, OpenFails
<1>3. /\ DOMAIN panel = AppWindows /\ IsPanel(p) /\ Calm(p) /\ (~stray => Motive(p))
  BY Here
<1> DEFINE q == Caught(p, error)
<1>4. /\ IsPanel(q) /\ q.mount = p.mount /\ q.stream = p.stream
      /\ q.heldByPeer = p.heldByPeer /\ q.lost = p.lost
      /\ p.poll => q.poll
      /\ q.step \in {"idle", "open"}
      /\ p.mount # "up" \/ p.stream # "none" => q.step = "idle"
      /\ p.mount = "up" => q.ready = "failure" /\ (q.busy => ~p.heldByPeer)
      /\ p.mount = "up" /\ p.watched /\ q.busy /\ p.stream = "none" => q.poll
  BY <1>3, CaughtDoes
<1> HIDE DEF q
<1>5. panel'[w] = q
  BY <1>1, <1>3 DEF q
<1>6. ~stray' => ~stray /\ (Up(w) => q.busy)
  BY <1>2, <1>5
<1>7. Calm(q)
  BY <1>2, <1>3, <1>4, New DEF Calm
<1>8. ~stray' => Motive(q)
  BY <1>3, <1>4, <1>6 DEF Motive, Up
<1>9. PanelStep(w)
  BY <1>1, <1>4, <1>6, <1>7, <1>8, Replaced DEF q
<1>10. ~stray' /\ Root(w) => Root(w)'
  BY <1>2, <1>3, <1>4, <1>5, <1>6 DEF Root, Up, Calm
<1> QED
  BY <1>2, <1>4, <1>5, <1>9, <1>10, QuietStep DEF Quiet, Up

LEMMA PeersAskedStep ==
    ASSUME WebInv, NEW w \in AppWindows, PeersAsked(w)
    PROVE  WebInv'
<1> DEFINE p == panel[w]
<1>1. p.step = "peers" /\ mail' = mail
      /\ stray' = (stray \/ Late(w) \/ (Up(w) /\ ~panel'[w].busy))
  BY DEF PeersAsked
<1>2. /\ DOMAIN panel = AppWindows /\ IsPanel(p) /\ Calm(p) /\ (~stray => Motive(p))
      /\ mail[w] \in Seq(Messages)
  BY Here
<1>3. PICK q : /\ panel' = [panel EXCEPT ![w] = q]
               /\ \/ Up(w) /\ q = [p EXCEPT !.step = "again"]
                  \/ q = Caught(p, "busy")
  BY DEF PeersAsked
<1>4. panel'[w] = q
  BY <1>2, <1>3
<1>5. ~stray' => ~stray /\ ~Late(w) /\ (Up(w) => q.busy)
  BY <1>1, <1>4
<1>6. ~stray' => /\ "released" \notin Range(mail[w])
                 /\ \A v \in AppWindows : "release" \notin Range(mail[v])
  BY <1>5 DEF Late
<1>7. ~stray' /\ Answered(mail[w], {"released", "idle"}) => Answered(mail[w], {"idle"})
  BY <1>2, <1>6, Unanswered
<1>8. /\ IsPanel(q) /\ Calm(q) /\ (~stray' => Motive(q))
      /\ q.mount = p.mount /\ (~stray' /\ Root(w) => Root(w)')
  <2>1. CASE Up(w) /\ q = [p EXCEPT !.step = "again"]
    <3>1. /\ IsPanel(q) /\ q.mount = p.mount /\ q.stream = p.stream /\ q.watched = p.watched
          /\ q.heldByPeer = p.heldByPeer /\ q.lost = p.lost /\ q.poll = p.poll
          /\ q.step = "again" /\ q.busy = p.busy
      BY <1>2, <2>1 DEF IsPanel
    <3>2. Calm(q)
      BY <1>1, <1>2, <2>1, <3>1 DEF Calm, Up
    <3>3. ~stray' => Motive(q)
      BY <1>1, <1>2, <1>5, <3>1 DEF Motive
    <3>4. ~stray' /\ Root(w) => Root(w)'
      BY <1>1, <1>4, <1>7, <3>1 DEF Root, Up
    <3> QED
      BY <3>1, <3>2, <3>3, <3>4
  <2>2. CASE q = Caught(p, "busy")
    <3>1. /\ IsPanel(q) /\ q.mount = p.mount /\ q.stream = p.stream
          /\ q.heldByPeer = p.heldByPeer /\ q.lost = p.lost
          /\ p.poll => q.poll
          /\ q.step \in {"idle", "open"}
          /\ p.mount # "up" \/ p.stream # "none" => q.step = "idle"
          /\ p.mount = "up" => q.ready = "failure" /\ (q.busy => ~p.heldByPeer)
          /\ p.mount = "up" /\ p.watched /\ q.busy /\ p.stream = "none" => q.poll
      BY <1>2, <2>2, CaughtDoes
    <3>2. Calm(q)
      BY <1>1, <1>2, <3>1, New DEF Calm
    <3>3. ~stray' => Motive(q)
      BY <1>2, <1>5, <3>1 DEF Motive, Up
    <3>4. ~stray' /\ Root(w) => Root(w)'
      BY <1>1, <1>2, <1>4, <1>5, <1>7, <3>1 DEF Root, Up, Calm
    <3> QED
      BY <3>1, <3>2, <3>3, <3>4
  <2> QED
    BY <1>3, <2>1, <2>2
<1>9. PanelStep(w)
  BY <1>3, <1>5, <1>8, Replaced
<1> QED
  BY <1>1, <1>4, <1>6, <1>8, <1>9, QuietStep DEF Quiet, Up

LEMMA ThrottleOverStep ==
    ASSUME WebInv, NEW w \in AppWindows, ThrottleOver(w)
    PROVE  WebInv'
<1> DEFINE p == panel[w]
           q == [p EXCEPT !.spent = FALSE]
<1>1. p.spent /\ panel' = [panel EXCEPT ![w] = q] /\ mail' = mail /\ stray' = stray
  BY DEF ThrottleOver
<1>2. /\ DOMAIN panel = AppWindows /\ IsPanel(p) /\ Calm(p) /\ (~stray => Motive(p))
  BY Here
<1>3. IsPanel(q) /\ Alike(p, q) /\ q.step = p.step /\ q.watched = p.watched /\ q.poll = p.poll
  BY <1>2 DEF IsPanel, Alike
<1> HIDE DEF q
<1>4. Calm(q) /\ (~stray' => Motive(q))
  BY <1>1, <1>2, <1>3, New DEF Calm, Motive, Alike
<1>5. PanelStep(w) /\ panel'[w] = q
  BY <1>1, <1>3, <1>4, Replaced
<1>6. Root(w) => Root(w)'
  BY <1>1, <1>3, <1>5 DEF Root, Up, Alike
<1> QED
  BY <1>1, <1>3, <1>5, <1>6, QuietStep DEF Quiet, Up, Alike

LEMMA PollFiresStep ==
    ASSUME WebInv, NEW w \in AppWindows, PollFires(w)
    PROVE  WebInv'
<1> DEFINE p == panel[w]
           r == [p EXCEPT !.poll = FALSE]
           q == IF Wanting(r) THEN AcquireAndWatch(r) ELSE r
<1>1. p.poll /\ panel' = [panel EXCEPT ![w] = q] /\ mail' = mail /\ stray' = stray
  BY DEF PollFires
<1>2. /\ DOMAIN panel = AppWindows /\ IsPanel(p) /\ Calm(p) /\ (~stray => Motive(p))
  BY Here
<1>3. IsPanel(r) /\ Alike(p, r) /\ r.step = p.step /\ r.watched = p.watched
  BY <1>2 DEF IsPanel, Alike
<1> HIDE DEF r
<1>4. Wanting(r) <=> p.mount = "up" /\ p.busy /\ ~p.heldByPeer /\ p.stream = "none"
  BY <1>3 DEF Wanting, Alike
<1>5. /\ IsPanel(q) /\ Alike(p, q)
      /\ Wanting(r) => /\ p.step = "idle" => q.step = "open" /\ q.watched
                       /\ p.step # "idle" => q.step = p.step /\ q.watched = p.watched /\ q.poll
      /\ ~Wanting(r) => q.step = p.step /\ q.watched = p.watched
  <2>1. CASE Wanting(r)
    <3>1. /\ IsPanel(q) /\ Alike(r, q)
          /\ r.step = "idle" => q.step = "open" /\ q.watched
          /\ r.step # "idle" => q.step = r.step /\ q.watched = r.watched /\ (Wanting(r) => q.poll)
      BY <1>3, <2>1, AcquireAndWatchDoes DEF Wanting
    <3> QED
      BY <1>3, <2>1, <3>1 DEF Alike
  <2>2. CASE ~Wanting(r)
    BY <1>3, <2>2
  <2> QED
    BY <2>1, <2>2
<1> HIDE DEF q
<1>6. Calm(q)
  BY <1>1, <1>2, <1>4, <1>5, New DEF Calm, Alike
<1>7. ~stray' => Motive(q)
  BY <1>1, <1>2, <1>4, <1>5 DEF Motive, Alike
<1>8. PanelStep(w) /\ panel'[w] = q
  BY <1>1, <1>5, <1>6, <1>7, Replaced
<1>9. Root(w) => Root(w)'
  BY <1>1, <1>5, <1>8 DEF Root, Up, Alike
<1>10. p.step = "peers" => q.step = "peers"
  BY <1>5
<1> QED
  BY <1>1, <1>5, <1>8, <1>9, <1>10, QuietStep DEF Quiet, Up, Alike

LEMMA DevicesChangeStep ==
    ASSUME WebInv, NEW w \in AppWindows, DevicesChange(w)
    PROVE  WebInv'
<1> DEFINE p == panel[w]
           q == Acquire(p)
<1>1. Wanting(p) /\ panel' = [panel EXCEPT ![w] = q] /\ mail' = mail /\ stray' = stray
  BY DEF DevicesChange
<1>2. /\ DOMAIN panel = AppWindows /\ IsPanel(p) /\ Calm(p) /\ (~stray => Motive(p))
  BY Here
<1>3. /\ IsPanel(q) /\ Alike(p, q) /\ q.poll = p.poll /\ q.watched = p.watched
      /\ p.mount = "up" /\ p.stream = "none" /\ p.step = "idle" => q.step = "open"
      /\ p.step # "idle" => q.step = p.step
  BY <1>2, AcquireDoes
<1> HIDE DEF q
<1>4. Calm(q) /\ (~stray' => Motive(q))
  BY <1>1, <1>2, <1>3 DEF Calm, Motive, Alike, Wanting
<1>5. PanelStep(w) /\ panel'[w] = q
  BY <1>1, <1>3, <1>4, Replaced
<1>6. Root(w) => Root(w)'
  BY <1>1, <1>3, <1>5 DEF Root, Up, Alike
<1>7. p.step = "peers" => q.step = "peers"
  BY <1>3
<1> QED
  BY <1>1, <1>3, <1>5, <1>6, <1>7, QuietStep DEF Quiet, Up, Alike

LEMMA StreamEndsStep ==
    ASSUME WebInv, NEW w \in AppWindows, StreamEnds(w)
    PROVE  WebInv'
<1> DEFINE p == panel[w]
           q == [p EXCEPT !.stream = "ended"]
<1>1. p.stream = "live" /\ panel' = [panel EXCEPT ![w] = q] /\ mail' = mail /\ stray' = stray
  BY DEF StreamEnds
<1>2. /\ DOMAIN panel = AppWindows /\ IsPanel(p) /\ Calm(p)
  BY Here
<1>3. IsPanel(q) /\ q.mount = p.mount /\ q.stream = "ended" /\ q.step = p.step
  BY <1>2 DEF IsPanel
<1> HIDE DEF q
<1>4. Calm(q) /\ (~stray' => Motive(q))
  BY <1>1, <1>2, <1>3, New DEF Calm, Motive
<1>5. PanelStep(w) /\ panel'[w] = q
  BY <1>1, <1>3, <1>4, Replaced
<1>6. Root(w) => Root(w)'
  BY <1>1, <1>3, <1>5 DEF Root, Up
<1> QED
  BY <1>1, <1>3, <1>5, <1>6, QuietStep DEF Quiet, Up

-----------------------------------------------------------------------------
(* The steps that take a message. *)

\* What is known when window w takes m.
LEMMA Taking ==
    ASSUME WebInv, NEW w \in AppWindows, NEW m, Arrives(w, m)
    PROVE  /\ Up(w) /\ mail[w] \in Seq(Messages) /\ mail[w] # <<>>
           /\ RestOfMail(w) \in [AppWindows -> Seq(Messages)] /\ RestOfMail(w)[w] = Tail(mail[w])
           /\ \A v \in AppWindows \ {w} : RestOfMail(w)[v] = mail[v]
           /\ Range(mail[w]) = {m} \cup Range(Tail(mail[w]))
           /\ \A M : Answered(mail[w], M) => Answered(Tail(mail[w]), M)
           /\ \A M : Answered(mail[w], M) /\ m = "holding" => \E n \in M : n \in Range(Tail(mail[w]))
<1>1. mail[w] # <<>> /\ Head(mail[w]) = m
  BY DEF Arrives
<1>2. mail[w] \in Seq(Messages) /\ Up(w)
  BY <1>1, Here
<1>3. /\ Head(mail[w]) \in Messages /\ Tail(mail[w]) \in Seq(Messages)
      /\ Range(mail[w]) = {Head(mail[w])} \cup Range(Tail(mail[w]))
      /\ \A M : Answered(mail[w], M) => Answered(Tail(mail[w]), M)
      /\ \A M : Answered(mail[w], M) /\ Head(mail[w]) = "holding"
                => \E n \in M : n \in Range(Tail(mail[w]))
  BY <1>1, <1>2, BoxHead
<1>4. mail \in [AppWindows -> Seq(Messages)]
  BY DEF WebInv, WebTypes
<1>5. RestOfMail(w) = [mail EXCEPT ![w] = Tail(mail[w])]
  BY DEF RestOfMail
<1>6. /\ RestOfMail(w) \in [AppWindows -> Seq(Messages)] /\ RestOfMail(w)[w] = Tail(mail[w])
      /\ \A v \in AppWindows \ {w} : RestOfMail(w)[v] = mail[v]
  BY <1>3, <1>4, <1>5
<1> QED
  BY <1>1, <1>2, <1>3, <1>6

LEMMA HearHoldingStep ==
    ASSUME WebInv, NEW w \in AppWindows, HearHolding(w)
    PROVE  WebInv'
<1> DEFINE p == panel[w]
           held == p.heldByPeer \/ p.stream = "none"
           q == [p EXCEPT !.heldByPeer = held]
<1>1. Arrives(w, "holding") /\ mail' = RestOfMail(w) /\ stray' = stray
  BY DEF HearHolding
<1>2. /\ DOMAIN panel = AppWindows /\ IsPanel(p) /\ Calm(p) /\ (~stray => Motive(p))
  BY Here
<1>3. panel' = [panel EXCEPT ![w] = q]
  BY <1>2 DEF HearHolding
<1>4. held \in BOOLEAN /\ (p.heldByPeer => held)
  OBVIOUS
<1> HIDE DEF held
<1>5. /\ IsPanel(q) /\ q.mount = p.mount /\ q.stream = p.stream /\ q.step = p.step
      /\ q.lost = p.lost /\ q.heldByPeer = held /\ q.busy = p.busy /\ q.poll = p.poll
      /\ q.watched = p.watched /\ q.ready = p.ready
  BY <1>2, <1>4 DEF IsPanel
<1> HIDE DEF q
<1>6. /\ Up(w) /\ mail[w] # <<>> /\ RestOfMail(w)[w] = Tail(mail[w])
      /\ \A M : Answered(mail[w], M) => Answered(Tail(mail[w]), M)
      /\ \A M : Answered(mail[w], M) => \E n \in M : n \in Range(Tail(mail[w]))
  BY <1>1, Taking
<1>7. Calm(q)
  BY <1>2, <1>5, <1>6, New DEF Calm, Up
<1>8. ~stray' => Motive(q)
  BY <1>1, <1>2, <1>4, <1>5 DEF Motive
<1>9. PanelStep(w) /\ panel'[w] = q
  BY <1>1, <1>3, <1>5, <1>7, <1>8, Replaced
<1>10. Answered(mail[w], {"idle"}) => "idle" \in Range(Tail(mail[w]))
  BY <1>6
<1>11. Root(w) => Root(w)'
  BY <1>1, <1>5, <1>6, <1>9, <1>10 DEF Root, Up
<1> QED
  BY <1>1, <1>5, <1>6, <1>9, <1>11, QuietStep DEF Quiet, Up

LEMMA HearIdleStep ==
    ASSUME WebInv, NEW w \in AppWindows, HearIdle(w)
    PROVE  WebInv'
<1> DEFINE p == panel[w]
           r == [p EXCEPT !.heldByPeer = FALSE]
           q == IF Wanting(r) THEN AcquireAndWatch(r) ELSE r
<1>1. /\ Arrives(w, "idle") /\ panel' = [panel EXCEPT ![w] = q]
      /\ mail' = RestOfMail(w) /\ stray' = stray
  BY DEF HearIdle
<1>2. /\ DOMAIN panel = AppWindows /\ IsPanel(p) /\ Calm(p) /\ (~stray => Motive(p))
  BY Here
<1>3. /\ IsPanel(r) /\ r.mount = p.mount /\ r.stream = p.stream /\ r.step = p.step
      /\ r.lost = p.lost /\ ~r.heldByPeer /\ r.busy = p.busy /\ r.poll = p.poll
      /\ r.watched = p.watched /\ r.ready = p.ready
  BY <1>2 DEF IsPanel
<1> HIDE DEF r
<1>4. Wanting(r) <=> p.mount = "up" /\ p.busy /\ p.stream = "none"
  BY <1>3 DEF Wanting
<1>5. /\ IsPanel(q) /\ Alike(r, q)
      /\ Wanting(r) => /\ p.step = "idle" => q.step = "open" /\ q.watched
                       /\ p.step # "idle" => q.step = p.step /\ q.watched = p.watched /\ q.poll
      /\ ~Wanting(r) => q.step = p.step /\ q.watched = p.watched
  <2>1. CASE Wanting(r)
    <3>1. /\ IsPanel(q) /\ Alike(r, q)
          /\ r.step = "idle" => q.step = "open" /\ q.watched
          /\ r.step # "idle" => q.step = r.step /\ q.watched = r.watched /\ (Wanting(r) => q.poll)
      BY <1>3, <2>1, AcquireAndWatchDoes DEF Wanting
    <3> QED
      BY <1>3, <2>1, <3>1 DEF Alike
  <2>2. CASE ~Wanting(r)
    BY <1>3, <2>2 DEF Alike
  <2> QED
    BY <2>1, <2>2
<1> HIDE DEF q
<1>6. /\ Up(w) /\ mail[w] # <<>> /\ RestOfMail(w)[w] = Tail(mail[w])
      /\ \A M : Answered(mail[w], M) => Answered(Tail(mail[w]), M)
  BY <1>1, Taking
<1>7. Calm(q)
  BY <1>2, <1>3, <1>4, <1>5, <1>6, New DEF Calm, Alike, Up
<1>8. ~stray' => Motive(q)
  BY <1>1, <1>2, <1>3, <1>4, <1>5 DEF Motive, Alike
<1>9. PanelStep(w) /\ panel'[w] = q
  BY <1>1, <1>5, <1>7, <1>8, Replaced
<1>10. Root(w) => Root(w)'
  BY <1>1, <1>3, <1>5, <1>6, <1>9 DEF Root, Up, Alike
<1>11. p.step = "peers" => q.step = "peers"
  BY <1>5
<1> QED
  BY <1>1, <1>3, <1>5, <1>6, <1>9, <1>10, <1>11, QuietStep DEF Quiet, Up, Alike

LEMMA HearReleasedStep ==
    ASSUME WebInv, NEW w \in AppWindows, HearReleased(w)
    PROVE  WebInv'
<1> DEFINE p == panel[w]
           h == p.heard \/ p.step = "peers"
           q == [p EXCEPT !.heard = h]
<1>1. Arrives(w, "released") /\ mail' = RestOfMail(w) /\ stray' = stray
  BY DEF HearReleased
<1>2. /\ DOMAIN panel = AppWindows /\ IsPanel(p) /\ Calm(p) /\ (~stray => Motive(p))
  BY Here
<1>3. panel' = [panel EXCEPT ![w] = q]
  BY <1>2 DEF HearReleased
<1> HIDE DEF h
<1>4. IsPanel(q) /\ Alike(p, q) /\ q.step = p.step /\ q.watched = p.watched /\ q.poll = p.poll
  BY <1>2 DEF IsPanel, Alike
<1> HIDE DEF q
<1>5. /\ Up(w) /\ mail[w] # <<>> /\ RestOfMail(w)[w] = Tail(mail[w])
      /\ Range(mail[w]) = {"released"} \cup Range(Tail(mail[w]))
      /\ \A M : Answered(mail[w], M) => Answered(Tail(mail[w]), M)
  BY <1>1, Taking
<1>6. Calm(q) /\ (~stray' => Motive(q))
  BY <1>1, <1>2, <1>4, <1>5, New DEF Calm, Motive, Alike, Up
<1>7. PanelStep(w) /\ panel'[w] = q
  BY <1>1, <1>3, <1>4, <1>6, Replaced
<1>8. Root(w) => Root(w)'
  BY <1>1, <1>4, <1>5, <1>7 DEF Root, Up, Alike
<1> QED
  BY <1>1, <1>4, <1>5, <1>7, <1>8, QuietStep DEF Quiet, Up, Alike

-----------------------------------------------------------------------------
(* The steps that come, go and send. *)

\* What window w sends, its own mail aside.
Sends(w, box, m) ==
    /\ \A v \in AppWindows \ {w} :
          \/ mail'[v] = box[v] /\ (~Up(v) \/ ~Up(w))
          \/ mail'[v] = Append(box[v], m) /\ Up(v) /\ Up(w)
    /\ mail' \in [AppWindows -> Seq(Messages)]

\* A message sent leaves the mail of those that are not up alone; only a
\* "holding" may keep the others from trying, and only a "release" asks.
LEMMA SendsDoes ==
    ASSUME WebInv, NEW w \in AppWindows, NEW m \in Messages, Sends(w, mail, m), PanelStep(w),
           Range(mail'[w]) \subseteq Range(mail[w]), ~Up(w)' => mail'[w] = <<>>
    PROVE  /\ MailStep(w) /\ (m # "holding" => Harmless(w))
           /\ m # "release" => ((\E v \in AppWindows : "release" \in Range(mail'[v])) =>
                                   \E v \in AppWindows : "release" \in Range(mail[v]))
<1>1. \A v \in AppWindows \ {w} : panel'[v] = panel[v]
  BY DEF PanelStep
<1>2. \A v \in AppWindows : mail[v] \in Seq(Messages) /\ (~Up(v) => mail[v] = <<>>)
  BY Here
<1>3. MailStep(w)
  BY <1>1, <1>2 DEF MailStep, Sends, Up
<1>4. m # "holding" => Harmless(w)
  BY DEF Harmless, Sends
<1>5. ASSUME m # "release", NEW v \in AppWindows, "release" \in Range(mail'[v])
      PROVE  "release" \in Range(mail[v])
  <2>1. CASE v = w
    BY <1>5, <2>1
  <2>2. CASE v # w /\ mail'[v] = Append(mail[v], m)
    <3>1. Range(mail'[v]) = Range(mail[v]) \cup {m}
      BY <1>2, <2>2, BoxAppend
    <3> QED
      BY <1>5, <3>1
  <2>3. CASE v # w /\ mail'[v] = mail[v]
    BY <1>5, <2>3
  <2> QED
    BY <2>1, <2>2, <2>3 DEF Sends
<1> QED
  BY <1>3, <1>4, <1>5

LEMMA PostFromSends ==
    ASSUME WebInv, NEW w \in AppWindows, NEW m \in Messages, mail' = PostFrom(mail, w, m)
    PROVE  Sends(w, mail, m) /\ mail'[w] = mail[w]
<1>1. mail \in [AppWindows -> Seq(Messages)] /\ WebTypes
  BY DEF WebInv, WebTypes
<1>2. /\ mail' \in [AppWindows -> Seq(Messages)]
      /\ \A v \in AppWindows :
            \/ mail'[v] = mail[v] /\ (v = w \/ ~Up(v) \/ ~Up(w))
            \/ mail'[v] = Append(mail[v], m) /\ v # w /\ Up(v) /\ Up(w)
  BY <1>1, Posted
<1> QED
  BY <1>2 DEF Sends

LEMMA MountStep ==
    ASSUME WebInv, NEW w \in AppWindows, Mount(w)
    PROVE  WebInv'
<1> DEFINE p == panel[w]
           r == [p EXCEPT !.mount = "up"]
           q == AcquireAndWatch(r)
<1>1. /\ p.mount = "new" /\ panel' = [panel EXCEPT ![w] = q]
      /\ mail' = mail /\ stray' = stray
  BY DEF Mount
<1>2. /\ DOMAIN panel = AppWindows /\ IsPanel(p) /\ p = NewPanel /\ mail[w] = <<>>
  BY <1>1, Here DEF Calm, Up
<1>3. /\ IsPanel(r) /\ r.mount = "up" /\ r.stream = "none" /\ r.step = "idle" /\ ~r.heldByPeer
  BY <1>2, New DEF IsPanel
<1> HIDE DEF r
<1>4. /\ IsPanel(q) /\ Alike(r, q) /\ q.step = "open" /\ q.watched
  BY <1>3, AcquireAndWatchDoes
<1> HIDE DEF q
<1>5. Calm(q) /\ Motive(q)
  BY <1>3, <1>4 DEF Calm, Motive, Alike
<1>6. PanelStep(w) /\ panel'[w] = q
  BY <1>1, <1>4, <1>5, Replaced
<1>7. MailStep(w)
  BY <1>1, <1>6 DEF WebInv, WebTypes, AtRest, MailStep, PanelStep, Up
<1>8. mail'[w] = <<>> /\ Len(<<>>) = 0
  BY <1>1, <1>2
<1>9. Answered(mail'[w], {"idle"})
  BY <1>8 DEF Answered
<1>10. Root(w)'
  BY <1>3, <1>4, <1>6, <1>9 DEF Root, Up, Alike
<1>11. ~Up(w)
  BY <1>1 DEF Up
<1>12. Asks'
  BY <1>1, <1>6, <1>11, Unasked DEF WebInv
<1> QED
  BY <1>6, <1>7, <1>10, <1>12, WebInvFrom DEF RootStep

LEMMA UnmountStep ==
    ASSUME WebInv, NEW w \in AppWindows, Unmount(w)
    PROVE  WebInv'
<1> DEFINE p == panel[w]
           q == [p EXCEPT !.mount = "gone", !.stream = "none", !.poll = FALSE]
           box == IF p.stream = "none" THEN mail ELSE PostFrom(mail, w, "idle")
<1>1. /\ Up(w) /\ stray' = (stray \/ p.stream = "none")
      /\ mail' = [box EXCEPT ![w] = <<>>]
  BY DEF Unmount
<1>2. /\ DOMAIN panel = AppWindows /\ IsPanel(p) /\ Calm(p)
  BY Here
<1>3. panel' = [panel EXCEPT ![w] = q]
  BY <1>2 DEF Unmount, IsPanel
<1>4. IsPanel(q) /\ q.mount = "gone" /\ q.stream = "none"
  BY <1>2 DEF IsPanel
<1> HIDE DEF q
<1>5. PanelStep(w) /\ panel'[w] = q
  BY <1>1, <1>3, <1>4, Replaced DEF Calm, Motive
<1>6. mail \in [AppWindows -> Seq(Messages)] /\ WebTypes
  BY DEF WebInv, WebTypes
<1>7. /\ box \in [AppWindows -> Seq(Messages)]
      /\ \A v \in AppWindows :
            \/ box[v] = mail[v] /\ (p.stream # "none" => v = w \/ ~Up(v))
            \/ box[v] = Append(mail[v], "idle") /\ v # w /\ Up(v)
  BY <1>1, <1>6, Posted DEF Messages
<1> HIDE DEF box
<1>8. /\ mail'[w] = <<>> /\ \A v \in AppWindows \ {w} : mail'[v] = box[v]
      /\ mail' \in [AppWindows -> Seq(Messages)]
  BY <1>1, <1>7
<1>9. /\ \A v \in AppWindows \ {w} :
            \/ mail'[v] = mail[v] /\ (p.stream # "none" => ~Up(v))
            \/ mail'[v] = Append(mail[v], "idle") /\ Up(v)
  BY <1>7, <1>8
<1>10. /\ \A v \in AppWindows \ {w} : Up(v)' <=> Up(v)
       /\ ~Up(w)'
  BY <1>4, <1>5 DEF Up, PanelStep
<1>11. \A v \in AppWindows : mail[v] \in Seq(Messages) /\ (~Up(v) => mail[v] = <<>>)
  BY Here
<1>12. MailStep(w)
  BY <1>8, <1>9, <1>10, <1>11 DEF MailStep
<1>13. Harmless(w)
  BY <1>9 DEF Harmless, Messages
<1>14. ASSUME ~stray', NEW u \in AppWindows, Up(u)' PROVE Root(u)'
  <2>1. u # w /\ mail'[u] = Append(mail[u], "idle")
    BY <1>1, <1>9, <1>10, <1>14
  <2>2. /\ Range(mail'[u]) = Range(mail[u]) \cup {"idle"}
        /\ Answered(mail'[u], {"idle"})
    BY <1>11, <2>1, BoxAppend DEF Messages
  <2> QED
    BY <1>14, <2>2 DEF Root
<1>15. RootStep(w)
  BY <1>10, <1>13, <1>14 DEF RootStep
<1>16. ASSUME NEW v \in AppWindows, "release" \in Range(mail'[v])
       PROVE  "release" \in Range(mail[v])
  <2>1. v # w
    BY <1>8, <1>16 DEF Range
  <2>2. CASE mail'[v] = Append(mail[v], "idle")
    <3>1. Range(mail'[v]) = Range(mail[v]) \cup {"idle"}
      BY <1>11, <2>2, BoxAppend DEF Messages
    <3> QED
      BY <1>16, <3>1
  <2> QED
    BY <1>9, <1>16, <2>1, <2>2
<1>17. ~stray' => p.step = "idle"
  BY <1>1, <1>2 DEF Calm
<1>18. Asks'
  BY <1>5, <1>16, <1>17, Unasked DEF WebInv
<1> QED
  BY <1>5, <1>12, <1>15, <1>18, WebInvFrom

LEMMA StreamGrantedStep ==
    ASSUME WebInv, NEW w \in AppWindows, StreamGranted(w)
    PROVE  WebInv'
<1> DEFINE p == panel[w]
           r == [p EXCEPT !.stream = "live", !.busy = FALSE, !.heldByPeer = FALSE,
                          !.ready = "capture", !.lost = FALSE]
<1>1. /\ p.step \in {"open", "again"} /\ mail' = PostFrom(mail, w, "holding") /\ stray' = stray
      /\ Up(w) => panel' = [panel EXCEPT ![w] = Finally(r)]
      /\ ~Up(w) => panel' = [panel EXCEPT ![w] = Finally(p)]
  BY DEF StreamGranted
<1>2. /\ DOMAIN panel = AppWindows /\ IsPanel(p) /\ Calm(p)
  BY Here
<1>3. /\ Sends(w, mail, "holding") /\ mail'[w] = mail[w]
  BY <1>1, PostFromSends DEF Messages
<1>4. IsPanel(r) /\ r.mount = p.mount /\ r.stream = "live"
  BY <1>2 DEF IsPanel
<1> HIDE DEF r
<1>5. PICK q : /\ panel' = [panel EXCEPT ![w] = q]
               /\ \/ Up(w) /\ q = Finally(r)
                  \/ ~Up(w) /\ q = Finally(p)
  BY <1>1
<1>6. /\ IsPanel(q) /\ q.mount = p.mount /\ q.step = "idle"
      /\ Up(w) => q.stream = "live"
  <2>1. CASE Up(w) /\ q = Finally(r)
    <3>1. IsPanel(q) /\ Alike(r, q) /\ q.step = "idle"
      BY <1>4, <2>1, FinallyDoes
    <3> QED
      BY <1>4, <3>1 DEF Alike
  <2>2. CASE ~Up(w) /\ q = Finally(p)
    <3>1. IsPanel(q) /\ Alike(p, q) /\ q.step = "idle"
      BY <1>2, <2>2, FinallyDoes DEF Up
    <3> QED
      BY <2>2, <3>1 DEF Alike
  <2> QED
    BY <1>5, <2>1, <2>2
<1>7. p.mount # "new"
  BY <1>1, <1>2, New DEF Calm
<1>8. Calm(q) /\ Motive(q)
  BY <1>6, <1>7 DEF Calm, Motive, Up
<1>9. PanelStep(w) /\ panel'[w] = q
  BY <1>1, <1>5, <1>6, <1>8, Replaced
<1>10. Up(w)' <=> Up(w)
  BY <1>6, <1>9 DEF Up
<1>11. /\ MailStep(w)
       /\ ((\E v \in AppWindows : "release" \in Range(mail'[v])) =>
              \E v \in AppWindows : "release" \in Range(mail[v]))
  BY <1>3, <1>9, <1>10, Here, SendsDoes DEF Messages
<1>12. Asks'
  BY <1>1, <1>9, <1>11, Unasked DEF WebInv
<1>13. CASE Up(w)
  <2>1. Root(w)'
    BY <1>6, <1>9, <1>10, <1>13 DEF Root
  <2> QED
    BY <1>9, <1>11, <1>12, <2>1, WebInvFrom DEF RootStep
<1>14. CASE ~Up(w)
  <2>1. Harmless(w) /\ ~Root(w)
    BY <1>3, <1>14 DEF Sends, Harmless, Root
  <2>2. RootStep(w)
    BY <1>10, <1>14, <2>1 DEF RootStep
  <2> QED
    BY <1>9, <1>11, <1>12, <2>2, WebInvFrom
<1> QED
  BY <1>13, <1>14

LEMMA FoundBusyStep ==
    ASSUME WebInv, NEW w \in AppWindows, FoundBusy(w)
    PROVE  WebInv'
<1> DEFINE p == panel[w]
           q == [p EXCEPT !.step = "peers", !.busy = TRUE]
<1>1. /\ p.step = "open" /\ mail' = PostFrom(mail, w, "release") /\ stray' = stray
  BY DEF FoundBusy
<1>2. /\ DOMAIN panel = AppWindows /\ IsPanel(p) /\ Calm(p) /\ (~stray => Motive(p))
  BY Here
<1>3. panel' = [panel EXCEPT ![w] = q]
  BY <1>2 DEF FoundBusy, IsPanel
<1>4. /\ IsPanel(q) /\ q.mount = p.mount /\ q.stream = p.stream /\ q.step = "peers"
      /\ q.lost = p.lost /\ q.heldByPeer = p.heldByPeer /\ q.busy /\ q.poll = p.poll
      /\ q.watched = p.watched /\ q.ready = p.ready
  BY <1>2 DEF IsPanel
<1> HIDE DEF q
<1>5. Calm(q)
  BY <1>1, <1>2, <1>4, New DEF Calm
<1>6. ~stray' => Motive(q)
  BY <1>1, <1>2, <1>4 DEF Motive
<1>7. PanelStep(w) /\ panel'[w] = q
  BY <1>1, <1>3, <1>4, <1>5, <1>6, Replaced
<1>8. Up(w)' <=> Up(w)
  BY <1>4, <1>7 DEF Up
<1>9. /\ Sends(w, mail, "release") /\ mail'[w] = mail[w]
  BY <1>1, PostFromSends DEF Messages
<1>10. MailStep(w) /\ Harmless(w)
  BY <1>7, <1>8, <1>9, Here, SendsDoes DEF Messages
<1>11. Root(w) => Root(w)'
  BY <1>1, <1>4, <1>7, <1>9 DEF Root, Up
<1>12. RootStep(w)
  BY <1>8, <1>10, <1>11 DEF RootStep
<1>13. CASE Up(w)
  <2>1. Asks'
    BY <1>4, <1>7, <1>8, <1>13 DEF Asks
  <2> QED
    BY <1>7, <1>10, <1>12, <2>1, WebInvFrom
<1>14. CASE ~Up(w)
  <2>1. \A v \in AppWindows : mail'[v] = mail[v]
    BY <1>9, <1>14 DEF Sends
  <2>2. Asks'
    BY <1>7, <1>14, <2>1, Unasked DEF WebInv
  <2> QED
    BY <1>7, <1>10, <1>12, <2>2, WebInvFrom
<1> QED
  BY <1>13, <1>14

LEMMA OnEndedStep ==
    ASSUME WebInv, NEW w \in AppWindows, OnEnded(w)
    PROVE  WebInv'
<1> DEFINE p == panel[w]
           r == [p EXCEPT !.stream = "none", !.busy = TRUE, !.spent = TRUE, !.lost = TRUE]
           q == IF p.spent THEN r ELSE Acquire(r)
<1>1. /\ p.stream = "ended" /\ mail' = PostFrom(mail, w, "idle") /\ stray' = stray
      /\ panel' = [panel EXCEPT ![w] = q]
  BY DEF OnEnded
<1>2. /\ DOMAIN panel = AppWindows /\ IsPanel(p) /\ Calm(p)
  BY Here
<1>3. IsPanel(r) /\ r.mount = p.mount /\ r.stream = "none" /\ r.lost
  BY <1>2 DEF IsPanel
<1> HIDE DEF r
<1>4. IsPanel(q) /\ q.mount = p.mount /\ q.stream = "none" /\ q.lost
  <2>1. CASE p.spent
    BY <1>3, <2>1
  <2>2. CASE ~p.spent
    <3>1. IsPanel(q) /\ Alike(r, q)
      BY <1>3, <2>2, AcquireDoes
    <3> QED
      BY <1>3, <3>1 DEF Alike
  <2> QED
    BY <2>1, <2>2
<1> HIDE DEF q
<1>5. Calm(q) /\ Motive(q)
  BY <1>1, <1>2, <1>4, New DEF Calm, Motive
<1>6. PanelStep(w) /\ panel'[w] = q
  BY <1>1, <1>4, <1>5, Replaced
<1>7. Up(w)' <=> Up(w)
  BY <1>4, <1>6 DEF Up
<1>8. /\ Sends(w, mail, "idle") /\ mail'[w] = mail[w]
  BY <1>1, PostFromSends DEF Messages
<1>9. /\ MailStep(w) /\ Harmless(w)
      /\ ((\E v \in AppWindows : "release" \in Range(mail'[v])) =>
             \E v \in AppWindows : "release" \in Range(mail[v]))
  BY <1>6, <1>7, <1>8, Here, SendsDoes DEF Messages
<1>10. Root(w) => Root(w)'
  BY <1>4, <1>6 DEF Root, Up
<1>11. p.step # "peers"
  BY <1>1, <1>2 DEF Calm
<1>12. Asks'
  BY <1>6, <1>9, <1>11, Unasked DEF WebInv
<1> QED
  BY <1>6, <1>7, <1>9, <1>10, <1>12, WebInvFrom DEF RootStep

LEMMA HearReleaseStep ==
    ASSUME WebInv, NEW w \in AppWindows, HearRelease(w)
    PROVE  WebInv'
<1> DEFINE p == panel[w]
<1>1. Arrives(w, "release") /\ stray' = stray
  BY DEF HearRelease
<1>2. /\ DOMAIN panel = AppWindows /\ IsPanel(p) /\ Calm(p) /\ (~stray => Motive(p))
  BY Here
<1>3. /\ Up(w) /\ mail[w] # <<>> /\ mail[w] \in Seq(Messages)
      /\ RestOfMail(w) \in [AppWindows -> Seq(Messages)] /\ RestOfMail(w)[w] = Tail(mail[w])
      /\ \A v \in AppWindows \ {w} : RestOfMail(w)[v] = mail[v]
      /\ Range(mail[w]) = {"release"} \cup Range(Tail(mail[w]))
      /\ \A M : Answered(mail[w], M) => Answered(Tail(mail[w]), M)
  BY <1>1, Taking
<1>4. CASE p.stream = "none"
  <2>1. panel' = panel /\ mail' = RestOfMail(w)
    BY <1>4 DEF HearRelease
  <2>2. PanelStep(w)
    BY <1>1, <1>2, <2>1 DEF PanelStep
  <2>3. Root(w) => Root(w)'
    BY <1>3, <1>4, <2>1 DEF Root, Up
  <2> QED
    BY <1>3, <2>1, <2>2, <2>3, QuietStep DEF Quiet, Up
<1>5. CASE p.stream # "none"
  <2> DEFINE q == [p EXCEPT !.stream = "none", !.busy = TRUE, !.heldByPeer = TRUE,
                            !.ready = "failure"]
  <2>1. panel' = [panel EXCEPT ![w] = q] /\ mail' = PostFrom(RestOfMail(w), w, "released")
    BY <1>2, <1>5 DEF HearRelease, IsPanel
  <2>2. /\ IsPanel(q) /\ q.mount = p.mount /\ q.stream = "none" /\ q.busy /\ q.heldByPeer
        /\ q.ready = "failure" /\ q.step = "idle"
    BY <1>2, <1>5 DEF IsPanel, Calm
  <2> HIDE DEF q
  <2>3. Calm(q) /\ Motive(q)
    BY <1>2, <1>5, <2>2, New DEF Calm, Motive
  <2>4. PanelStep(w) /\ panel'[w] = q
    BY <1>1, <2>1, <2>2, <2>3, Replaced
  <2>5. Up(w)' <=> Up(w)
    BY <2>2, <2>4 DEF Up
  <2>6. /\ mail' \in [AppWindows -> Seq(Messages)]
        /\ \A v \in AppWindows :
              \/ mail'[v] = RestOfMail(w)[v] /\ (v = w \/ ~Up(v) \/ ~Up(w))
              \/ mail'[v] = Append(RestOfMail(w)[v], "released") /\ v # w /\ Up(v) /\ Up(w)
    BY <1>3, <2>1, Posted DEF WebInv, Messages
  <2>7. /\ Sends(w, mail, "released") /\ mail'[w] = Tail(mail[w])
    BY <1>3, <2>6 DEF Sends
  <2>8. Range(mail'[w]) \subseteq Range(mail[w]) /\ "released" \in Messages
    BY <1>3, <2>7 DEF Messages
  <2>9. /\ MailStep(w) /\ Harmless(w)
        /\ ((\E v \in AppWindows : "release" \in Range(mail'[v])) =>
               \E v \in AppWindows : "release" \in Range(mail[v]))
    BY <1>3, <2>4, <2>5, <2>7, <2>8, SendsDoes
  <2>10. p.step = "idle"
    BY <1>2, <1>5 DEF Calm
  <2>11. Asks'
    BY <2>4, <2>9, <2>10, Unasked DEF WebInv
  <2>12. ASSUME ~stray' PROVE \E v \in AppWindows : Root(v)'
    <3>1. PICK u \in AppWindows : Up(u) /\ panel[u].step = "peers"
      BY <1>1, <1>3, <2>12 DEF WebInv, Asks
    <3>2. u # w /\ panel'[u] = panel[u]
      BY <2>4, <2>10, <3>1 DEF PanelStep
    <3>3. mail'[u] = Append(mail[u], "released") /\ mail[u] \in Seq(Messages)
      BY <1>3, <2>7, <3>1, <3>2, Here DEF Sends
    <3>4. Answered(mail'[u], {"released", "idle"})
      BY <3>3, BoxAppend DEF Messages
    <3>5. Root(u)'
      BY <3>1, <3>2, <3>4 DEF Root, Up
    <3> QED
      BY <3>5
  <2>13. RootStep(w)
    BY <2>5, <2>9, <2>12 DEF RootStep
  <2> QED
    BY <2>4, <2>9, <2>11, <2>13, WebInvFrom
<1> QED
  BY <1>4, <1>5

-----------------------------------------------------------------------------
(* The invariant, and what it gives. *)

LEMMA WebInitInv == WebInit => WebInv
<1> SUFFICES ASSUME WebInit PROVE WebInv
  OBVIOUS
<1>1. /\ DOMAIN panel = AppWindows /\ \A w \in AppWindows : panel[w] = NewPanel
      /\ mail = [w \in AppWindows |-> <<>>]
  BY DEF WebInit
<1>2. \A w \in AppWindows : mail[w] = <<>> /\ Range(mail[w]) = {} /\ ~Up(w)
  BY <1>1, New DEF Range, Up
<1>3. WebTypes
  BY <1>1, New DEF WebTypes
<1>4. AtRest
  BY <1>1, <1>2, New DEF AtRest, Calm
<1>5. GoesOn
  BY <1>1, New DEF GoesOn, Motive
<1>6. Asks /\ Rooted
  BY <1>2 DEF Asks, Rooted
<1> QED
  BY <1>3, <1>4, <1>5, <1>6 DEF WebInv

LEMMA WebInvStep == WebInv /\ [WebNext]_<<panel, mail, taken, stray>> => WebInv'
<1> SUFFICES ASSUME WebInv, [WebNext]_<<panel, mail, taken, stray>> PROVE WebInv'
  OBVIOUS
<1>1. CASE UNCHANGED <<panel, mail, stray>>
  BY <1>1 DEF WebInv, WebTypes, AtRest, GoesOn, Asks, Rooted, Root, Up
<1>2. ASSUME NEW w \in AppWindows, Mount(w) PROVE WebInv'
  BY <1>2, MountStep
<1>3. ASSUME NEW w \in AppWindows, Unmount(w) PROVE WebInv'
  BY <1>3, UnmountStep
<1>4. ASSUME NEW w \in AppWindows, StreamGranted(w) PROVE WebInv'
  BY <1>4, StreamGrantedStep
<1>5. ASSUME NEW w \in AppWindows, FoundBusy(w) PROVE WebInv'
  BY <1>5, FoundBusyStep
<1>6. ASSUME NEW w \in AppWindows, PeersAsked(w) PROVE WebInv'
  BY <1>6, PeersAskedStep
<1>7. ASSUME NEW w \in AppWindows, StillBusy(w) \/ Refused(w) PROVE WebInv'
  BY <1>7, OpenFailsStep
<1>8. ASSUME NEW w \in AppWindows, OnEnded(w) PROVE WebInv'
  BY <1>8, OnEndedStep
<1>9. ASSUME NEW w \in AppWindows, ThrottleOver(w) PROVE WebInv'
  BY <1>9, ThrottleOverStep
<1>10. ASSUME NEW w \in AppWindows, PollFires(w) PROVE WebInv'
  BY <1>10, PollFiresStep
<1>11. ASSUME NEW w \in AppWindows, DevicesChange(w) PROVE WebInv'
  BY <1>11, DevicesChangeStep
<1>12. ASSUME NEW w \in AppWindows, HearHolding(w) PROVE WebInv'
  BY <1>12, HearHoldingStep
<1>13. ASSUME NEW w \in AppWindows, HearIdle(w) PROVE WebInv'
  BY <1>13, HearIdleStep
<1>14. ASSUME NEW w \in AppWindows, HearReleased(w) PROVE WebInv'
  BY <1>14, HearReleasedStep
<1>15. ASSUME NEW w \in AppWindows, HearRelease(w) PROVE WebInv'
  BY <1>15, HearReleaseStep
<1>16. ASSUME NEW w \in AppWindows, StreamEnds(w) PROVE WebInv'
  BY <1>16, StreamEndsStep
<1>17. CASE OtherTakes \/ OtherLeaves
  BY <1>1, <1>17 DEF OtherTakes, OtherLeaves
<1> QED
  BY <1>1, <1>2, <1>3, <1>4, <1>5, <1>6, <1>7, <1>8, <1>9, <1>10, <1>11, <1>12, <1>13, <1>14,
     <1>15, <1>16, <1>17 DEF WebNext

LEMMA WebInvariance == WebSpec => []WebInv
BY WebInitInv, WebInvStep, PTL DEF WebSpec

\* A window that rests, with an empty mail, is nobody's root unless it has a
\* stream, lost one, or polls.
LEMMA KeepsTryingFromInv == WebInv => KeepsTrying
<1> SUFFICES ASSUME WebInv, NEW w \in AppWindows, Up(w), panel[w].busy, panel[w].stream = "none",
                    ~panel[w].lost, ~stray
             PROVE  /\ panel[w].step = "idle" => panel[w].ready = "failure"
                    /\ \/ Tries(w)
                       \/ /\ panel[w].heldByPeer
                          /\ \E v \in AppWindows \ {w} :
                                Up(v) /\ (panel[v].stream # "none" \/ Tries(v) \/ panel[v].lost)
  BY DEF KeepsTrying
<1>1. Motive(panel[w])
  BY Here
<1>2. panel[w].step = "idle" => panel[w].ready = "failure"
  BY <1>1 DEF Motive, Up
<1>3. ASSUME ~Tries(w)
      PROVE  /\ panel[w].heldByPeer
             /\ \E v \in AppWindows \ {w} :
                   Up(v) /\ (panel[v].stream # "none" \/ Tries(v) \/ panel[v].lost)
  <2>1. panel[w].step = "idle" /\ mail[w] = <<>> /\ ~(Wanting(panel[w]) /\ panel[w].poll)
    BY <1>3 DEF Tries
  <2>2. panel[w].heldByPeer
    BY <1>1, <2>1 DEF Motive, Up, Wanting
  <2>3. PICK v \in AppWindows : Root(v)
    BY DEF WebInv, Rooted
  <2>4. "idle" \notin Range(mail[w])
    BY <2>1 DEF Range
  <2>5. v # w
    BY <2>1, <2>2, <2>3, <2>4 DEF Root
  <2>6. Motive(panel[v]) /\ mail[v] \in Seq(Messages)
    BY Here
  <2>7. ASSUME panel[v].stream = "none", ~panel[v].lost PROVE Tries(v)
    <3>1. CASE panel[v].step # "idle"
      BY <3>1 DEF Tries
    <3>2. CASE "idle" \in Range(mail[v])
      BY <3>2 DEF Tries, Range
    <3>3. CASE panel[v].step = "idle" /\ ~panel[v].heldByPeer
      BY <2>3, <2>6, <2>7, <3>3 DEF Motive, Tries, Wanting, Root, Up
    <3> QED
      BY <2>3, <2>7, <3>1, <3>2, <3>3 DEF Root
  <2> QED
    BY <2>2, <2>3, <2>5, <2>7 DEF Root
<1> QED
  BY <1>2, <1>3

\* However many windows compete: one that found the camera busy, or gave it to
\* another, has told its screen so and tries again by itself, or waits for one
\* that has it or tries, until a stream ends or a window that asked for the
\* camera does not take it (CameraView.tsx acquire, requestPeerRelease,
\* channel.onmessage, schedulePoll).
THEOREM KeepsTryingCorrect == WebSpec => []KeepsTrying
BY WebInvariance, KeepsTryingFromInv, PTL
=============================================================================
