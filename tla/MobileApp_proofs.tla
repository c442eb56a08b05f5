-------------------------- MODULE MobileApp_proofs --------------------------
(***************************************************************************)
(* Proofs about the clients: of the mobile app the camera of a phone, the  *)
(* Regularize, the Attendance and the Enroll screen and the queue of the   *)
(* punches made offline, for any number of requests, loads, employees, days, *)
(* taps and syncs; of the web kiosk its camera, for any number of windows and *)
(* events.                                                                 *)
(***************************************************************************)
EXTENDS RosterScreen, EnrollScreen, RequestsScreen, KioskCamera, OfflineQueue,
        WellFoundedInduction, TLAPS

-----------------------------------------------------------------------------
(* The camera. *)

Sources == {"none", "back", "front"}

CameraTypeOK ==
    /\ listed \in Sources /\ hook \in {"none", "front"} /\ device \in Sources
    /\ permission \in {"unknown", "granted", "denied"}
    /\ poll \in {"ticking", "waiting", "off"}
    /\ error \in {"none", "missing", "failed"}

\* The effect that calls onReady has run.
Announced == initialized /\ sessionActive => cameraReady

\* The device effect has a device, or looks for one, or has said that there is
\* none.
Sought ==
    permission = "granted" /\ device = "none" /\ error = "none" =>
        poll = "ticking" \/ late

\* Nothing polls before the permission; a poll that has found a device is over,
\* and one that goes on has missed none.
Missed ==
    /\ permission # "granted" => poll = "off"
    /\ poll = "waiting" => device # "none"
    /\ poll = "ticking" /\ PickDevice # "none" /\ device = "none" => late

CameraInv == CameraTypeOK /\ Announced /\ Sought /\ Missed

\* What refresh leaves, with the device it was given.
LEMMA Chosen ==
    ASSUME CameraTypeOK, NEW next \in Sources, Choose(next)
    PROVE  /\ device' \in Sources /\ error' \in {"none", "missing", "failed"}
           /\ next # "none" => device' # "none" /\ error' = "none"
           /\ next = "none" => device' = device /\ error' = error
BY DEF Choose, CameraTypeOK, Sources

LEMMA CameraTypes ==
    ASSUME CameraInv, [CameraNext]_cameraVars
    PROVE  CameraTypeOK'
<1> USE DEF CameraInv, CameraTypeOK, Sources, choice, preview, front
<1>1. CASE AnswerPermission
  BY <1>1 DEF AnswerPermission, Seek, PickDevice, Choose
<1>2. CASE GrantLater
  BY <1>2 DEF GrantLater, Seek, PickDevice, Choose
<1>3. CASE DevicesChange
  BY <1>3 DEF DevicesChange, Seek, PickDevice, Choose
<1>4. CASE DeviceAppears
  BY <1>4 DEF DeviceAppears
<1>5. CASE PollTick
  BY <1>5 DEF PollTick, PickDevice, Choose
<1>6. CASE GiveUp
  BY <1>6 DEF GiveUp
<1>7. CASE OnInitialized \/ OnError
  BY <1>7 DEF OnInitialized, OnError
<1>8. CASE SwitchTab \/ SwitchApp
  BY <1>8 DEF SwitchTab, SwitchApp
<1>9. CASE UNCHANGED cameraVars
  BY <1>9 DEF cameraVars
<1> QED
  BY <1>1, <1>2, <1>3, <1>4, <1>5, <1>6, <1>7, <1>8, <1>9 DEF CameraNext

\* onReady is called when its two conditions come together, and only the tab's
\* going to the back takes it back.
LEMMA AnnouncedStep ==
    ASSUME Announced, [CameraNext]_cameraVars
    PROVE  Announced'
<1>1. CASE Announces
  BY <1>1 DEF Announces, Announced, sessionActive
<1>2. CASE UNCHANGED <<initialized, isActive, appActive, permission, device, cameraReady>>
  BY <1>2 DEF Announced, sessionActive
<1>3. CASE DeviceAppears \/ GiveUp \/ UNCHANGED cameraVars
  BY <1>2, <1>3 DEF DeviceAppears, GiveUp, cameraVars, choice, preview, front
<1> QED
  BY <1>1, <1>3 DEF CameraNext, AnswerPermission, GrantLater, DevicesChange, PollTick,
                    OnInitialized, OnError, SwitchTab, SwitchApp

\* A device effect that has just run has what it looked for, or polls.
LEMMA SeekStep ==
    ASSUME CameraTypeOK, CameraTypeOK', Seek, permission' = "granted"
    PROVE  Sought' /\ Missed'
<1>1. PickDevice' \in Sources
  BY DEF CameraTypeOK, Sources, PickDevice
<1>2. PickDevice' # "none" => device' # "none"
  BY <1>1, Chosen DEF Seek
<1>3. poll' = "ticking"
  BY DEF Seek
<1> QED
  BY <1>2, <1>3 DEF Sought, Missed

LEMMA SoughtStep ==
    ASSUME CameraInv, CameraTypeOK', [CameraNext]_cameraVars
    PROVE  Sought' /\ Missed'
<1> USE DEF CameraInv
<1>1. ASSUME Seek, permission' = "granted"
      PROVE  Sought' /\ Missed'
  BY <1>1, SeekStep
<1>2. ASSUME UNCHANGED <<permission, poll, late>>, Choose(PickDevice')
      PROVE  Sought' /\ Missed'
  <2>1. PickDevice' \in Sources
    BY DEF CameraTypeOK, Sources, PickDevice
  <2>2. /\ PickDevice' # "none" => device' # "none"
        /\ PickDevice' = "none" => device' = device /\ error' = error
    BY <1>2, <2>1, Chosen
  <2> QED
    BY <1>2, <2>2 DEF Sought, Missed
<1>3. ASSUME UNCHANGED <<listed, hook, permission, device, poll, late>>,
             error' = error \/ error' # "none"
      PROVE  Sought' /\ Missed'
  BY <1>3 DEF Sought, Missed, PickDevice
<1>4. CASE AnswerPermission
  <2>1. CASE permission' = "denied" /\ UNCHANGED <<device, poll, late, initialized, error>>
    BY <1>4, <2>1 DEF AnswerPermission, Sought, Missed
  <2> QED
    BY <1>1, <1>4, <2>1 DEF AnswerPermission
<1>5. CASE GrantLater
  BY <1>1, <1>5 DEF GrantLater
<1>6. CASE DevicesChange
  <2>1. CASE permission # "granted"
    BY <1>6, <2>1 DEF DevicesChange, front, Sought, Missed
  <2>2. CASE permission = "granted" /\ hook' # hook
    BY <1>1, <1>6, <2>2 DEF DevicesChange, front
  <2>3. CASE permission = "granted" /\ hook' = hook
    BY <1>2, <1>6, <2>3 DEF DevicesChange, front
  <2> QED
    BY <2>1, <2>2, <2>3
<1>7. CASE DeviceAppears
  BY <1>7 DEF DeviceAppears, preview, front, Sought, Missed, PickDevice
<1>8. CASE PollTick
  <2>1. PickDevice \in Sources
    BY DEF CameraTypeOK, Sources, PickDevice
  <2>2. device' # "none" /\ poll' = "waiting" /\ permission' = "granted"
    BY <1>8, <2>1, Chosen DEF PollTick, Missed
  <2> QED
    BY <2>2 DEF Sought, Missed
<1>9. CASE GiveUp
  <2>1. poll' = "off" /\ UNCHANGED <<hook, listed, permission, device, late>>
    BY <1>9 DEF GiveUp, front
  <2>2. PickDevice = "none" => error' = "missing"
    BY <1>9 DEF GiveUp
  <2>3. PickDevice # "none" => error' = error
    BY <1>9 DEF GiveUp
  <2> QED
    BY <2>1, <2>2, <2>3 DEF Sought, Missed, CameraTypeOK
<1>10. CASE OnInitialized \/ OnError \/ SwitchTab \/ SwitchApp
  BY <1>3, <1>10 DEF OnInitialized, OnError, SwitchTab, SwitchApp, choice, front
<1>11. CASE UNCHANGED cameraVars
  BY <1>3, <1>11 DEF cameraVars, choice, preview
<1> QED
  BY <1>4, <1>5, <1>6, <1>7, <1>8, <1>9, <1>10, <1>11 DEF CameraNext

LEMMA CameraInvariance == CameraSpec => []CameraInv
<1>1. CameraInit => CameraInv
  BY DEF CameraInit, CameraInv, CameraTypeOK, Sources, Announced, sessionActive, Sought, Missed
<1>2. CameraInv /\ [CameraNext]_cameraVars => CameraInv'
  BY CameraTypes, AnnouncedStep, SoughtStep DEF CameraInv
<1> QED
  BY <1>1, <1>2, PTL DEF CameraSpec

\* A screen in front that may not capture waits for a device or for its preview,
\* shows an error, or missed a device that nobody announced (CameraView.tsx,
\* VisionNativeCamera).
THEOREM WaitsForSomethingCorrect == CameraSpec => []WaitsForSomething
<1>1. CameraInv => WaitsForSomething
  BY DEF CameraInv, WaitsForSomething, Announced, Sought, sessionActive, Rendered
<1> QED
  BY <1>1, CameraInvariance, PTL

-----------------------------------------------------------------------------
(* The Regularize screen. *)

DatesOK == today \in Nat /\ workDate \in Int

DatesInv == DatesOK /\ DateFits

\* No day chosen in the form stops fitting but by midnight
\* (RegularizationScreen.tsx selectType, DatePickerField).
THEOREM DateFitsCorrect == RequestsSpec => []DateFits
<1>1. RequestsInit => DatesInv
  BY DEF RequestsInit, DatesInv, DatesOK, DateFits, Fits
<1>2. DatesInv /\ [RequestsNext]_requestsVars => DatesInv'
  <2> SUFFICES ASSUME DatesInv, [RequestsNext]_requestsVars
               PROVE  DatesInv'
    OBVIOUS
  <2> USE RequestsAssumption DEF DatesInv, DatesOK, DateFits, Fits
  <2>1. ASSUME NEW t \in Types, SelectType(t)
        PROVE  DatesInv'
    BY <2>1 DEF SelectType, serverSide
  <2>2. CASE PickDate
    <3>1. asOf # today => midnight'
      BY <2>2 DEF PickDate
    <3>2. /\ workDate' \in 0 .. LastDate /\ Fits(requestType, workDate', asOf)
          /\ today' = today /\ requestType' = requestType
      BY <2>2 DEF PickDate, serverSide
    <3> QED
      BY <3>1, <3>2
  <2>3. CASE NextDay
    BY <2>3 DEF NextDay
  <2>4. CASE UNCHANGED <<today, requestType, workDate, midnight>>
    BY <2>4
  <2> QED
    BY <2>1, <2>2, <2>3, <2>4
    DEF RequestsNext, requestsVars, serverSide, dates, Submit, Approve, Reject, Cancel, PressRow,
        Act, Pull, ServeAct, ActAnswered, ServeLoad, RowsAnswered, RowsFail, Elsewhere
<1>3. DatesInv => DateFits
  BY DEF DatesInv
<1> QED
  BY <1>1, <1>2, <1>3, PTL DEF RequestsSpec

Truth == [id \in Visible |-> status[id]]

\* Until a status changes behind its back, what the screen shows is the server's,
\* and so is what is on its way to the screen; a request that was carried out is
\* followed by a load.
RowsInv ==
    /\ DOMAIN status = Ids
    /\ op.kind = "none" => op = NoOp
    /\ op.step \in {"none", "asked", "served", "done"}
    /\ op.step = "served" => op.kind = "load"
    /\ ~stale /\ op.kind # "load" /\ op.step # "done" => rows = Truth
    /\ ~stale /\ op.step = "served" => op.got = Truth

LEMMA RowsStep ==
    ASSUME RowsInv, [RequestsNext]_requestsVars
    PROVE  RowsInv'
<1> USE DEF RowsInv, Truth, Visible
<1>1. ASSUME UNCHANGED <<status, isAdmin, rows, op, stale>>
      PROVE  RowsInv'
  BY <1>1
<1>2. ASSUME NEW kind \in {"create", "approve", "reject", "cancel"}, NEW id, Act(kind, id)
      PROVE  RowsInv'
  BY <1>2 DEF Act, NoOp, serverSide
<1>3. CASE Submit \/ Approve \/ Reject \/ Cancel
  BY <1>2, <1>3 DEF Submit, Approve, Reject, Cancel, PressRow
<1>4. CASE Pull
  BY <1>4 DEF Pull, AskLoad, NoOp, serverSide
<1>5. CASE ServeAct
  <2>1. /\ op.kind # "none" /\ op.kind # "load" /\ op.step = "asked"
        /\ UNCHANGED <<isAdmin, rows>>
    BY <1>5 DEF ServeAct
  <2>2. DOMAIN status' = Ids
    BY <1>5 DEF ServeAct
  <2>3. CASE op' = [op EXCEPT !.step = "done"]
    BY <2>1, <2>2, <2>3
  <2>4. CASE op' = NoOp /\ stale'
    BY <2>2, <2>4 DEF NoOp
  <2>5. CASE op' = NoOp /\ UNCHANGED <<status, stale>>
    BY <2>1, <2>5 DEF NoOp
  <2> QED
    BY <1>5, <2>3, <2>4, <2>5 DEF ServeAct
<1>6. CASE ActAnswered
  BY <1>6 DEF ActAnswered, AskLoad, NoOp, serverSide
<1>7. CASE ServeLoad
  BY <1>7 DEF ServeLoad, serverSide
<1>8. CASE RowsAnswered
  BY <1>8 DEF RowsAnswered, NoOp, serverSide
<1>9. CASE RowsFail
  BY <1>9 DEF RowsFail, NoOp, serverSide
<1>10. CASE Elsewhere
  <2>1. PICK id \in Ids : /\ \E s : status' = [status EXCEPT ![id] = s]
                         /\ stale' = (stale \/ id \in Visible)
    BY <1>10 DEF Elsewhere
  <2>2. UNCHANGED <<isAdmin, rows, op>>
    BY <1>10 DEF Elsewhere
  <2>3. Visible \subseteq Ids
    BY RequestsAssumption
  <2>4. ~stale' => ~stale /\ Truth' = Truth
    BY <2>1, <2>2, <2>3
  <2>5. DOMAIN status' = Ids
    BY <2>1
  <2> HIDE DEF Truth
  <2> QED
    BY <2>2, <2>4, <2>5
<1> QED
  BY <1>1, <1>3, <1>4, <1>5, <1>6, <1>7, <1>8, <1>9, <1>10
  DEF RequestsNext, requestsVars, serverSide, dates, shown, SelectType, PickDate, NextDay

\* Between its requests the screen shows what the server has, unless an answer or
\* a load was lost or another client changed a request since (RegularizationScreen
\* submit, approve, reject, cancel, load).
THEOREM RowsAreTrueCorrect == RequestsSpec => []RowsAreTrue
<1>1. RequestsInit => RowsInv
  BY DEF RequestsInit, RowsInv, AskLoad, NoOp
<1>2. RowsInv => RowsAreTrue
  BY DEF RowsInv, RowsAreTrue, Truth, NoOp
<1> QED
  BY <1>1, <1>2, RowsStep, PTL DEF RequestsSpec

-----------------------------------------------------------------------------
(* The shell and its storage. *)

In(q, kind) == \E i \in 1 .. Len(q) : q[i].op = kind

Asked(q, kind, who) == \E i \in 1 .. Len(q) : q[i].op = kind /\ q[i].who = who

Writes(q, v) == \E i \in 1 .. Len(q) : q[i].val = v

\* v is what the last operation of that kind in the queue q will write.
Latest(q, kind, v) ==
    \E i \in 1 .. Len(q) :
        /\ q[i].op = kind /\ q[i].val = v
        /\ \A j \in 1 .. Len(q) : j > i => q[j].op # kind

Stored == Tokens \cup {None}

\* Who may wait for an operation, and what it may write.
Ops ==
    [op : {"getConf"}, who : Requests \cup {"settings"}, val : {None}]
    \cup [op : {"setConf"}, who : Requests \cup {"settings"}, val : Confs \cup {Blank}]
    \cup [op : {"getToken"}, who : Requests \cup {"settings", "shell"}, val : {None}]
    \cup [op : {"setToken"}, who : Requests \cup {"logout"}, val : Stored]

LEMMA QueueAppend ==
    ASSUME NEW q \in Seq(Ops), NEW x \in Ops
    PROVE  /\ Append(q, x) \in Seq(Ops) /\ Append(q, x) # <<>>
           /\ \A kind : In(Append(q, x), kind) <=> In(q, kind) \/ x.op = kind
           /\ \A kind, who : Asked(q, kind, who) => Asked(Append(q, x), kind, who)
           /\ \A v : Writes(Append(q, x), v) <=> Writes(q, v) \/ x.val = v
           /\ \A kind, v : Latest(q, kind, v) /\ x.op # kind => Latest(Append(q, x), kind, v)
           /\ Latest(Append(q, x), x.op, x.val)
<1> DEFINE r == Append(q, x)
<1>1. /\ r \in Seq(Ops) /\ Len(r) = Len(q) + 1 /\ Len(q) \in Nat
      /\ r[Len(r)] = x
      /\ \A i \in 1 .. Len(q) : r[i] = q[i]
  OBVIOUS
<1> HIDE DEF r
<1>2. \A i \in 1 .. Len(r) : i \in 1 .. Len(q) \/ i = Len(r)
  BY <1>1
<1>3. \A i \in 1 .. Len(q) : i \in 1 .. Len(r)
  BY <1>1
<1>4. Len(r) \in 1 .. Len(r)
  BY <1>1
<1>5. r # <<>>
  BY <1>1
<1>6. \A kind : In(r, kind) <=> In(q, kind) \/ x.op = kind
  BY <1>1, <1>2, <1>3, <1>4 DEF In
<1>7. \A kind, who : Asked(q, kind, who) => Asked(r, kind, who)
  BY <1>1, <1>3 DEF Asked
<1>10. ASSUME NEW v
       PROVE  Writes(r, v) <=> Writes(q, v) \/ x.val = v
  BY <1>1, <1>2, <1>3, <1>4 DEF Writes
<1>8. ASSUME NEW kind, NEW v, Latest(q, kind, v), x.op # kind
      PROVE  Latest(r, kind, v)
  BY <1>1, <1>2, <1>3, <1>8 DEF Latest
<1>9. Latest(r, x.op, x.val)
  BY <1>1, <1>2, <1>4 DEF Latest
<1> QED
  BY <1>1, <1>5, <1>6, <1>7, <1>8, <1>9, <1>10 DEF r

LEMMA QueueTail ==
    ASSUME NEW q \in Seq(Ops), q # <<>>
    PROVE  /\ Head(q) \in Ops /\ Tail(q) \in Seq(Ops)
           /\ \A kind : In(q, kind) <=> In(Tail(q), kind) \/ Head(q).op = kind
           /\ \A kind, who : Asked(q, kind, who) <=>
                  Asked(Tail(q), kind, who) \/ (Head(q).op = kind /\ Head(q).who = who)
           /\ \A v : Writes(q, v) <=> Writes(Tail(q), v) \/ Head(q).val = v
           /\ \A kind, v : Latest(q, kind, v) =>
                  \/ Latest(Tail(q), kind, v)
                  \/ ~In(Tail(q), kind) /\ Head(q).op = kind /\ Head(q).val = v
<1> DEFINE r == Tail(q)
<1>1. /\ r \in Seq(Ops) /\ Len(q) = Len(r) + 1 /\ Len(r) \in Nat
      /\ Head(q) = q[1] /\ Head(q) \in Ops
      /\ \A i \in 1 .. Len(r) : r[i] = q[i + 1]
  OBVIOUS
<1> HIDE DEF r
<1>2. \A i \in 1 .. Len(q) : i = 1 \/ (i - 1 \in 1 .. Len(r) /\ r[i - 1] = q[i])
  BY <1>1
<1>3. \A i \in 1 .. Len(r) : i + 1 \in 1 .. Len(q) /\ q[i + 1] = r[i]
  BY <1>1
<1>4. 1 \in 1 .. Len(q)
  BY <1>1
<1>5. ASSUME NEW kind
      PROVE  In(q, kind) <=> In(r, kind) \/ Head(q).op = kind
  <2>1. In(q, kind) => In(r, kind) \/ Head(q).op = kind
    BY <1>1, <1>2 DEF In
  <2>2. In(r, kind) => In(q, kind)
    BY <1>3 DEF In
  <2>3. Head(q).op = kind => In(q, kind)
    BY <1>1, <1>4 DEF In
  <2> QED
    BY <2>1, <2>2, <2>3
<1>6. ASSUME NEW kind, NEW who
      PROVE  Asked(q, kind, who) <=>
                 Asked(r, kind, who) \/ (Head(q).op = kind /\ Head(q).who = who)
  <2>1. Asked(q, kind, who) => Asked(r, kind, who) \/ (Head(q).op = kind /\ Head(q).who = who)
    BY <1>1, <1>2 DEF Asked
  <2>2. Asked(r, kind, who) => Asked(q, kind, who)
    BY <1>3 DEF Asked
  <2>3. Head(q).op = kind /\ Head(q).who = who => Asked(q, kind, who)
    BY <1>1, <1>4 DEF Asked
  <2> QED
    BY <2>1, <2>2, <2>3
<1>8. ASSUME NEW v
      PROVE  Writes(q, v) <=> Writes(r, v) \/ Head(q).val = v
  <2>1. Writes(q, v) => Writes(r, v) \/ Head(q).val = v
    BY <1>1, <1>2 DEF Writes
  <2>2. Writes(r, v) => Writes(q, v)
    BY <1>3 DEF Writes
  <2>3. Head(q).val = v => Writes(q, v)
    BY <1>1, <1>4 DEF Writes
  <2> QED
    BY <2>1, <2>2, <2>3
<1>7. ASSUME NEW kind, NEW v, Latest(q, kind, v)
      PROVE  \/ Latest(r, kind, v)
             \/ ~In(r, kind) /\ Head(q).op = kind /\ Head(q).val = v
  <2>1. PICK i \in 1 .. Len(q) : /\ q[i].op = kind /\ q[i].val = v
                                 /\ \A j \in 1 .. Len(q) : j > i => q[j].op # kind
    BY <1>7 DEF Latest
  <2>2. CASE i = 1
    <3>1. \A j \in 1 .. Len(r) : r[j].op # kind
      BY <1>1, <1>3, <2>1, <2>2
    <3> QED
      BY <1>1, <2>1, <2>2, <3>1 DEF In
  <2>3. CASE i # 1
    <3>1. i - 1 \in 1 .. Len(r) /\ r[i - 1] = q[i]
      BY <1>2, <2>3
    <3>2. \A j \in 1 .. Len(r) : j > i - 1 => r[j].op # kind
      BY <1>1, <1>3, <2>1
    <3> QED
      BY <2>1, <3>1, <3>2 DEF Latest
  <2> QED
    BY <2>2, <2>3
<1> QED
  BY <1>1, <1>5, <1>6, <1>7, <1>8 DEF r

LEMMA LatestIsIn ==
    \A q, kind, v : Latest(q, kind, v) => In(q, kind)
  BY DEF Latest, In

LEMMA NothingQueued ==
    \A kind, who : ~In(<<>>, kind) /\ ~Asked(<<>>, kind, who)
  BY DEF In, Asked

-----------------------------------------------------------------------------

Calls == [step : {"none", "ask", "conf", "sent", "store"}, acct : Stored]

ShellTypeOK ==
    /\ io \in Seq(Ops)
    /\ disk \in [token : Stored, conf : Confs \cup {None, Blank}]
    /\ token \in Stored \cup {"unread"}
    /\ conf \in Confs \cup {Blank, "unread"}
    /\ calls \in [Requests -> Calls]
    /\ form \in Confs \cup {Blank}

\* Unless a first read may have overwritten it: what is about to be written last
\* is the cached token, and no read is on its way to replace it; with nothing to
\* write, memory is what was written, or is going to read it.
TokenInv ==
    /\ tab \in TabsOf(access)
    /\ ~raced =>
        IF In(io, "setToken")
        THEN token # "unread" /\ Latest(io, "setToken", token) /\ ~In(io, "getToken")
        ELSE /\ token = disk.token \/ token = "unread"
             /\ \/ Asked(io, "getToken", "settings")
                \/ token # "unread" /\ role = RoleFromToken(token)
             /\ \/ Asked(io, "getToken", "shell")
                \/ token # "unread" /\ access = Snapshot(token)

\* The same of the settings; as long as none were saved too early they name a
\* server.
ConfInv ==
    ~early =>
        /\ disk.conf # Blank /\ conf # Blank /\ ~Writes(io, Blank)
        /\ form # Blank \/ Asked(io, "getConf", "settings")
        /\ IF In(io, "setConf")
           THEN conf # "unread" /\ Latest(io, "setConf", conf) /\ ~In(io, "getConf")
           ELSE \/ conf = "unread" /\ In(io, "getConf")
                \/ conf = IF disk.conf = None THEN Default ELSE disk.conf

ShellInv == ShellTypeOK /\ TokenInv /\ ConfInv

\* The operations on tokens in the queue are those of q, and reads if there is no
\* cached token t; the same of the settings c.
TokenOps(q, t) ==
    /\ In(io', "setToken") <=> In(q, "setToken")
    /\ t # "unread" /\ In(io', "getToken") => In(q, "getToken")
    /\ \A who : Asked(q, "getToken", who) => Asked(io', "getToken", who)
    /\ \A v : Latest(q, "setToken", v) => Latest(io', "setToken", v)

ConfOps(q, c) ==
    /\ In(io', "setConf") <=> In(q, "setConf")
    /\ In(q, "getConf") => In(io', "getConf")
    /\ c # "unread" /\ In(io', "getConf") => In(q, "getConf")
    /\ Writes(io', Blank) => Writes(q, Blank)
    /\ \A who : Asked(q, "getConf", who) => Asked(io', "getConf", who)
    /\ \A v : Latest(q, "setConf", v) => Latest(io', "setConf", v)

MoreReads(q, c, t) == io' \in Seq(Ops) /\ TokenOps(q, t) /\ ConfOps(q, c)

LEMMA Appended ==
    ASSUME NEW q \in Seq(Ops), NEW x \in Ops, io' = Append(q, x), NEW c, NEW t
    PROVE  /\ io' \in Seq(Ops)
           /\ x.op \in {"getConf", "setConf"} => TokenOps(q, t)
           /\ x.op \in {"getToken", "setToken"} /\ x.val # Blank => ConfOps(q, c)
           /\ x.op = "getConf" /\ c = "unread" /\ x.val # Blank => ConfOps(q, c)
           /\ x.op = "getToken" /\ t = "unread" => TokenOps(q, t)
  BY QueueAppend DEF TokenOps, ConfOps

LEMMA Served ==
    ASSUME io \in Seq(Ops), io # <<>>, NEW c, NEW t
    PROVE  /\ Head(io) \in Ops /\ Tail(io) \in Seq(Ops)
           /\ Head(io).op \in {"getConf", "setConf"} /\ TokenOps(Tail(io), t) => TokenOps(io, t)
           /\ Head(io).op \in {"getToken", "setToken"} /\ ConfOps(Tail(io), c) => ConfOps(io, c)
<1> DEFINE h == Head(io)
           r == Tail(io)
<1>1. /\ h \in Ops /\ r \in Seq(Ops)
      /\ \A kind : In(io, kind) <=> In(r, kind) \/ h.op = kind
      /\ \A kind, who : Asked(io, kind, who) <=> Asked(r, kind, who) \/ (h.op = kind /\ h.who = who)
      /\ \A v : Writes(io, v) <=> Writes(r, v) \/ h.val = v
      /\ \A kind, v : Latest(io, kind, v) =>
                  \/ Latest(r, kind, v)
                  \/ ~In(r, kind) /\ h.op = kind /\ h.val = v
  BY QueueTail
<1> HIDE DEF h, r
<1>2. h.op \in {"getConf", "setConf"} /\ TokenOps(r, t) => TokenOps(io, t)
  BY <1>1 DEF TokenOps
<1>3. h.op \in {"getToken", "setToken"} /\ ConfOps(r, c) => ConfOps(io, c)
  BY <1>1 DEF ConfOps
<1> QED
  BY <1>1, <1>2, <1>3 DEF h, r

LEMMA AsksReads ==
    ASSUME NEW r \in Requests, NEW call \in Calls, NEW q \in Seq(Ops), NEW c, NEW t,
           calls \in [Requests -> Calls], Asks(r, call, q, c, t)
    PROVE  MoreReads(q, c, t) /\ calls' \in [Requests -> Calls]
<1>1. None # Blank
  BY TokensAssumption DEF Blank
<1>2. /\ Op("getConf", r, None) \in Ops /\ Op("getToken", r, None) \in Ops
      /\ Op("getConf", r, None).op = "getConf" /\ Op("getToken", r, None).op = "getToken"
      /\ Op("getConf", r, None).val = None /\ Op("getToken", r, None).val = None
  BY DEF Op, Ops
<1>3. MoreReads(q, c, t)
  <2>1. CASE io' = Append(q, Op("getConf", r, None)) /\ c = "unread"
    BY <1>1, <1>2, <2>1, Appended DEF MoreReads
  <2>2. CASE io' = Append(q, Op("getToken", r, None)) /\ t = "unread"
    BY <1>1, <1>2, <2>2, Appended DEF MoreReads
  <2>3. CASE io' = q
    BY <2>3 DEF MoreReads, TokenOps, ConfOps
  <2>4. CASE c = "unread"
    BY <2>1, <2>4 DEF Asks
  <2>5. CASE c # "unread" /\ t = "unread"
    BY <2>2, <2>5 DEF Asks
  <2>6. CASE c # "unread" /\ t # "unread"
    BY <2>3, <2>6 DEF Asks
  <2> QED
    BY <2>4, <2>5, <2>6
<1>6. calls' \in [Requests -> Calls]
  <2>1. NoCall \in Calls
    BY DEF NoCall, Calls, Stored
  <2>2. /\ [call EXCEPT !.step = "ask"] \in Calls
        /\ [call EXCEPT !.step = "sent"] \in Calls
    BY DEF Calls
  <2>3. \E k \in Calls : calls' = [calls EXCEPT ![r] = k]
    BY <2>1, <2>2 DEF Asks
  <2> QED
    BY <2>3
<1> QED
  BY <1>3, <1>6

\* Steps that leave the tokens alone.
LEMMA TokenRests ==
    ASSUME TokenInv, UNCHANGED <<token, disk.token, role, access, tab, raced>>,
           TokenOps(io, token)
    PROVE  TokenInv'
  BY LatestIsIn DEF TokenInv, TokenOps

\* Steps that leave the settings alone.
LEMMA ConfRests ==
    ASSUME ConfInv, UNCHANGED <<conf, disk.conf, form>>, early => early',
           ConfOps(io, conf)
    PROVE  ConfInv'
  BY LatestIsIn DEF ConfInv, ConfOps

-----------------------------------------------------------------------------

Eff(c) == IF c = None THEN Default ELSE c

LEMMA EffIsConf ==
    ASSUME NEW c \in Confs \cup {None, Blank}
    PROVE  Eff(c) \in Confs \cup {Blank} /\ Eff(c) # "unread" /\ (c # Blank => Eff(c) # Blank)
  BY TokensAssumption DEF Eff, Blank

LEMMA ServeConfStep ==
    ASSUME ShellInv, ServeConf
    PROVE  ShellInv'
<1> DEFINE h == Head(io)
           c == Eff(disk.conf)
<1>1. /\ io # <<>> /\ h.op = "getConf" /\ conf' = c
      /\ UNCHANGED <<disk, token, role, access, tab, raced, early>>
  BY DEF ServeConf, Eff, tabs
<1>2. /\ h \in Ops /\ Tail(io) \in Seq(Ops)
      /\ \A t, k : TokenOps(Tail(io), t) => TokenOps(io, t)
  BY <1>1, Served DEF ShellInv, ShellTypeOK
<1>3. /\ \A kind : In(io, kind) <=> In(Tail(io), kind) \/ h.op = kind
      /\ \A kind, who : Asked(io, kind, who) => Asked(Tail(io), kind, who) \/ h.who = who
      /\ \A v : Writes(Tail(io), v) => Writes(io, v)
      /\ \A kind, v : Latest(io, kind, v) => Latest(Tail(io), kind, v) \/ ~In(Tail(io), kind)
  BY <1>1, QueueTail DEF ShellInv, ShellTypeOK
<1>4. c \in Confs \cup {Blank} /\ c # "unread" /\ (disk.conf # Blank => c # Blank)
  BY EffIsConf DEF ShellInv, ShellTypeOK
<1>5. h.who \in Requests \cup {"settings"}
  BY <1>1, <1>2 DEF Ops
<1> HIDE DEF h, c
<1>6. /\ MoreReads(Tail(io), c, token) /\ calls' \in [Requests -> Calls]
      /\ h.who = "settings" => form' = c
      /\ h.who # "settings" => form' = form
  <2>1. CASE h.who = "settings"
    <3>1. form' = c /\ io' = Tail(io) /\ UNCHANGED calls
      BY <2>1 DEF ServeConf, h, c, Eff
    <3> QED
      BY <1>2, <2>1, <3>1 DEF MoreReads, TokenOps, ConfOps, ShellInv, ShellTypeOK
  <2>2. CASE h.who # "settings"
    <3>1. Asks(h.who, calls[h.who], Tail(io), c, token) /\ UNCHANGED form
      BY <2>2 DEF ServeConf, h, c, Eff
    <3>2. h.who \in Requests /\ calls[h.who] \in Calls /\ calls \in [Requests -> Calls]
      BY <1>5, <2>2 DEF ShellInv, ShellTypeOK
    <3> QED
      BY <1>2, <2>2, <3>1, <3>2, AsksReads
  <2> QED
    BY <2>1, <2>2
<1>7. ShellTypeOK'
  BY <1>1, <1>4, <1>6 DEF ShellInv, ShellTypeOK, MoreReads
<1>8. TokenInv'
  BY <1>1, <1>2, <1>6, TokenRests DEF ShellInv, MoreReads
<1>9. ConfInv'
  <2> SUFFICES ASSUME ~early'
               PROVE  ConfInv'
    BY DEF ConfInv
  <2>1. /\ disk.conf # Blank /\ ~Writes(io, Blank) /\ ~In(io, "setConf")
        /\ form # Blank \/ Asked(io, "getConf", "settings")
    BY <1>1, <1>3 DEF ShellInv, ConfInv
  <2>2. ~Writes(io', Blank) /\ ~In(io', "setConf")
    BY <1>3, <1>6, <2>1 DEF MoreReads, ConfOps
  <2>3. form' # Blank \/ Asked(io', "getConf", "settings")
    BY <1>3, <1>4, <1>6, <2>1 DEF MoreReads, ConfOps
  <2> QED
    BY <1>1, <1>4, <2>1, <2>2, <2>3 DEF ConfInv, c, Eff
<1> QED
  BY <1>7, <1>8, <1>9 DEF ShellInv

LEMMA StoreConfStep ==
    ASSUME ShellInv, StoreConf
    PROVE  ShellInv'
<1> DEFINE h == Head(io)
<1>1. /\ io # <<>> /\ h.op = "setConf"
      /\ disk' = [disk EXCEPT !.conf = h.val]
      /\ UNCHANGED <<token, conf, form, role, access, tab, raced, early>>
  BY DEF StoreConf, tabs, cached, settings
<1>2. /\ h \in Ops /\ Tail(io) \in Seq(Ops)
      /\ \A t, k : TokenOps(Tail(io), t) => TokenOps(io, t)
  BY <1>1, Served DEF ShellInv, ShellTypeOK
<1>3. /\ \A kind : In(io, kind) <=> In(Tail(io), kind) \/ h.op = kind
      /\ \A kind, who : Asked(io, kind, who) => Asked(Tail(io), kind, who) \/ h.op = kind
      /\ \A v : Writes(io, v) <=> Writes(Tail(io), v) \/ h.val = v
      /\ \A kind, v : Latest(io, kind, v) =>
            Latest(Tail(io), kind, v) \/ (~In(Tail(io), kind) /\ h.val = v)
  BY <1>1, QueueTail DEF ShellInv, ShellTypeOK
<1>4. h.who \in Requests \cup {"settings"} /\ h.val \in Confs \cup {Blank} /\ h.val # None
  BY <1>1, <1>2, TokensAssumption DEF Ops, Blank
<1>5. /\ disk' \in [token : Stored, conf : Confs \cup {None, Blank}]
      /\ disk'.conf = h.val /\ disk'.token = disk.token
  BY <1>1, <1>4 DEF ShellInv, ShellTypeOK
<1> HIDE DEF h
<1>6. MoreReads(Tail(io), conf, token) /\ calls' \in [Requests -> Calls]
  <2>1. CASE h.who = "settings"
    <3>1. io' = Tail(io) /\ UNCHANGED calls
      BY <2>1 DEF StoreConf, h
    <3> QED
      BY <1>2, <2>1, <3>1 DEF MoreReads, TokenOps, ConfOps, ShellInv, ShellTypeOK
  <2>2. CASE h.who # "settings"
    <3>1. Asks(h.who, calls[h.who], Tail(io), conf, token)
      BY <2>2 DEF StoreConf, h
    <3>2. h.who \in Requests /\ calls[h.who] \in Calls /\ calls \in [Requests -> Calls]
      BY <1>4, <2>2 DEF ShellInv, ShellTypeOK
    <3> QED
      BY <1>2, <2>2, <3>1, <3>2, AsksReads
  <2> QED
    BY <2>1, <2>2
<1>7. ShellTypeOK'
  BY <1>1, <1>5, <1>6 DEF ShellInv, ShellTypeOK, MoreReads
<1>8. TokenInv'
  BY <1>1, <1>2, <1>5, <1>6, TokenRests DEF ShellInv, MoreReads
<1>9. ConfInv'
  <2> SUFFICES ASSUME ~early'
               PROVE  ConfInv'
    BY DEF ConfInv
  <2>1. /\ conf # Blank /\ ~Writes(io, Blank)
        /\ form # Blank \/ Asked(io, "getConf", "settings")
        /\ conf # "unread" /\ Latest(io, "setConf", conf) /\ ~In(io, "getConf")
    BY <1>1, <1>3 DEF ShellInv, ConfInv
  <2>2. ~Writes(io', Blank) /\ h.val # Blank /\ ~In(io', "getConf")
    BY <1>1, <1>3, <1>6, <2>1 DEF MoreReads, ConfOps
  <2>3. form # Blank
    BY <2>1 DEF Asked, In
  <2>4. CASE In(Tail(io), "setConf")
    BY <1>1, <1>3, <1>5, <1>6, <2>1, <2>2, <2>3, <2>4 DEF ConfInv, MoreReads, ConfOps
  <2>5. CASE ~In(Tail(io), "setConf")
    <3>1. conf = h.val
      BY <1>3, <2>1, <2>5, LatestIsIn
    <3> QED
      BY <1>1, <1>4, <1>5, <1>6, <2>1, <2>2, <2>3, <2>5, <3>1 DEF ConfInv, MoreReads, ConfOps
  <2> QED
    BY <2>4, <2>5
<1> QED
  BY <1>7, <1>8, <1>9 DEF ShellInv

LEMMA NextTabIsOffered ==
    ASSUME NEW a, NEW current \in TabsOf(access)
    PROVE  NextTab(a, current) \in TabsOf(a)
  BY DEF NextTab, TabsOf, IsAdminLike, CanAccessAttendance

LEMMA ServeTokenStep ==
    ASSUME ShellInv, ServeToken
    PROVE  ShellInv'
<1> DEFINE h == Head(io)
           t == disk.token
<1>1. /\ io # <<>> /\ h.op = "getToken" /\ token' = t
      /\ UNCHANGED <<disk, conf, form, raced, early>>
  BY DEF ServeToken
<1>2. /\ h \in Ops /\ Tail(io) \in Seq(Ops)
      /\ \A c : ConfOps(Tail(io), c) => ConfOps(io, c)
  BY <1>1, Served DEF ShellInv, ShellTypeOK
<1>3. /\ \A kind : In(io, kind) <=> In(Tail(io), kind) \/ h.op = kind
      /\ \A who : Asked(io, "getToken", who) => Asked(Tail(io), "getToken", who) \/ h.who = who
  BY <1>1, QueueTail DEF ShellInv, ShellTypeOK
<1>4. h.who \in Requests \cup {"settings", "shell"}
  BY <1>1, <1>2 DEF Ops
<1>5. t \in Stored /\ t # "unread"
  BY TokensAssumption DEF ShellInv, ShellTypeOK, Stored
<1> HIDE DEF h, t
<1>6. /\ MoreReads(Tail(io), conf, t) /\ calls' \in [Requests -> Calls]
      /\ IF h.who = "settings" THEN role' = RoleFromToken(t) ELSE role' = role
      /\ IF h.who = "shell" THEN access' = Snapshot(t) /\ tab' = NextTab(Snapshot(t), tab)
                            ELSE access' = access /\ tab' = tab
  <2>1. CASE h.who = "settings"
    <3>1. role' = RoleFromToken(t) /\ io' = Tail(io) /\ UNCHANGED <<calls, access, tab>>
      BY <2>1 DEF ServeToken, h, t, tabs
    <3> QED
      BY <1>2, <2>1, <3>1 DEF MoreReads, TokenOps, ConfOps, ShellInv, ShellTypeOK
  <2>2. CASE h.who = "shell"
    <3>1. Refresh(t) /\ io' = Tail(io) /\ UNCHANGED <<calls, role>>
      BY <2>2 DEF ServeToken, h, t
    <3> QED
      BY <1>2, <2>2, <3>1 DEF MoreReads, TokenOps, ConfOps, ShellInv, ShellTypeOK, Refresh
  <2>3. CASE h.who \notin {"settings", "shell"}
    <3>1. Asks(h.who, calls[h.who], Tail(io), conf, t) /\ UNCHANGED <<role, access, tab>>
      BY <2>3 DEF ServeToken, h, t, tabs
    <3>2. h.who \in Requests /\ calls[h.who] \in Calls /\ calls \in [Requests -> Calls]
      BY <1>4, <2>3 DEF ShellInv, ShellTypeOK
    <3> QED
      BY <1>2, <2>3, <3>1, <3>2, AsksReads
  <2> QED
    BY <2>1, <2>2, <2>3
<1>7. ShellTypeOK'
  BY <1>1, <1>5, <1>6 DEF ShellInv, ShellTypeOK, MoreReads
<1>8. TokenInv'
  <2>1. tab' \in TabsOf(access')
    BY <1>6, NextTabIsOffered DEF ShellInv, TokenInv
  <2>2. ASSUME ~raced'
        PROVE  /\ ~In(io, "setToken")
               /\ Asked(io, "getToken", "settings") \/ role = RoleFromToken(t)
               /\ Asked(io, "getToken", "shell") \/ access = Snapshot(t)
    BY <1>1, <1>3, <2>2 DEF ShellInv, TokenInv, t
  <2>3. ASSUME ~raced'
        PROVE  /\ ~In(io', "setToken")
               /\ Asked(io', "getToken", "settings") \/ role' = RoleFromToken(t)
               /\ Asked(io', "getToken", "shell") \/ access' = Snapshot(t)
    BY <1>3, <1>6, <2>2, <2>3 DEF MoreReads, TokenOps
  <2> QED
    BY <1>1, <1>5, <2>1, <2>3 DEF TokenInv, t
<1>9. ConfInv'
  BY <1>1, <1>2, <1>6, ConfRests DEF ShellInv, MoreReads
<1> QED
  BY <1>7, <1>8, <1>9 DEF ShellInv

LEMMA StoreTokenStep ==
    ASSUME ShellInv, StoreToken
    PROVE  ShellInv'
<1> DEFINE h == Head(io)
<1>1. /\ io # <<>> /\ h.op = "setToken" /\ io' = Tail(io)
      /\ disk' = [disk EXCEPT !.token = h.val]
      /\ role' = RoleFromToken(h.val)
      /\ access' = Snapshot(token) /\ tab' = NextTab(Snapshot(token), tab)
      /\ calls' = [r \in Requests |-> IF r = h.who THEN NoCall ELSE calls[r]]
      /\ UNCHANGED <<token, conf, form, raced, early>>
  BY DEF StoreToken, Refresh, cached
<1>2. /\ h \in Ops /\ Tail(io) \in Seq(Ops)
      /\ \A c : ConfOps(Tail(io), c) => ConfOps(io, c)
  BY <1>1, Served DEF ShellInv, ShellTypeOK
<1>3. /\ \A kind : In(io, kind) <=> In(Tail(io), kind) \/ h.op = kind
      /\ \A kind, v : Latest(io, kind, v) =>
            Latest(Tail(io), kind, v) \/ (~In(Tail(io), kind) /\ h.val = v)
  BY <1>1, QueueTail DEF ShellInv, ShellTypeOK
<1>4. h.val \in Stored
  BY <1>1, <1>2 DEF Ops
<1>5. /\ disk' \in [token : Stored, conf : Confs \cup {None, Blank}]
      /\ disk'.token = h.val /\ disk'.conf = disk.conf
  BY <1>1, <1>4 DEF ShellInv, ShellTypeOK
<1> HIDE DEF h
<1>6. calls' \in [Requests -> Calls]
  <2>1. NoCall \in Calls
    BY DEF NoCall, Calls, Stored
  <2> HIDE DEF NoCall
  <2> QED
    BY <1>1, <2>1 DEF ShellInv, ShellTypeOK
<1>7. ShellTypeOK'
  BY <1>1, <1>2, <1>5, <1>6 DEF ShellInv, ShellTypeOK
<1>8. TokenInv'
  <2>1. tab' \in TabsOf(access')
    BY <1>1, NextTabIsOffered DEF ShellInv, TokenInv
  <2>2. ASSUME ~raced'
        PROVE  token # "unread" /\ Latest(io, "setToken", token) /\ ~In(io, "getToken")
    BY <1>1, <1>3, <2>2 DEF ShellInv, TokenInv
  <2>3. CASE In(io', "setToken")
    BY <1>1, <1>3, <2>1, <2>2, <2>3, LatestIsIn DEF TokenInv
  <2>4. CASE ~In(io', "setToken")
    <3>1. ~raced' => h.val = token
      BY <1>1, <1>3, <2>2, <2>4, LatestIsIn
    <3> QED
      BY <1>1, <1>5, <2>1, <2>2, <2>4, <3>1 DEF TokenInv
  <2> QED
    BY <2>3, <2>4
<1>9. ConfInv'
  <2>1. ConfOps(Tail(io), conf)
    BY <1>1 DEF ConfOps
  <2> QED
    BY <1>1, <1>2, <1>5, <2>1, ConfRests DEF ShellInv
<1> QED
  BY <1>7, <1>8, <1>9 DEF ShellInv

LEMMA SetTokenStep ==
    ASSUME ShellInv, NEW t \in Stored, NEW who \in Requests \cup {"logout"}, SetToken(t, who),
           UNCHANGED <<disk, conf, form, role, access, tab, early>>,
           calls' \in [Requests -> Calls]
    PROVE  ShellInv'
<1> DEFINE x == Op("setToken", who, t)
<1>1. token' = t /\ io' = Append(io, x) /\ raced' = Reading("getToken")
  BY DEF SetToken
<1>2. x \in Ops /\ x.op = "setToken" /\ x.val = t /\ t # Blank /\ t # "unread"
  BY TokensAssumption DEF Op, Ops, Stored, Blank
<1> HIDE DEF x
<1>3. /\ io' \in Seq(Ops) /\ ConfOps(io, conf)
      /\ \A kind : In(io', kind) <=> In(io, kind) \/ x.op = kind
      /\ Latest(io', x.op, x.val)
  <2>1. io \in Seq(Ops)
    BY DEF ShellInv, ShellTypeOK
  <2>2. io' \in Seq(Ops) /\ ConfOps(io, conf)
    BY <1>1, <1>2, <2>1, Appended
  <2>3. (\A kind : In(io', kind) <=> In(io, kind) \/ x.op = kind) /\ Latest(io', x.op, x.val)
    BY <1>1, <1>2, <2>1, QueueAppend
  <2> QED
    BY <2>2, <2>3
<1>4. ShellTypeOK'
  BY <1>1, <1>3 DEF ShellInv, ShellTypeOK
<1>5. TokenInv'
  <2>1. ~raced' => ~In(io, "getToken")
    BY <1>1 DEF Reading, In
  <2> QED
    BY <1>1, <1>2, <1>3, <2>1 DEF ShellInv, TokenInv
<1>6. ConfInv'
  BY <1>3, ConfRests DEF ShellInv
<1> QED
  BY <1>4, <1>5, <1>6 DEF ShellInv

LEMMA CacheConfStep ==
    ASSUME ShellInv, NEW who \in Requests \cup {"settings"}, CacheConf(form),
           io' = Append(io, Op("setConf", who, form)),
           UNCHANGED <<disk, token, form, role, access, tab, raced>>,
           calls' \in [Requests -> Calls]
    PROVE  ShellInv'
<1> DEFINE x == Op("setConf", who, form)
<1>1. conf' = form /\ io' = Append(io, x) /\ early' = (early \/ Reading("getConf"))
  BY DEF CacheConf
<1>2. x \in Ops /\ x.op = "setConf" /\ x.val = form /\ form # "unread"
  BY TokensAssumption DEF Op, Ops, ShellInv, ShellTypeOK, Blank
<1> HIDE DEF x
<1>3. /\ io' \in Seq(Ops) /\ TokenOps(io, token)
      /\ \A kind : In(io', kind) <=> In(io, kind) \/ x.op = kind
      /\ Latest(io', x.op, x.val)
      /\ \A v : Writes(io', v) <=> Writes(io, v) \/ x.val = v
  <2>1. io \in Seq(Ops)
    BY DEF ShellInv, ShellTypeOK
  <2>2. io' \in Seq(Ops) /\ TokenOps(io, token)
    BY <1>1, <1>2, <2>1, Appended
  <2>3. /\ \A kind : In(io', kind) <=> In(io, kind) \/ x.op = kind
        /\ Latest(io', x.op, x.val)
        /\ \A v : Writes(io', v) <=> Writes(io, v) \/ x.val = v
    BY <1>1, <1>2, <2>1, QueueAppend
  <2> QED
    BY <2>2, <2>3
<1>4. ShellTypeOK'
  BY <1>1, <1>3 DEF ShellInv, ShellTypeOK
<1>5. TokenInv'
  BY <1>3, TokenRests DEF ShellInv
<1>6. ConfInv'
  <2>1. ~early' => ~early /\ ~In(io, "getConf")
    BY <1>1 DEF Reading, In
  <2>2. ~early' => form # Blank
    BY <2>1 DEF ShellInv, ConfInv, In, Asked
  <2> QED
    BY <1>1, <1>2, <1>3, <2>1, <2>2 DEF ShellInv, ConfInv
<1> QED
  BY <1>4, <1>5, <1>6 DEF ShellInv

LEMMA PressStep ==
    ASSUME ShellInv, Press \/ (\E r \in Requests : Answered(r)) \/ TapTab
    PROVE  ShellInv'
<1>1. NoCall \in Calls
  BY DEF NoCall, Calls, Stored
<1>2. CASE Edit
  <2>1. /\ UNCHANGED <<disk, io, token, conf, calls, role, access, tab, raced, early>>
        /\ form' \in Confs
    BY <1>2 DEF Edit, stored, cached, tabs
  <2>2. form' # Blank
    BY <2>1, TokensAssumption DEF Blank
  <2>3. ShellTypeOK' /\ TokenInv' /\ ConfInv'
    BY <2>1, <2>2 DEF ShellInv, ShellTypeOK, TokenInv, ConfInv
  <2> QED
    BY <2>3 DEF ShellInv
<1>3. CASE Save
  <2>1. /\ CacheConf(form) /\ io' = Append(io, Op("setConf", "settings", form))
        /\ UNCHANGED <<disk, token, form, role, access, tab, raced, calls>>
    BY <1>3 DEF Save, settings, tabs
  <2>2. calls' \in [Requests -> Calls]
    BY <2>1 DEF ShellInv, ShellTypeOK
  <2> QED
    BY <2>1, <2>2, CacheConfStep
<1>4. CASE Logout
  <2>1. /\ SetToken(None, "logout")
        /\ UNCHANGED <<disk, conf, form, role, access, tab, early, calls>>
    BY <1>4 DEF Logout, settings, tabs
  <2>2. calls' \in [Requests -> Calls]
    BY <2>1 DEF ShellInv, ShellTypeOK
  <2> QED
    BY <2>1, <2>2, SetTokenStep DEF Stored
<1>5. ASSUME NEW r \in Requests, Login(r)
      PROVE  ShellInv'
  <2>1. PICK t \in Tokens : Asks(r, [NoCall EXCEPT !.acct = t], io, conf, token)
    BY <1>5 DEF Login
  <2>2. [NoCall EXCEPT !.acct = t] \in Calls
    BY <1>1 DEF Calls, Stored
  <2>3. UNCHANGED <<disk, token, conf, form, role, access, tab, raced, early>>
    BY <1>5 DEF Login, cached, settings, tabs
  <2>4. MoreReads(io, conf, token) /\ calls' \in [Requests -> Calls]
    BY <2>1, <2>2, AsksReads DEF ShellInv, ShellTypeOK
  <2>5. ShellTypeOK'
    BY <2>3, <2>4 DEF ShellInv, ShellTypeOK, MoreReads
  <2> QED
    BY <2>3, <2>4, <2>5, TokenRests, ConfRests DEF ShellInv, MoreReads
<1>6. ASSUME NEW r \in Requests, Bind(r)
      PROVE  ShellInv'
  <2>1. /\ CacheConf(form) /\ io' = Append(io, Op("setConf", r, form))
        /\ UNCHANGED <<disk, token, form, role, access, tab, raced>>
    BY <1>6 DEF Bind, settings, tabs
  <2>2. PICK t \in Tokens : calls' = [calls EXCEPT ![r] = [step |-> "conf", acct |-> t]]
    BY <1>6 DEF Bind
  <2>3. [step |-> "conf", acct |-> t] \in Calls
    BY DEF Calls, Stored
  <2>4. calls' \in [Requests -> Calls]
    BY <2>2, <2>3 DEF ShellInv, ShellTypeOK
  <2> QED
    BY <2>1, <2>4, CacheConfStep
<1>7. ASSUME NEW r \in Requests, Answered(r)
      PROVE  ShellInv'
  <2>1. UNCHANGED <<disk, conf, form, role, access, tab, early>>
    BY <1>7 DEF Answered, settings, tabs
  <2>2. calls[r] \in Calls
    BY DEF ShellInv, ShellTypeOK
  <2>3. CASE SetToken(calls[r].acct, r) /\ calls' = [calls EXCEPT ![r].step = "store"]
    <3>1. calls[r].acct \in Stored /\ calls' \in [Requests -> Calls]
      BY <2>2, <2>3 DEF ShellInv, ShellTypeOK, Calls
    <3> QED
      BY <2>1, <2>3, <3>1, SetTokenStep
  <2>4. CASE calls' = [calls EXCEPT ![r] = NoCall] /\ UNCHANGED <<io, token, raced>>
    <3>1. calls' \in [Requests -> Calls]
      BY <1>1, <2>4 DEF ShellInv, ShellTypeOK
    <3>2. ShellTypeOK' /\ TokenInv' /\ ConfInv'
      BY <2>1, <2>4, <3>1 DEF ShellInv, ShellTypeOK, TokenInv, ConfInv
    <3> QED
      BY <3>2 DEF ShellInv
  <2> QED
    BY <1>7, <2>3, <2>4 DEF Answered
<1>8. CASE TapTab
  <2>1. /\ tab' \in TabsOf(access)
        /\ UNCHANGED <<disk, io, token, conf, calls, form, role, access, raced, early>>
    BY <1>8 DEF TapTab, stored, cached, settings
  <2>2. ShellTypeOK' /\ TokenInv' /\ ConfInv'
    BY <2>1 DEF ShellInv, ShellTypeOK, TokenInv, ConfInv
  <2> QED
    BY <2>2 DEF ShellInv
<1> QED
  BY <1>2, <1>3, <1>4, <1>5, <1>6, <1>7, <1>8 DEF Press

-----------------------------------------------------------------------------

\* A nonempty set of positions in the queue has a last one: < is well-founded
\* on the naturals, so the distances to the end have a least one.
LEMMA LastPosition ==
    ASSUME NEW n \in Nat, NEW S \in SUBSET (1 .. n), S # {}
    PROVE  \E x \in S : \A y \in S : y <= x
<1> DEFINE Less == {p \in Nat \X Nat : p[1] < p[2]}
           R    == {n - y : y \in S}
<1>1. OpToRel(<, Nat) = Less
  BY Zenon DEF OpToRel
<1>2. IsWellFoundedOn(Less, Nat)
  BY <1>1, NatLessThanWellFounded, Zenon
<1>3. R \in SUBSET Nat /\ R # {}
  <2>1. \A y \in S : n - y \in Nat
    OBVIOUS
  <2>2. PICK y \in S : TRUE
    OBVIOUS
  <2> QED
    BY <2>1, <2>2
<1>4. PICK m \in R : \A k \in R : ~(<<k, m>> \in Less)
  <2> HIDE DEF Less, R
  <2> QED
    BY <1>2, <1>3, WFMin
<1>5. PICK x \in S : m = n - x
  BY <1>4
<1>6. ASSUME NEW y \in S
      PROVE  y <= x
  <2>0. x \in 1 .. n /\ y \in 1 .. n
    OBVIOUS
  <2>1. n - y \in R /\ n - y \in Nat /\ n - x \in Nat
    BY <2>0
  <2>2. ~(<<n - y, n - x>> \in Less)
    BY <1>4, <1>5, <2>1
  <2>3. ~(n - y < n - x)
    BY <2>1, <2>2
  <2>4. x \in Int /\ y \in Int /\ n \in Int
    BY <2>0
  <2> HIDE DEF Less, R
  <2> QED
    BY <2>3, <2>4
<1> QED
  BY <1>5, <1>6

LEMMA FirstReadsAre ==
    /\ FirstReads \in Seq(Ops)
    /\ ~In(FirstReads, "setToken") /\ ~In(FirstReads, "setConf") /\ In(FirstReads, "getConf")
    /\ Asked(FirstReads, "getConf", "settings")
    /\ Asked(FirstReads, "getToken", "settings") /\ Asked(FirstReads, "getToken", "shell")
    /\ ~Writes(FirstReads, Blank)
<1>1. /\ Len(FirstReads) = 3 /\ FirstReads \in Seq(Ops)
      /\ FirstReads[1] = Op("getConf", "settings", None)
      /\ FirstReads[2] = Op("getToken", "settings", None)
      /\ FirstReads[3] = Op("getToken", "shell", None)
  BY DEF FirstReads, Op, Ops
<1>2. \A i \in 1 .. 3 : i = 1 \/ i = 2 \/ i = 3
  OBVIOUS
<1>3. None # Blank
  BY TokensAssumption DEF Blank
<1> QED
  BY <1>1, <1>2, <1>3 DEF In, Asked, Writes, Op

LEMMA GuestTab == "kiosk" \in TabsOf(Snapshot(None))
  BY DEF Snapshot, RoleFromToken, TabsOf, IsAdminLike

LEMMA KillStep ==
    ASSUME ShellInv, Kill
    PROVE  ShellInv'
<1>1. PICK n \in 0 .. Len(io) :
        LET cut == SubSeq(io, 1, n)
            Last(kind, old) ==
                LET writes == {i \in 1 .. n : cut[i].op = kind} IN
                IF writes = {} THEN old
                ELSE cut[CHOOSE i \in writes : \A j \in writes : j <= i].val
        IN disk' = [token |-> Last("setToken", disk.token),
                    conf |-> Last("setConf", disk.conf)]
  BY DEF Kill
<1> DEFINE cut == SubSeq(io, 1, n)
           writes(kind) == {i \in 1 .. n : cut[i].op = kind}
           last(kind) == CHOOSE i \in writes(kind) : \A j \in writes(kind) : j <= i
<1>2. n \in Nat /\ \A i \in 1 .. n : i \in 1 .. Len(io) /\ cut[i] = io[i] /\ io[i] \in Ops
  BY DEF ShellInv, ShellTypeOK
<1>3. ASSUME NEW kind, writes(kind) # {}
      PROVE  last(kind) \in 1 .. n /\ cut[last(kind)] = io[last(kind)] /\ io[last(kind)].op = kind
  <2>1. writes(kind) \in SUBSET (1 .. n)
    OBVIOUS
  <2>2. \E i \in writes(kind) : \A j \in writes(kind) : j <= i
    BY <1>2, <1>3, <2>1, LastPosition
  <2>3. last(kind) \in writes(kind)
    BY <2>2
  <2> QED
    BY <1>2, <2>3
<1>4. /\ disk'.token = IF writes("setToken") = {} THEN disk.token
                       ELSE cut[last("setToken")].val
      /\ disk'.conf = IF writes("setConf") = {} THEN disk.conf ELSE cut[last("setConf")].val
      /\ disk' = [token |-> disk'.token, conf |-> disk'.conf]
  BY <1>1
<1> HIDE DEF cut, writes, last
<1>5. disk'.token \in Stored
  BY <1>2, <1>3, <1>4 DEF Ops, ShellInv, ShellTypeOK
<1>6. disk'.conf \in Confs \cup {None, Blank}
  BY <1>2, <1>3, <1>4 DEF Ops, ShellInv, ShellTypeOK
<1>7. ~early => disk'.conf # Blank
  BY <1>2, <1>3, <1>4 DEF Writes, ShellInv, ConfInv
<1>8. /\ disk' \in [token : Stored, conf : Confs \cup {None, Blank}]
      /\ early' = early
  BY <1>4, <1>5, <1>6 DEF Kill
<1>9. /\ io' = FirstReads /\ token' = "unread" /\ conf' = "unread"
      /\ calls' = [r \in Requests |-> NoCall] /\ form' = Blank
      /\ access' = Snapshot(None) /\ tab' = "kiosk"
  BY DEF Kill
<1>10. calls' \in [Requests -> Calls]
  BY <1>9 DEF NoCall, Calls, Stored
<1>11. ShellTypeOK'
  BY <1>8, <1>9, <1>10, FirstReadsAre DEF ShellTypeOK
<1>12. TokenInv'
  BY <1>9, GuestTab, FirstReadsAre DEF TokenInv
<1>13. ConfInv'
  BY <1>7, <1>8, <1>9, FirstReadsAre DEF ConfInv, Blank
<1> QED
  BY <1>11, <1>12, <1>13 DEF ShellInv

LEMMA ShellInvStep ==
    ASSUME ShellInv, [AttendanceNext]_attendanceVars
    PROVE  ShellInv'
<1>1. ASSUME UNCHANGED shellVars
      PROVE  ShellInv'
  BY <1>1 DEF shellVars, stored, cached, settings, tabs, ShellInv, ShellTypeOK, TokenInv, ConfInv
<1>2. CASE ShellStep
  BY <1>2, ServeConfStep, ServeTokenStep, StoreConfStep, StoreTokenStep, PressStep
  DEF ShellStep, Serve
<1>3. CASE ColdStart
  BY <1>3, KillStep DEF ColdStart
<1> QED
  BY <1>1, <1>2, <1>3
  DEF AttendanceNext, attendanceVars, PickPeriod, PullDown, Midnight, LoadAnswered, LoadFails

\* Once storage has nothing left to do, memory, the role shown and the tabs agree
\* with the stored token, unless it was set during a first read; and the settings
\* in use with the stored ones, unless saved before the old ones were read
\* (storage.ts, App.tsx refreshRole, SettingsScreen).
THEOREM StorageAgreesCorrect == AttendanceSpec => []StorageAgrees
<1>1. AttendanceInit => ShellInv
  <2> SUFFICES ASSUME AttendanceInit
               PROVE  ShellInv
    OBVIOUS
  <2>1. disk \in [token : Stored, conf : Confs \cup {None, Blank}] /\ disk.conf # Blank
    BY TokensAssumption DEF AttendanceInit, ShellInit, Stored, Blank
  <2>2. /\ io = FirstReads /\ token = "unread" /\ conf = "unread"
        /\ calls = [r \in Requests |-> NoCall] /\ form = Blank
        /\ access = Snapshot(None) /\ tab = "kiosk"
    BY DEF AttendanceInit, ShellInit
  <2>3. calls \in [Requests -> Calls]
    BY <2>2 DEF NoCall, Calls, Stored
  <2>4. ShellTypeOK
    BY <2>1, <2>2, <2>3, FirstReadsAre DEF ShellTypeOK
  <2>5. TokenInv
    BY <2>2, GuestTab, FirstReadsAre DEF TokenInv
  <2>6. ConfInv
    BY <2>1, <2>2, FirstReadsAre DEF ConfInv, Blank
  <2> QED
    BY <2>4, <2>5, <2>6 DEF ShellInv
<1>2. ShellInv => StorageAgrees
  BY NothingQueued DEF ShellInv, TokenInv, ConfInv, StorageAgrees
<1> QED
  BY <1>1, <1>2, ShellInvStep, PTL DEF AttendanceSpec

-----------------------------------------------------------------------------
(* The Attendance screen. *)

LoadFields   == {"period", "range", "token", "mine"}
ScreenFields == {"mounted", "period", "range", "rows", "busy", "loaded", "asked"}

\* The loads and the screen keep their fields.
Shapes ==
    /\ DOMAIN loads = Loads
    /\ \A l \in Loads : DOMAIN loads[l] = LoadFields
    /\ DOMAIN screen = ScreenFields

\* The range r is that of period p, as of today.
AsOfToday(p, r) == p \in Periods(day) /\ r = RangeFor(p, day)

OneLoad == \A l, x \in Loads : Idle(l) \/ Idle(x) \/ l = x

LoadsAsOf == \A l \in Loads : Idle(l) \/ AsOfToday(loads[l].period, loads[l].range)

\* What the load in flight will answer is what the screen was last asked for; one
\* that an earlier screen asked for meets a screen that has not been in front.
Expected ==
    \A l \in Loads : ~Idle(l) =>
        \/ /\ loads[l].mine /\ loads[l].token = token
           /\ screen.asked \in {loads[l].period, None}
        \/ ~loads[l].mine /\ screen.asked = None /\ ~InFront

SettledScreen ==
    (\A l \in Loads : Idle(l)) =>
        /\ screen.asked \in {roster.period, None}
        /\ InFront => /\ AsOfToday(screen.period, screen.range)
                      /\ screen.asked \in {screen.period, None}
                      /\ screen.rows \in {NoRows, [token |-> token, range |-> screen.range]}

CurrentInv ==
    /\ Shapes
    /\ \A l \in Loads : loads[l].mine => screen.mounted
    /\ ~excused => /\ OneLoad /\ LoadsAsOf
                   /\ roster = NoCache \/ AsOfToday(roster.period, roster.range)
                   /\ screen.mounted => Expected /\ SettledScreen

\* A load of today for this login, by a screen that is in front.
LEMMA LoadStep ==
    ASSUME CurrentInv, UNCHANGED day, NEW s, NEW p, NEW r, NEW silent, NEW sorry,
           DOMAIN s = ScreenFields, s.mounted,
           Load(s, r, p, silent, token', sorry),
           ~sorry => ~excused,
           ~sorry /\ (\A x \in Loads : Idle(x)) =>
               AsOfToday(p, r) /\ s.asked \in {p, None}
    PROVE  CurrentInv'
<1>1. PICK l \in Loads :
         /\ Idle(l)
         /\ loads' = [loads EXCEPT ![l] =
                        [period |-> p, range |-> r, token |-> token', mine |-> TRUE]]
         /\ screen' = [s EXCEPT !.busy = @ \/ ~silent \/ ~HasRows(roster)]
         /\ excused' = (sorry \/ \E x \in Loads : ~Idle(x))
         /\ roster' = roster
  BY Zenon DEF Load
<1> DEFINE b == s.busy \/ ~silent \/ ~HasRows(roster)
<1>11. screen' = [s EXCEPT !.busy = b]
  BY <1>1
<1>2. screen'.mounted /\ screen'.asked = s.asked /\ DOMAIN screen' = ScreenFields
  <2> HIDE DEF b
  <2> QED
    BY <1>11 DEF ScreenFields
<1> DEFINE new == [period |-> p, range |-> r, token |-> token', mine |-> TRUE]
<1>13. loads'[l] = new /\ \A x \in Loads \ {l} : loads'[x] = loads[x]
  <2> HIDE DEF new
  <2>1. loads' = [loads EXCEPT ![l] = new]
    BY <1>1 DEF new
  <2> QED
    BY <2>1 DEF CurrentInv, Shapes
<1>3. Shapes'
  <2>1. DOMAIN loads' = Loads
    BY <1>1 DEF CurrentInv, Shapes
  <2>2. DOMAIN new = LoadFields
    BY DEF LoadFields
  <2> HIDE DEF new
  <2> QED
    BY <1>2, <1>13, <2>1, <2>2 DEF CurrentInv, Shapes
<1>4. ~excused' => ~sorry /\ \A x \in Loads : Idle(x)
  BY <1>1
<1>5. ~Idle(l)'
  BY <1>13 DEF Idle, NoLoad
<1>6. ~excused' => \A x \in Loads : x = l \/ Idle(x)'
  BY <1>13, <1>4 DEF Idle
<1>7. ~excused' => OneLoad'
  BY <1>6 DEF OneLoad
<1>8. ~excused' => LoadsAsOf'
  BY <1>13, <1>4, <1>6 DEF LoadsAsOf, AsOfToday
<1>9. ~excused' => Expected'
  BY <1>2, <1>13, <1>4, <1>6 DEF Expected
<1>10. SettledScreen'
  BY <1>5 DEF SettledScreen
<1>12. ~excused' => (roster = NoCache \/ AsOfToday(roster.period, roster.range))'
  BY <1>1, <1>4 DEF CurrentInv, AsOfToday
<1> QED
  BY <1>2, <1>3, <1>7, <1>8, <1>9, <1>10, <1>12, <1>13 DEF CurrentInv

LEMMA TodayIsAPeriod == AsOfToday(Today, RangeFor(Today, day))
  BY DEF AsOfToday, Periods, Today

LEMMA FollowsStep ==
    ASSUME CurrentInv, Follows, UNCHANGED day
    PROVE  CurrentInv'
<1> DEFINE may == CanAccessAttendance(access'.role)
           shows == tab' = "attendance"
           s   == IF screen.mounted THEN screen ELSE Mounted(day)
           why == excused \/ (screen.mounted /\ token' # token)
<1>0. DOMAIN s = ScreenFields /\ s.mounted
  BY DEF CurrentInv, Shapes, Mounted, ScreenFields
<1>01. ~screen.mounted => s.asked = None
  BY DEF Mounted
<1>1. CASE /\ ~may
           /\ screen' = Off
           /\ loads' = [l \in Loads |-> [loads[l] EXCEPT !.mine = FALSE]]
           /\ excused' = why
           /\ UNCHANGED roster
  <2>1. DOMAIN screen' = ScreenFields /\ ~screen'.mounted
    BY <1>1 DEF ScreenFields, Off
  <2>2. /\ \A l \in Loads : loads'[l] = [loads[l] EXCEPT !.mine = FALSE]
        /\ DOMAIN loads' = Loads
    BY <1>1
  <2>3. \A l \in Loads : /\ DOMAIN loads'[l] = LoadFields /\ ~loads'[l].mine
                         /\ loads'[l].period = loads[l].period
                         /\ loads'[l].range = loads[l].range
    BY <2>2 DEF CurrentInv, Shapes, LoadFields
  <2>4. \A l \in Loads : Idle(l) => Idle(l)'
    BY <2>2 DEF Idle, NoLoad
  <2>5. ~excused' => ~excused
    BY <1>1
  <2>6. ~excused' => OneLoad'
    BY <2>4, <2>5 DEF CurrentInv, OneLoad
  <2>7. ~excused' => LoadsAsOf'
    <3>1. day' = day
      OBVIOUS
    <3> QED
      BY <2>3, <2>4, <2>5, <3>1 DEF CurrentInv, LoadsAsOf, AsOfToday
  <2>8. ~excused' => (roster = NoCache \/ AsOfToday(roster.period, roster.range))'
    BY <1>1, <2>5 DEF CurrentInv, AsOfToday
  <2> QED
    BY <2>1, <2>2, <2>3, <2>6, <2>7, <2>8 DEF CurrentInv, Shapes
<1>2. CASE /\ may /\ shows /\ ~(screen.mounted /\ InFront)
           /\ Activated(s, token', why)
  <2>1. CASE s.loaded /\ HasRows(roster)
    <3>1. Load(s, roster.range, roster.period, TRUE, token', why)
      BY <1>2, <2>1 DEF Activated
    <3>2. roster # NoCache
      BY <2>1 DEF HasRows, NoCache
    <3>3. ~why => ~excused /\ AsOfToday(roster.period, roster.range)
      BY <3>2 DEF CurrentInv
    <3>4. ~why /\ (\A x \in Loads : Idle(x)) => s.asked \in {roster.period, None}
      BY <1>01 DEF CurrentInv, SettledScreen
    <3> HIDE DEF s, why
    <3> QED
      BY <1>0, <3>1, <3>3, <3>4, LoadStep
  <2>2. CASE ~(s.loaded /\ HasRows(roster))
    <3> DEFINE u == [s EXCEPT !.asked = None]
    <3>1. Load(u, RangeFor(Today, day), Today, FALSE, token', why)
      BY <1>2, <2>2 DEF Activated
    <3>2. /\ u.asked = None
          /\ DOMAIN u = ScreenFields /\ u.mounted
      <4> HIDE DEF s
      <4> QED
        BY <1>0 DEF ScreenFields
    <3>3. ~why => ~excused /\ AsOfToday(Today, RangeFor(Today, day)) /\ u.asked \in {Today, None}
      BY <3>2, TodayIsAPeriod
    <3> HIDE DEF u, why
    <3> QED
      BY <3>1, <3>2, <3>3, LoadStep
  <2> QED
    BY <2>1, <2>2
<1>3. CASE /\ may /\ ~(shows /\ ~(screen.mounted /\ InFront))
           /\ screen' = s /\ excused' = why
           /\ UNCHANGED <<roster, loads>>
  <2>1. Shapes' /\ screen'.mounted
    BY <1>0, <1>3 DEF Shapes, CurrentInv
  <2>2. ~excused' => ~excused /\ (screen.mounted => token' = token)
    BY <1>3
  <2>3. InFront' => InFront /\ screen.mounted
    BY <1>3 DEF InFront
  <2>4. ~excused' => OneLoad' /\ LoadsAsOf' /\ (roster = NoCache \/ AsOfToday(roster.period, roster.range))'
    BY <1>3, <2>2 DEF CurrentInv, OneLoad, LoadsAsOf, AsOfToday, Idle
  <2>5. CASE screen.mounted
    <3>1. screen' = screen
      BY <1>3, <2>5
    <3>2. ~excused' => Expected' /\ SettledScreen'
      BY <1>3, <2>2, <2>3, <2>5, <3>1 DEF CurrentInv, Expected, SettledScreen, Idle, AsOfToday
    <3> QED
      BY <1>3, <2>1, <2>4, <3>2 DEF CurrentInv
  <2>6. CASE ~screen.mounted
    <3>1. screen'.asked = None /\ ~InFront'
      BY <1>01, <1>3, <2>3, <2>6
    <3>2. \A l \in Loads : loads'[l] = loads[l] /\ ~loads[l].mine
      BY <1>3, <2>6 DEF CurrentInv
    <3>3. Expected' /\ SettledScreen'
      BY <3>1, <3>2 DEF Expected, SettledScreen
    <3> QED
      BY <2>1, <2>4, <3>2, <3>3 DEF CurrentInv
  <2> QED
    BY <2>5, <2>6
<1> QED
  BY <1>1, <1>2, <1>3, Zenon DEF Follows

\* An answer that settles the matter is of today, of this login and what was
\* asked for; without one what was settled stays so.
LEMMA AnswerStep ==
    ASSUME CurrentInv, NEW l \in Loads, LoadAnswered(l)
    PROVE  CurrentInv'
<1> DEFINE a == loads[l]
<1>1. /\ ~Idle(l) /\ UNCHANGED <<token, tab, day>>
      /\ loads' = [loads EXCEPT ![l] = NoLoad]
      /\ Settles(l)
  BY DEF LoadAnswered, shellVars, tabs, cached
<1>2. PICK new \in {NoRows, [token |-> a.token, range |-> a.range]} :
        /\ roster' = [period |-> a.period, range |-> a.range, rows |-> new]
        /\ screen' = IF a.mine
                     THEN [screen EXCEPT !.period = a.period, !.range = a.range,
                                         !.rows = new, !.busy = FALSE, !.loaded = TRUE]
                     ELSE screen
  BY DEF LoadAnswered
<1>3. /\ loads'[l] = NoLoad /\ \A x \in Loads \ {l} : loads'[x] = loads[x]
      /\ DOMAIN loads' = Loads
  BY <1>1 DEF CurrentInv, Shapes
<1>4. /\ screen'.asked = screen.asked /\ (screen'.mounted <=> screen.mounted)
      /\ DOMAIN screen' = ScreenFields
      /\ a.mine => screen'.period = a.period /\ screen'.range = a.range /\ screen'.rows = new
      /\ ~a.mine => screen' = screen
  <2>1. CASE a.mine
    <3>1. screen' = [screen EXCEPT !.period = a.period, !.range = a.range,
                                   !.rows = new, !.busy = FALSE, !.loaded = TRUE]
      BY <1>2, <2>1
    <3> HIDE DEF a
    <3> QED
      BY <2>1, <3>1 DEF CurrentInv, Shapes, ScreenFields
  <2>2. CASE ~a.mine
    BY <1>2, <2>2 DEF CurrentInv, Shapes
  <2> QED
    BY <2>1, <2>2
<1>5. Shapes'
  BY <1>3, <1>4 DEF CurrentInv, Shapes, NoLoad, LoadFields
<1>6. \A x \in Loads : loads'[x].mine => screen'.mounted
  BY <1>3, <1>4 DEF CurrentInv, NoLoad
<1>7. ASSUME ~excused'
      PROVE  /\ \A x \in Loads \ {l} : Idle(x)
             /\ AsOfToday(a.period, a.range)
             /\ screen.mounted => \/ /\ a.mine /\ a.token = token
                                     /\ screen.asked \in {a.period, None}
                                  \/ ~a.mine /\ screen.asked = None /\ ~InFront
  <2>1. CASE ~excused
    BY <1>1, <2>1 DEF CurrentInv, OneLoad, LoadsAsOf, Expected
  <2>2. CASE excused
    BY <1>1, <1>7, <2>2 DEF Settles, AsOfToday
  <2> QED
    BY <2>1, <2>2
<1>8. ASSUME ~excused'
      PROVE  \A x \in Loads : Idle(x)'
  BY <1>3, <1>7, <1>8 DEF Idle
<1>9. ASSUME ~excused'
      PROVE  OneLoad' /\ LoadsAsOf' /\ Expected'
  BY <1>8, <1>9 DEF OneLoad, LoadsAsOf, Expected
<1>10. roster'.period = a.period /\ roster'.range = a.range
  BY <1>2
<1>11. ASSUME ~excused'
       PROVE  AsOfToday(roster.period, roster.range)'
  BY <1>1, <1>7, <1>10, <1>11 DEF AsOfToday
<1>12. ASSUME ~excused', screen'.mounted
       PROVE  SettledScreen'
  <2>1. screen'.asked \in {roster'.period, None}
    BY <1>4, <1>7, <1>10, <1>12
  <2>2. ASSUME InFront'
        PROVE  /\ AsOfToday(screen.period, screen.range)'
               /\ screen'.asked \in {screen'.period, None}
               /\ screen'.rows \in {NoRows, [token |-> token', range |-> screen'.range]}
    <3>1. a.mine /\ a.token = token /\ screen.asked \in {a.period, None}
      BY <1>1, <1>4, <1>7, <1>12, <2>2 DEF InFront
    <3> QED
      BY <1>1, <1>4, <1>7, <1>12, <3>1 DEF AsOfToday
  <2> QED
    BY <2>1, <2>2 DEF SettledScreen
<1> QED
  BY <1>5, <1>6, <1>9, <1>11, <1>12 DEF CurrentInv

LEMMA RosterStep ==
    ASSUME CurrentInv, [AttendanceNext]_attendanceVars
    PROVE  CurrentInv'
<1>1. ASSUME ShellStep, Follows, UNCHANGED day
      PROVE  CurrentInv'
  BY <1>1, FollowsStep
<1>2. ASSUME UNCHANGED <<token, tab, day>>, screen.mounted, InFront,
             NEW s, NEW p, DOMAIN s = ScreenFields, s.mounted, s.asked = p,
             ~excused /\ (\A x \in Loads : Idle(x)) => p \in Periods(day),
             Load(s, RangeFor(p, day), p, FALSE, token, excused)
      PROVE  CurrentInv'
  <2>1. Load(s, RangeFor(p, day), p, FALSE, token', excused)
    BY <1>2
  <2> QED
    BY <1>2, <2>1, LoadStep DEF AsOfToday
<1>3. CASE PickPeriod
  <2>1. PICK p \in Periods(day) \ {screen.period} :
          Load([screen EXCEPT !.period = p, !.range = RangeFor(p, day), !.asked = p],
               RangeFor(p, day), p, FALSE, token, excused)
    BY <1>3 DEF PickPeriod
  <2> DEFINE s == [screen EXCEPT !.period = p, !.range = RangeFor(p, day), !.asked = p]
  <2>2. screen.mounted /\ InFront /\ UNCHANGED <<token, tab, day>>
    BY <1>3 DEF PickPeriod, shellVars, cached, tabs
  <2>3. DOMAIN s = ScreenFields /\ s.mounted /\ s.asked = p
    BY <2>2 DEF CurrentInv, Shapes, ScreenFields
  <2> HIDE DEF s
  <2> QED
    BY <1>2, <2>1, <2>2, <2>3 DEF s
<1>4. CASE PullDown
  <2> DEFINE s == [screen EXCEPT !.asked = screen.period]
  <2>1. /\ screen.mounted /\ InFront /\ UNCHANGED <<token, tab, day>>
        /\ Load(s, RangeFor(screen.period, day), screen.period, FALSE, token, excused)
    BY <1>4 DEF PullDown, shellVars, cached, tabs
  <2>2. DOMAIN s = ScreenFields /\ s.mounted /\ s.asked = screen.period
    BY <2>1 DEF CurrentInv, Shapes, ScreenFields
  <2>3. ~excused /\ (\A x \in Loads : Idle(x)) => screen.period \in Periods(day)
    BY <2>1 DEF CurrentInv, SettledScreen, AsOfToday
  <2> HIDE DEF s
  <2> QED
    BY <1>2, <2>1, <2>2, <2>3
<1>5. CASE Midnight
  BY <1>5 DEF Midnight, CurrentInv, Shapes
<1>6. CASE ColdStart
  <2>1. /\ roster' = NoCache /\ screen' = Off /\ ~excused'
        /\ loads' = [l \in Loads |-> NoLoad]
    BY <1>6 DEF ColdStart
  <2> QED
    BY <2>1 DEF CurrentInv, Shapes, ScreenFields, LoadFields, Off, NoLoad, OneLoad, LoadsAsOf, Idle
<1>7. ASSUME NEW l \in Loads, LoadAnswered(l)
      PROVE  CurrentInv'
  BY <1>7, AnswerStep
<1>8. ASSUME NEW l \in Loads, LoadFails(l)
      PROVE  CurrentInv'
  <2>1. /\ excused' /\ loads' = [loads EXCEPT ![l] = NoLoad]
        /\ screen' = IF loads[l].mine THEN [screen EXCEPT !.busy = FALSE, !.asked = None]
                     ELSE screen
    BY <1>8 DEF LoadFails
  <2>2. DOMAIN screen' = ScreenFields /\ (screen'.mounted <=> screen.mounted)
    BY <2>1 DEF CurrentInv, Shapes, ScreenFields
  <2>3. \A x \in Loads : loads'[x] \in {loads[x], NoLoad}
    BY <2>1 DEF CurrentInv, Shapes
  <2>4. DOMAIN loads' = Loads
    BY <2>1 DEF CurrentInv, Shapes
  <2> QED
    BY <2>1, <2>2, <2>3, <2>4 DEF CurrentInv, Shapes, NoLoad, LoadFields
<1>9. CASE UNCHANGED attendanceVars
  <2>1. UNCHANGED <<token, tab, day, roster, screen, loads, excused>>
    BY <1>9 DEF attendanceVars, rosterVars, shellVars, cached, tabs
  <2> QED
    BY <2>1 DEF CurrentInv, Shapes, OneLoad, LoadsAsOf, Expected, SettledScreen, Idle, InFront, AsOfToday
<1> QED
  BY <1>1, <1>3, <1>4, <1>5, <1>6, <1>7, <1>8, <1>9 DEF AttendanceNext

\* With nothing in flight, the Attendance screen in front shows the range of the
\* period that was picked, as of today, and rows answered to the login of now,
\* unless a failure, an overlap, midnight or another login excuses it, and no load
\* has made up for it (AttendanceScreen load, onPeriodChange, rosterCache).
THEOREM RosterIsCurrentCorrect == AttendanceSpec => []RosterIsCurrent
<1>1. AttendanceInit => CurrentInv
  BY DEF AttendanceInit, RosterInit, CurrentInv, Shapes, ScreenFields, LoadFields, Off,
         NoLoad, OneLoad, LoadsAsOf, Idle
<1>2. CurrentInv => RosterIsCurrent
  BY DEF CurrentInv, SettledScreen, RosterIsCurrent, Quiet, AsOfToday
<1> QED
  BY <1>1, <1>2, RosterStep, PTL DEF AttendanceSpec

-----------------------------------------------------------------------------
(* The Enroll screen. *)

AskFields == {"kind", "emp", "arg", "step", "got"}

AskKinds == {"free", "list", "mode", "status", "photo", "enroll", "reset"}

AsksOK ==
    /\ DOMAIN asks = Slots
    /\ \A a \in Slots :
        /\ DOMAIN asks[a] = AskFields
        /\ asks[a].kind \in AskKinds
        /\ asks[a].kind = "free" => asks[a] = Free
        /\ asks[a].kind = "photo" => asks[a].step = "asked"
        /\ asks[a].kind \in SampleAsks \cup {"mode"} => asks[a].emp \in People

EnrollTypeOK ==
    /\ AsksOK
    /\ DOMAIN have = People /\ DOMAIN mode = People
    /\ sel \in People \cup {NoOne}
    /\ asking => sel # NoOne
    /\ menu = NoOne \/ menu.emp \in People

\* The requests in flight of some kinds: what Pending is while AsksOK.
Of(kinds) == {a \in Slots : asks[a].kind \in kinds}

\* What the screen says of the employee who is selected is so.
Shown == enr = [emp |-> sel, have |-> have[sel]]

\* One request about samples at most, of the employee who is selected; until the
\* server took it the screen shows the samples as they are, and no notice covers
\* the screen before the answer.
SampleInv ==
    /\ sel = NoOne => Of(SampleAsks) = {}
    /\ ~mixed =>
        /\ \A a, b \in Of(SampleAsks) : a = b
        /\ asking => ~done /\ Of({"photo", "enroll"}) = {}
        /\ \A a \in Of(SampleAsks) :
            /\ asks[a].emp = sel /\ ~done
            /\ asks[a].kind # "status" => busy
            /\ asks[a].step = "served" => asks[a].got = have[sel]
            /\ asks[a].step # "served" /\ asks[a].kind # "status" => Shown
        /\ Of(SampleAsks) = {} /\ sel # NoOne =>
            Shown /\ (done => Complete(have[sel]))

\* One request for the list or a mode at most; unless new samples are on their
\* way, which bring the list anew, what it answers, or what the screen shows
\* without it, is the server's.
ListInv ==
    /\ ~admin => list = NoOne /\ menu = NoOne /\ Of({"list", "mode"}) = {}
    /\ ~listMixed =>
        /\ \A a, b \in Of({"list", "mode"}) : a = b
        /\ Of({"reset"}) = {}
        /\ Of({"enroll"}) = {} =>
            /\ \A a \in Of({"list"}) : asks[a].step = "served" => asks[a].got = Listed
            /\ \A a \in Of({"mode"}) :
                IF asks[a].step = "served"
                THEN [list EXCEPT ![asks[a].emp].mode = asks[a].got] = Listed
                ELSE list = Listed
            /\ Of({"list", "mode"}) = {} => list = Listed \/ (list = NoOne /\ menu = NoOne)

EnrollInv == EnrollTypeOK /\ SampleInv /\ ListInv

LEMMA PendingIs ==
    ASSUME AsksOK, NEW K, "free" \notin K
    PROVE  Pending(K) = Of(K)
  BY DEF AsksOK, Pending, InFlight, Of, Free

\* A step that puts q into slot a.
Put(a, q) ==
    /\ DOMAIN asks' = Slots
    /\ asks'[a] = q
    /\ \A b \in Slots \ {a} : asks'[b] = asks[b]

LEMMA AskPuts ==
    ASSUME AsksOK, NEW a \in Slots, NEW kind, NEW emp, NEW arg, Ask(a, kind, emp, arg),
           kind \in AskKinds \ {"free"},
           kind \in SampleAsks \cup {"mode"} => emp \in People
    PROVE  /\ Put(a, asks'[a]) /\ AsksOK'
           /\ asks'[a].kind = kind /\ asks'[a].emp = emp /\ asks'[a].arg = arg
           /\ asks'[a].step = "asked"
<1> DEFINE q == [kind |-> kind, emp |-> emp, arg |-> arg, step |-> "asked", got |-> NoOne]
<1>1. DOMAIN q = AskFields /\ q.kind = kind /\ q.emp = emp /\ q.arg = arg /\ q.step = "asked"
  BY DEF AskFields
<1>2. asks' = [asks EXCEPT ![a] = q]
  BY DEF Ask
<1> HIDE DEF q
<1>3. asks'[a] = q /\ Put(a, asks'[a])
  BY <1>2 DEF AsksOK, Put
<1> QED
  BY <1>1, <1>3 DEF AsksOK, Put

LEMMA FreePuts ==
    ASSUME AsksOK, NEW a \in Slots, asks' = [asks EXCEPT ![a] = Free]
    PROVE  Put(a, Free) /\ AsksOK'
<1>1. DOMAIN Free = AskFields /\ Free.kind = "free"
  BY DEF Free, AskFields
<1>2. Put(a, Free)
  <2> HIDE DEF Free
  <2> QED
    BY DEF AsksOK, Put
<1> QED
  BY <1>1, <1>2 DEF AsksOK, Put, AskKinds, SampleAsks

-----------------------------------------------------------------------------

\* Steps that leave the requests about samples alone.
LEMMA SamplesRest ==
    ASSUME SampleInv, UNCHANGED <<have, sel, enr>>, mixed => mixed', busy => busy',
           done' => done, asking' => asking,
           \A b \in Slots : \/ asks'[b] = asks[b]
                            \/ asks[b].kind \notin SampleAsks /\ asks'[b].kind \notin SampleAsks
    PROVE  SampleInv'
<1>1. Of(SampleAsks)' = Of(SampleAsks) /\ \A a \in Of(SampleAsks) : asks'[a] = asks[a]
  BY DEF Of
<1>2. Of({"photo", "enroll"})' = Of({"photo", "enroll"})
  BY DEF Of, SampleAsks
<1> QED
  BY <1>1, <1>2 DEF SampleInv, Shown

\* Steps that leave the requests that matter to the list alone.
LEMMA ListRests ==
    ASSUME ListInv, UNCHANGED <<admin, list, Listed>>, listMixed => listMixed',
           menu' = menu \/ menu' = NoOne,
           \A b \in Slots :
               \/ asks'[b] = asks[b]
               \/ /\ asks[b].kind \notin {"list", "mode", "enroll", "reset"}
                  /\ asks'[b].kind \notin {"list", "mode", "enroll", "reset"}
    PROVE  ListInv'
<1> DEFINE Matters == {"list", "mode", "enroll", "reset"}
<1>1. \A a \in Of(Matters) : asks'[a] = asks[a]
  BY DEF Of
<1>2. /\ Of({"list", "mode"})' = Of({"list", "mode"}) /\ Of({"reset"})' = Of({"reset"})
      /\ Of({"enroll"})' = Of({"enroll"}) /\ Of({"list"})' = Of({"list"})
      /\ Of({"mode"})' = Of({"mode"})
  BY DEF Of
<1>3. Of({"list"}) \cup Of({"mode"}) \subseteq Of(Matters)
  BY DEF Of
<1> QED
  BY <1>1, <1>2, <1>3 DEF ListInv

LEMMA ListedIs == UNCHANGED <<have, mode>> => UNCHANGED Listed
  BY DEF Listed

-----------------------------------------------------------------------------

LEMMA SelectStep ==
    ASSUME EnrollInv, NEW a \in Slots, Select(a)
    PROVE  EnrollInv'
<1>1. /\ ~done /\ ~asking /\ asks[a] = Free
      /\ UNCHANGED <<have, mode, admin, list, done, asking, menu, listMixed>>
      /\ mixed' = (Pending(SampleAsks) # {})
  BY DEF Select, Uncovered, server, modals
<1>2. PICK e \in People : sel' = e /\ Ask(a, "status", e, NoOne)
  BY DEF Select
<1>3. /\ Put(a, asks'[a]) /\ AsksOK' /\ asks'[a].kind = "status" /\ asks'[a].emp = e
      /\ asks'[a].step = "asked" /\ asks[a].kind = "free"
  BY <1>1, <1>2, AskPuts DEF EnrollInv, EnrollTypeOK, AskKinds, Free
<1>4. EnrollTypeOK'
  BY <1>1, <1>2, <1>3 DEF EnrollInv, EnrollTypeOK
<1>5. Pending(SampleAsks) = Of(SampleAsks)
  BY PendingIs DEF EnrollInv, EnrollTypeOK, SampleAsks
<1>6. ~mixed' => Of(SampleAsks)' = {a} /\ Of({"photo", "enroll"})' = {}
  BY <1>1, <1>3, <1>5 DEF Of, Put, SampleAsks
<1>7. SampleInv'
  BY <1>1, <1>2, <1>3, <1>6, PeopleAssumption DEF SampleInv
<1>8. ListInv'
  BY <1>1, <1>3, ListRests, ListedIs DEF EnrollInv, Put
<1> QED
  BY <1>4, <1>7, <1>8 DEF EnrollInv

LEMMA SearchStep ==
    ASSUME EnrollInv, NEW a \in Slots, Search(a)
    PROVE  EnrollInv'
<1>1. /\ asks[a] = Free /\ admin /\ Ask(a, "list", NoOne, NoOne)
      /\ UNCHANGED <<have, mode, sel, enr, mixed, busy, admin, list, done, asking, menu>>
      /\ listMixed' = (Pending({"list", "mode", "reset"}) # {})
  BY DEF Search, server, modals
<1>2. /\ Put(a, asks'[a]) /\ AsksOK' /\ asks'[a].kind = "list"
      /\ asks'[a].step = "asked" /\ asks[a].kind = "free"
  BY <1>1, AskPuts DEF EnrollInv, EnrollTypeOK, AskKinds, SampleAsks, Free
<1>3. EnrollTypeOK'
  BY <1>1, <1>2 DEF EnrollInv, EnrollTypeOK
<1>4. SampleInv'
  BY <1>1, <1>2, SamplesRest DEF EnrollInv, Put, SampleAsks
<1>5. Pending({"list", "mode", "reset"}) = Of({"list", "mode", "reset"})
  BY PendingIs DEF EnrollInv, EnrollTypeOK
<1>6. ~listMixed' => /\ Of({"list", "mode"})' = {a} /\ Of({"mode"})' = {} /\ Of({"list"})' = {a}
                     /\ Of({"reset"})' = {}
  <2>1. ~listMixed' => \A b \in Slots : asks[b].kind \notin {"list", "mode", "reset"}
    BY <1>1, <1>5 DEF Of
  <2> QED
    BY <1>2, <2>1 DEF Of, Put
<1>7. ListInv'
  <2>0. admin'
    BY <1>1, Zenon
  <2>1. CASE listMixed'
    BY <2>0, <2>1 DEF ListInv
  <2>2. CASE ~listMixed'
    <3>1. asks'[a].step # "served"
      BY <1>2
    <3> QED
      BY <2>0, <1>6, <2>2, <3>1 DEF ListInv
  <2> QED
    BY <2>1, <2>2
<1> QED
  BY <1>3, <1>4, <1>7 DEF EnrollInv

\* A request about samples, of the employee selected, while no notice is shown.
LEMMA SampleAsked ==
    ASSUME EnrollInv, NEW a \in Slots, asks[a] = Free, NEW kind \in {"photo", "reset"}, NEW arg,
           Ask(a, kind, sel, arg), sel # NoOne,
           UNCHANGED <<have, sel, enr, done, asking>>, busy',
           mixed' = (mixed \/ Pending(SampleAsks) # {}),
           kind = "photo" => ~asking /\ ~done,
           kind = "reset" => asking
    PROVE  /\ AsksOK' /\ SampleInv' /\ Put(a, asks'[a])
           /\ asks[a].kind = "free" /\ asks'[a].kind = kind
<1>1. /\ Put(a, asks'[a]) /\ AsksOK' /\ asks'[a].kind = kind /\ asks'[a].emp = sel
      /\ asks'[a].step = "asked" /\ asks[a].kind = "free"
  BY AskPuts DEF EnrollInv, EnrollTypeOK, AskKinds, SampleAsks, Free
<1>2. Pending(SampleAsks) = Of(SampleAsks)
  BY PendingIs DEF EnrollInv, EnrollTypeOK, SampleAsks
<1>3. ~mixed' => ~mixed /\ Of(SampleAsks) = {} /\ Of(SampleAsks)' = {a}
  BY <1>1, <1>2 DEF Of, Put, SampleAsks
<1>4. ~mixed' => ~done' /\ Shown'
  BY <1>3 DEF EnrollInv, SampleInv, Shown
<1>5. ~mixed' /\ asking' => Of({"photo", "enroll"})' = {}
  <2>1. ASSUME ~mixed', kind = "reset"
        PROVE  Of({"photo", "enroll"})' = {}
    BY <1>1, <1>3, <2>1 DEF Of, Put, SampleAsks
  <2> QED
    BY <2>1
<1>6. sel' # NoOne
  OBVIOUS
<1>7. SampleInv'
  BY <1>1, <1>3, <1>4, <1>5, <1>6 DEF SampleInv
<1> QED
  BY <1>1, <1>7

LEMMA CaptureStep ==
    ASSUME EnrollInv, NEW a \in Slots, Capture(a)
    PROVE  EnrollInv'
<1>1. /\ ~done /\ ~asking /\ asks[a] = Free /\ sel # NoOne /\ busy'
      /\ UNCHANGED <<have, mode, sel, enr, admin, list, done, asking, menu, listMixed>>
      /\ mixed' = (mixed \/ Pending(SampleAsks) # {})
      /\ \E arg : Ask(a, "photo", sel, arg)
  BY DEF Capture, Uncovered, server, modals
<1>2. /\ AsksOK' /\ SampleInv' /\ Put(a, asks'[a])
      /\ asks[a].kind = "free" /\ asks'[a].kind = "photo"
  BY <1>1, SampleAsked
<1>3. EnrollTypeOK'
  BY <1>1, <1>2 DEF EnrollInv, EnrollTypeOK
<1>4. ListInv'
  BY <1>1, <1>2, ListRests, ListedIs DEF EnrollInv, Put
<1> QED
  BY <1>2, <1>3, <1>4 DEF EnrollInv

LEMMA ResetStep ==
    ASSUME EnrollInv, NEW a \in Slots, Reset(a)
    PROVE  EnrollInv'
<1>1. /\ asking /\ sel # NoOne /\ asks[a] = Free /\ busy' /\ listMixed'
      /\ UNCHANGED <<have, mode, sel, enr, admin, list, done, asking, menu>>
      /\ mixed' = (mixed \/ Pending(SampleAsks) # {})
      /\ Ask(a, "reset", sel, NoOne)
  BY DEF Reset, server, modals, EnrollInv, EnrollTypeOK
<1>2. /\ AsksOK' /\ SampleInv' /\ Put(a, asks'[a])
      /\ asks[a].kind = "free" /\ asks'[a].kind = "reset"
  BY <1>1, SampleAsked
<1>3. EnrollTypeOK'
  BY <1>1, <1>2 DEF EnrollInv, EnrollTypeOK
<1>4. Of({"list", "mode"})' = Of({"list", "mode"})
  BY <1>2 DEF Of, Put
<1>5. ListInv'
  BY <1>1, <1>4 DEF EnrollInv, ListInv
<1> QED
  BY <1>2, <1>3, <1>5 DEF EnrollInv

LEMMA SetModeStep ==
    ASSUME EnrollInv, NEW a \in Slots, SetMode(a)
    PROVE  EnrollInv'
<1>1. /\ menu # NoOne /\ menu' = NoOne
      /\ UNCHANGED <<have, mode, sel, enr, mixed, busy, admin, list, done, asking>>
      /\ UNCHANGED Listed
  BY ListedIs DEF SetMode, server
<1>2. CASE UNCHANGED <<asks, modeBusy, listMixed>>
  <2>1. EnrollTypeOK'
    BY <1>1, <1>2 DEF EnrollInv, EnrollTypeOK, AsksOK
  <2>2. SampleInv'
    BY <1>1, <1>2, SamplesRest DEF EnrollInv
  <2>3. ListInv'
    BY <1>1, <1>2, ListRests DEF EnrollInv
  <2> QED
    BY <2>1, <2>2, <2>3 DEF EnrollInv
<1>3. CASE /\ \E m \in Modes : m # menu.mode /\ Ask(a, "mode", menu.emp, m)
           /\ asks[a] = Free
           /\ listMixed' = (listMixed \/ Pending({"list", "mode"}) # {})
  <2>1. /\ Put(a, asks'[a]) /\ AsksOK' /\ asks'[a].kind = "mode"
        /\ asks'[a].step = "asked" /\ asks[a].kind = "free"
    BY <1>1, <1>3, AskPuts DEF EnrollInv, EnrollTypeOK, AskKinds, Free
  <2>2. EnrollTypeOK'
    BY <1>1, <2>1 DEF EnrollInv, EnrollTypeOK
  <2>3. SampleInv'
    BY <1>1, <2>1, SamplesRest DEF EnrollInv, Put, SampleAsks
  <2>4. Pending({"list", "mode"}) = Of({"list", "mode"})
    BY PendingIs DEF EnrollInv, EnrollTypeOK
  <2>5. ~listMixed' => /\ ~listMixed /\ Of({"list", "mode"}) = {}
                       /\ Of({"list", "mode"})' = {a} /\ Of({"mode"})' = {a} /\ Of({"list"})' = {}
                       /\ Of({"reset"})' = Of({"reset"}) /\ Of({"enroll"})' = Of({"enroll"})
    BY <1>3, <2>1, <2>4 DEF Of, Put
  <2>6. admin
    BY <1>1 DEF EnrollInv, ListInv
  <2>7. ListInv'
    BY <1>1, <2>1, <2>5, <2>6 DEF EnrollInv, ListInv
  <2> QED
    BY <2>2, <2>3, <2>7 DEF EnrollInv
<1> QED
  BY <1>2, <1>3 DEF SetMode

\* Steps of the screen with its modals and pose chips.
LEMMA ModalStep ==
    ASSUME EnrollInv, PickPose \/ AskReset \/ OpenMenu \/ CloseModal
    PROVE  EnrollInv'
<1>1. UNCHANGED <<have, mode, sel, enr, mixed, busy, admin, list, asks, listMixed>>
  BY DEF PickPose, AskReset, OpenMenu, CloseModal, server, modals
<1>2. UNCHANGED Listed
  BY <1>1, ListedIs
<1>3. AsksOK'
  BY <1>1 DEF EnrollInv, EnrollTypeOK, AsksOK
<1>4. CASE PickPose \/ CloseModal
  <2>1. /\ done' => done
        /\ asking' => asking
        /\ menu' = menu \/ menu' = NoOne
    <3>1. CASE PickPose
      BY <3>1 DEF PickPose, modals
    <3>2. CASE CloseModal
      BY <3>2 DEF CloseModal
    <3> QED
      BY <1>4, <3>1, <3>2
  <2>2. EnrollTypeOK'
    BY <1>1, <1>3, <2>1 DEF EnrollInv, EnrollTypeOK
  <2> QED
    BY <1>1, <1>2, <2>1, <2>2, SamplesRest, ListRests DEF EnrollInv
<1>5. CASE AskReset
  <2>1. ~done' /\ ~busy /\ sel # NoOne /\ UNCHANGED menu
    BY <1>5 DEF AskReset, Uncovered
  <2>2. EnrollTypeOK'
    BY <1>1, <1>3, <2>1 DEF EnrollInv, EnrollTypeOK
  <2>3. ~mixed => Of({"photo", "enroll"}) = {}
    BY <2>1 DEF EnrollInv, SampleInv, Of, SampleAsks
  <2>4. UNCHANGED <<Of(SampleAsks), Of({"photo", "enroll"}), Shown>>
    BY <1>1 DEF Of, Shown
  <2>5. SampleInv'
    BY <1>1, <2>1, <2>3, <2>4 DEF EnrollInv, SampleInv
  <2>6. ListInv'
    BY <1>1, <1>2, <2>1, ListRests DEF EnrollInv
  <2> QED
    BY <2>2, <2>5, <2>6 DEF EnrollInv
<1>6. CASE OpenMenu
  <2>1. /\ admin /\ list # NoOne /\ UNCHANGED <<done, asking>>
        /\ menu'.emp \in People
    BY <1>6 DEF OpenMenu
  <2>2. EnrollTypeOK'
    BY <1>1, <1>3, <2>1 DEF EnrollInv, EnrollTypeOK
  <2>3. SampleInv'
    BY <1>1, <2>1, SamplesRest DEF EnrollInv
  <2>4. \A K : UNCHANGED Of(K)
    BY <1>1 DEF Of
  <2>5. ListInv'
    BY <1>1, <1>2, <2>1, <2>4 DEF EnrollInv, ListInv
  <2> QED
    BY <2>2, <2>3, <2>5 DEF EnrollInv
<1> QED
  BY <1>4, <1>5, <1>6

LEMMA PhotoStep ==
    ASSUME EnrollInv, NEW a \in Slots, Photo(a)
    PROVE  EnrollInv'
<1>1. /\ asks[a].kind = "photo"
      /\ UNCHANGED <<have, mode, admin, list, sel, enr, done, asking, menu, mixed, listMixed>>
  BY DEF Photo, server, modals
<1>2. CASE asks' = [asks EXCEPT ![a].kind = "enroll"] /\ UNCHANGED busy
  <2> DEFINE q == [asks[a] EXCEPT !.kind = "enroll"]
  <2>1. /\ DOMAIN q = AskFields /\ q.kind = "enroll" /\ q.emp = asks[a].emp
        /\ q.step = asks[a].step /\ q.got = asks[a].got
    BY DEF EnrollInv, EnrollTypeOK, AsksOK, AskFields
  <2>2. asks' = [asks EXCEPT ![a] = q]
    BY <1>2
  <2> HIDE DEF q
  <2>3. Put(a, q)
    BY <2>2 DEF EnrollInv, EnrollTypeOK, AsksOK, Put
  <2>4. AsksOK'
    BY <1>1, <2>1, <2>3 DEF EnrollInv, EnrollTypeOK, AsksOK, Put, AskKinds, SampleAsks
  <2>5. EnrollTypeOK'
    BY <1>1, <2>4 DEF EnrollInv, EnrollTypeOK
  <2>6. UNCHANGED <<Of(SampleAsks), Of({"photo", "enroll"}), Shown>> /\ a \in Of(SampleAsks)
    BY <1>1, <2>1, <2>3 DEF Of, Put, SampleAsks, Shown
  <2>7. SampleInv'
    BY <1>1, <1>2, <2>1, <2>3, <2>6 DEF EnrollInv, SampleInv, Put, Of
  <2>8. /\ UNCHANGED <<Of({"list", "mode"}), Of({"reset"})>>
        /\ Of({"enroll"})' # {}
    BY <1>1, <2>1, <2>3 DEF Of, Put
  <2>9. ListInv'
    BY <1>1, <2>8 DEF EnrollInv, ListInv
  <2> QED
    BY <2>5, <2>7, <2>9 DEF EnrollInv
<1>3. CASE asks' = [asks EXCEPT ![a] = Free] /\ busy' = FALSE
  <2>1. Put(a, Free) /\ AsksOK' /\ Free.kind = "free"
    BY <1>3, FreePuts DEF EnrollInv, EnrollTypeOK, Free
  <2>2. EnrollTypeOK'
    BY <1>1, <2>1 DEF EnrollInv, EnrollTypeOK
  <2>3. a \in Of({"photo", "enroll"}) /\ a \in Of(SampleAsks)
    BY <1>1 DEF Of, SampleAsks
  <2>4. Of(SampleAsks)' = Of(SampleAsks) \ {a}
    BY <2>1 DEF Of, Put, SampleAsks
  <2>5. ~mixed => Of(SampleAsks)' = {} /\ ~asking /\ ~done
    BY <2>3, <2>4 DEF EnrollInv, SampleInv
  <2>6. ~mixed => sel = NoOne \/ Shown'
    <3>0. asks[a].step # "served" /\ asks[a].kind # "status"
      BY <1>1 DEF EnrollInv, EnrollTypeOK, AsksOK
    <3>1. ~mixed => Shown
      BY <2>3, <3>0 DEF EnrollInv, SampleInv
    <3> QED
      BY <1>1, <3>1 DEF Shown
  <2>7. SampleInv'
    BY <1>1, <2>4, <2>5, <2>6 DEF EnrollInv, SampleInv
  <2>8. ListInv'
    BY <1>1, <2>1, ListRests, ListedIs DEF EnrollInv, Put
  <2> QED
    BY <2>2, <2>7, <2>8 DEF EnrollInv
<1> QED
  BY <1>2, <1>3 DEF Photo

-----------------------------------------------------------------------------

LEMMA ServePuts ==
    ASSUME AsksOK, NEW a \in Slots, NEW g, asks[a].step = "asked", asks[a].kind # "photo",
           asks' = [asks EXCEPT ![a].step = "served", ![a].got = g]
    PROVE  /\ AsksOK' /\ Put(a, asks'[a])
           /\ asks'[a].kind = asks[a].kind /\ asks'[a].emp = asks[a].emp
           /\ asks'[a].step = "served" /\ asks'[a].got = g
           /\ asks[a].kind # "free"
<1> DEFINE q == [asks[a] EXCEPT !.step = "served", !.got = g]
<1>1. asks' = [asks EXCEPT ![a] = q]
  BY DEF AsksOK
<1>2. /\ DOMAIN q = AskFields /\ q.kind = asks[a].kind /\ q.emp = asks[a].emp
      /\ q.step = "served" /\ q.got = g
  BY DEF AsksOK, AskFields
<1>3. asks[a].kind # "free"
  BY DEF AsksOK, Free
<1> HIDE DEF q
<1>4. Put(a, q) /\ asks'[a] = q
  BY <1>1 DEF AsksOK, Put
<1> QED
  BY <1>2, <1>3, <1>4 DEF AsksOK, Put

LEMMA ServeStep ==
    ASSUME EnrollInv, NEW a \in Slots, ServeAsk(a)
    PROVE  EnrollInv'
<1> DEFINE q   == asks[a]
           Now == CASE q.kind = "enroll" -> [have EXCEPT ![q.emp] = @ \cup {q.arg.pose}]
                    [] q.kind = "reset"  -> [have EXCEPT ![q.emp] = {}]
                    [] OTHER             -> have
           g   == IF q.kind = "list" THEN Listed
                  ELSE IF q.kind = "mode" THEN q.arg
                  ELSE Now[q.emp]
<1>1. /\ q.step = "asked" /\ q.kind # "photo"
      /\ have' = Now
      /\ mode' = IF q.kind = "mode" THEN [mode EXCEPT ![q.emp] = q.arg] ELSE mode
      /\ UNCHANGED <<admin, list, sel, enr, busy, done, asking, menu, mixed, listMixed>>
      /\ asks' = [asks EXCEPT ![a].step = "served", ![a].got = g]
  BY DEF ServeAsk, modals
<1>2. /\ AsksOK' /\ Put(a, asks'[a])
      /\ asks'[a].kind = q.kind /\ asks'[a].emp = q.emp
      /\ asks'[a].step = "served" /\ asks'[a].got = g
      /\ q.kind # "free"
  <2> HIDE DEF g
  <2> QED
    BY <1>1, ServePuts DEF EnrollInv, EnrollTypeOK
<1>3. \A K : UNCHANGED Of(K)
  BY <1>2 DEF Of, Put
<1>4. DOMAIN have' = People /\ DOMAIN mode' = People
  BY <1>1 DEF EnrollInv, EnrollTypeOK
<1>5. EnrollTypeOK'
  BY <1>1, <1>2, <1>4 DEF EnrollInv, EnrollTypeOK
<1>6. CASE q.kind \in SampleAsks
  <2>1. a \in Of(SampleAsks) /\ g = have'[q.emp] /\ UNCHANGED mode
    BY <1>1, <1>6 DEF Of, SampleAsks
  <2> HIDE DEF g, Now
  <2>2. ~mixed => /\ Of(SampleAsks) = {a} /\ q.emp = sel /\ ~done
                  /\ q.kind # "status" => busy
    BY <2>1 DEF EnrollInv, SampleInv
  <2>3. SampleInv'
    BY <1>1, <1>2, <1>3, <2>1, <2>2 DEF EnrollInv, SampleInv
  <2>4. CASE q.kind = "status"
    <3>1. UNCHANGED Listed
      BY <1>1, <2>1, <2>4, ListedIs DEF Now
    <3>2. ListInv'
      BY <1>1, <1>2, <2>4, <3>1, ListRests DEF EnrollInv, Put
    <3> QED
      BY <1>5, <2>3, <3>2 DEF EnrollInv
  <2>5. CASE q.kind # "status"
    <3>1. Of({"reset"}) # {} \/ Of({"enroll"}) # {}
      BY <1>1, <1>6, <2>5 DEF Of, SampleAsks
    <3>2. ListInv'
      BY <1>1, <1>3, <3>1 DEF EnrollInv, ListInv
    <3> QED
      BY <1>5, <2>3, <3>2 DEF EnrollInv
  <2> QED
    BY <2>4, <2>5
<1>7. CASE q.kind = "list"
  <2>1. UNCHANGED <<have, mode>> /\ g = Listed
    BY <1>1, <1>7
  <2> HIDE DEF g, Now
  <2>2. SampleInv'
    BY <1>1, <1>2, <1>7, <2>1, SamplesRest DEF EnrollInv, Put, SampleAsks
  <2>3. UNCHANGED Listed
    BY <2>1, ListedIs
  <2>4. a \in Of({"list"}) /\ a \in Of({"list", "mode"})
    BY <1>7 DEF Of
  <2>5. ~listMixed => Of({"list"}) = {a} /\ Of({"mode"}) = {}
    BY <1>7, <2>4 DEF EnrollInv, ListInv, Of
  <2>6. ListInv'
    BY <1>1, <1>2, <1>3, <2>1, <2>3, <2>4, <2>5 DEF EnrollInv, ListInv
  <2> QED
    BY <1>5, <2>2, <2>6 DEF EnrollInv
<1>8. CASE q.kind = "mode"
  <2>1. /\ UNCHANGED have /\ mode' = [mode EXCEPT ![q.emp] = q.arg] /\ g = q.arg
        /\ q.emp \in People
    BY <1>1, <1>8 DEF EnrollInv, EnrollTypeOK, AsksOK
  <2> HIDE DEF g, Now
  <2>2. SampleInv'
    BY <1>1, <1>2, <1>8, <2>1, SamplesRest DEF EnrollInv, Put, SampleAsks
  <2>3. Listed' = [Listed EXCEPT ![q.emp].mode = g]
    BY <2>1 DEF Listed, EnrollInv, EnrollTypeOK
  <2>4. a \in Of({"mode"}) /\ a \in Of({"list", "mode"})
    BY <1>8 DEF Of
  <2>5. ~listMixed => Of({"mode"}) = {a} /\ Of({"list"}) = {}
    BY <1>8, <2>4 DEF EnrollInv, ListInv, Of
  <2>6. ~listMixed /\ Of({"enroll"}) = {} => list = Listed
    BY <1>1, <2>4 DEF EnrollInv, ListInv
  <2>7. ~listMixed /\ Of({"enroll"}) = {} =>
            [list EXCEPT ![asks'[a].emp].mode = asks'[a].got] = Listed'
    BY <1>2, <2>3, <2>6
  <2>8. ListInv'
    BY <1>1, <1>2, <1>3, <2>4, <2>5, <2>7 DEF EnrollInv, ListInv
  <2> QED
    BY <1>5, <2>2, <2>8 DEF EnrollInv
<1> QED
  BY <1>2, <1>6, <1>7, <1>8 DEF EnrollInv, EnrollTypeOK, AsksOK, AskKinds, SampleAsks

-----------------------------------------------------------------------------

LEMMA EnrollAnsweredStep ==
    ASSUME EnrollInv, NEW a \in Slots, EnrollAnswered(a)
    PROVE  EnrollInv'
<1> DEFINE q == asks[a]
<1>1. /\ q.kind = "enroll" /\ q.step = "served"
      /\ enr' = [emp |-> q.emp, have |-> q.got]
      /\ done' = (done \/ (Complete(q.got) /\ ~q.arg.was))
      /\ UNCHANGED <<have, mode, admin, list, sel, asking, menu, mixed>>
      /\ listMixed' = (listMixed \/ Pending({"list", "mode"}) # {})
  BY DEF EnrollAnswered, ApplyEnrollment, server
<1>2. /\ AsksOK' /\ Put(a, asks'[a])
      /\ admin => asks'[a].kind = "list" /\ asks'[a].step = "asked"
      /\ ~admin => asks'[a].kind = "free"
  <2>1. CASE admin
    <3>1. Ask(a, "list", NoOne, NoOne)
      BY <2>1 DEF EnrollAnswered
    <3> QED
      BY <2>1, <3>1, AskPuts DEF EnrollInv, EnrollTypeOK, AskKinds, SampleAsks
  <2>2. CASE ~admin
    <3>1. asks' = [asks EXCEPT ![a] = Free]
      BY <2>2 DEF EnrollAnswered
    <3>2. AsksOK' /\ Put(a, Free) /\ Free.kind = "free"
      BY <3>1, FreePuts DEF EnrollInv, EnrollTypeOK, Free
    <3> QED
      BY <2>2, <3>2 DEF Put
  <2> QED
    BY <2>1, <2>2
<1>3. EnrollTypeOK'
  BY <1>1, <1>2 DEF EnrollInv, EnrollTypeOK
<1>4. a \in Of(SampleAsks) /\ a \in Of({"photo", "enroll"}) /\ Of(SampleAsks)' = Of(SampleAsks) \ {a}
  BY <1>1, <1>2 DEF Of, Put, SampleAsks
<1>5. ~mixed => /\ Of(SampleAsks)' = {} /\ ~asking /\ ~done
                /\ q.emp = sel /\ q.got = have[sel]
  BY <1>1, <1>4 DEF EnrollInv, SampleInv
<1>6. ~mixed => Shown' /\ (done' => Complete(have[sel]))
  BY <1>1, <1>5 DEF Shown
<1>7. SampleInv'
  BY <1>1, <1>4, <1>5, <1>6 DEF EnrollInv, SampleInv, Complete
<1>8. Pending({"list", "mode"}) = Of({"list", "mode"})
  BY PendingIs DEF EnrollInv, EnrollTypeOK
<1>9. ~listMixed' => /\ ~listMixed
                     /\ \A b \in Slots : asks[b].kind \notin {"list", "mode"}
  BY <1>1, <1>8 DEF Of
<1>10. Of({"reset"})' = Of({"reset"})
  BY <1>1, <1>2 DEF Of, Put
<1>11. CASE admin
  <2>1. ~listMixed' => Of({"list", "mode"})' = {a} /\ Of({"mode"})' = {} /\ Of({"list"})' = {a}
    BY <1>2, <1>9, <1>11 DEF Of, Put
  <2>2. asks'[a].step # "served"
    BY <1>2, <1>11
  <2>3. ListInv'
    BY <1>1, <1>9, <1>10, <1>11, <2>1, <2>2 DEF EnrollInv, ListInv
  <2> QED
    BY <1>3, <1>7, <2>3 DEF EnrollInv
<1>12. CASE ~admin
  <2>1. Of({"list", "mode"}) = {} /\ list = NoOne /\ menu = NoOne
    BY <1>12 DEF EnrollInv, ListInv
  <2>2. Of({"list", "mode"})' = {} /\ Of({"list"})' = {} /\ Of({"mode"})' = {}
    BY <1>2, <1>12, <2>1 DEF Of, Put
  <2>3. ListInv'
    BY <1>1, <1>9, <1>10, <2>1, <2>2 DEF EnrollInv, ListInv
  <2> QED
    BY <1>3, <1>7, <2>3 DEF EnrollInv
<1> QED
  BY <1>11, <1>12

LEMMA StatusAnsweredStep ==
    ASSUME EnrollInv, NEW a \in Slots, StatusAnswered(a)
    PROVE  EnrollInv'
<1> DEFINE q == asks[a]
<1>1. /\ q.kind \in {"status", "reset"} /\ q.step = "served"
      /\ enr' = [emp |-> q.emp, have |-> q.got]
      /\ asking' => asking
      /\ asks' = [asks EXCEPT ![a] = Free]
      /\ UNCHANGED <<have, mode, admin, list, sel, done, menu, mixed, listMixed>>
  BY DEF StatusAnswered, ApplyEnrollment, server
<1>2. AsksOK' /\ Put(a, Free) /\ Free.kind = "free"
  BY <1>1, FreePuts DEF EnrollInv, EnrollTypeOK, Free
<1>3. EnrollTypeOK'
  BY <1>1, <1>2 DEF EnrollInv, EnrollTypeOK
<1>4. /\ a \in Of(SampleAsks) /\ Of(SampleAsks)' = Of(SampleAsks) \ {a}
      /\ Of({"photo", "enroll"})' = Of({"photo", "enroll"})
  BY <1>1, <1>2 DEF Of, Put, SampleAsks
<1>5. ~mixed => Of(SampleAsks)' = {} /\ ~done /\ q.emp = sel /\ q.got = have[sel]
  BY <1>1, <1>4 DEF EnrollInv, SampleInv
<1>6. ~mixed => Shown'
  BY <1>1, <1>5 DEF Shown
<1>7. SampleInv'
  BY <1>1, <1>4, <1>5, <1>6 DEF EnrollInv, SampleInv
<1>8. CASE q.kind = "status"
  <2>1. ListInv'
    BY <1>1, <1>2, <1>8, ListRests, ListedIs DEF EnrollInv, Put
  <2> QED
    BY <1>3, <1>7, <2>1 DEF EnrollInv
<1>9. CASE q.kind = "reset"
  <2>1. a \in Of({"reset"}) /\ Of({"list", "mode"})' = Of({"list", "mode"})
    BY <1>2, <1>9 DEF Of, Put
  <2>2. ListInv'
    BY <1>1, <2>1 DEF EnrollInv, ListInv
  <2> QED
    BY <1>3, <1>7, <2>2 DEF EnrollInv
<1> QED
  BY <1>1, <1>8, <1>9

LEMMA RowAnsweredStep ==
    ASSUME EnrollInv, NEW a \in Slots, ListAnswered(a) \/ ModeAnswered(a)
    PROVE  EnrollInv'
<1> DEFINE q == asks[a]
<1>1. /\ q.kind \in {"list", "mode"} /\ q.step = "served"
      /\ asks' = [asks EXCEPT ![a] = Free]
      /\ UNCHANGED <<have, mode, admin, sel, enr, busy, done, asking, menu, mixed, listMixed>>
      /\ list' = IF q.kind = "list" THEN q.got ELSE [list EXCEPT ![q.emp].mode = q.got]
  <2>1. CASE ListAnswered(a)
    BY <2>1 DEF ListAnswered, server, modals
  <2>2. CASE ModeAnswered(a)
    BY <2>2 DEF ModeAnswered, server, modals
  <2> QED
    BY <2>1, <2>2
<1>2. AsksOK' /\ Put(a, Free) /\ Free.kind = "free"
  BY <1>1, FreePuts DEF EnrollInv, EnrollTypeOK, Free
<1>3. EnrollTypeOK'
  BY <1>1, <1>2 DEF EnrollInv, EnrollTypeOK
<1>4. SampleInv'
  BY <1>1, <1>2, SamplesRest DEF EnrollInv, Put, SampleAsks
<1>5. /\ a \in Of({"list", "mode"}) /\ Of({"list", "mode"})' = Of({"list", "mode"}) \ {a}
      /\ Of({"reset"})' = Of({"reset"}) /\ Of({"enroll"})' = Of({"enroll"})
      /\ Of({"list"})' \cup Of({"mode"})' = Of({"list", "mode"})'
  BY <1>1, <1>2 DEF Of, Put
<1>6. admin
  BY <1>5 DEF EnrollInv, ListInv
<1>7. ~listMixed => Of({"list", "mode"})' = {} /\ Of({"list"})' = {} /\ Of({"mode"})' = {}
  BY <1>5 DEF EnrollInv, ListInv
<1>8. UNCHANGED Listed
  BY <1>1, ListedIs
<1>9. ~listMixed /\ Of({"enroll"}) = {} => list' = Listed
  <2>1. CASE q.kind = "list"
    <3>1. a \in Of({"list"})
      BY <2>1 DEF Of
    <3> QED
      BY <1>1, <2>1, <3>1 DEF EnrollInv, ListInv
  <2>2. CASE q.kind = "mode"
    <3>1. a \in Of({"mode"})
      BY <2>2 DEF Of
    <3> QED
      BY <1>1, <2>2, <3>1 DEF EnrollInv, ListInv
  <2> QED
    BY <1>1, <2>1, <2>2
<1>10. ListInv'
  BY <1>1, <1>5, <1>6, <1>7, <1>8, <1>9 DEF EnrollInv, ListInv
<1> QED
  BY <1>3, <1>4, <1>10 DEF EnrollInv

LEMMA AskFailsStep ==
    ASSUME EnrollInv, NEW a \in Slots, AskFails(a)
    PROVE  EnrollInv'
<1> DEFINE q == asks[a]
<1>1. /\ q # Free /\ q.kind # "photo"
      /\ asks' = [asks EXCEPT ![a] = Free]
      /\ busy' = (busy /\ q.kind \notin {"enroll", "reset"})
      /\ asking' = (asking /\ q.kind # "reset")
      /\ mixed' = (mixed \/ q.kind \in {"status", "enroll", "reset"})
      /\ listMixed' = (listMixed \/ q.kind \in {"list", "mode", "enroll"})
      /\ UNCHANGED <<have, mode, admin, list, sel, enr, done, menu>>
  BY DEF AskFails, server
<1>2. AsksOK' /\ Put(a, Free) /\ Free.kind = "free"
  BY <1>1, FreePuts DEF EnrollInv, EnrollTypeOK, Free
<1>3. EnrollTypeOK'
  BY <1>1, <1>2 DEF EnrollInv, EnrollTypeOK
<1>4. \A K : "free" \notin K => Of(K)' \subseteq Of(K)
  BY <1>2 DEF Of, Put
<1>5. CASE q.kind \in {"status", "enroll", "reset"}
  <2>1. mixed'
    BY <1>1, <1>5
  <2>2. SampleInv'
    BY <1>1, <1>4, <2>1 DEF EnrollInv, SampleInv, SampleAsks
  <2>3. CASE q.kind = "status"
    <3>1. listMixed => listMixed'
      BY <1>1, <2>3
    <3>2. ListInv'
      BY <1>1, <1>2, <2>3, <3>1, ListRests, ListedIs DEF EnrollInv, Put
    <3> QED
      BY <1>3, <2>2, <3>2 DEF EnrollInv
  <2>4. CASE q.kind # "status"
    <3>1. listMixed'
      <4>1. q.kind = "reset" => a \in Of({"reset"})
        BY DEF Of
      <4> QED
        BY <1>1, <1>5, <2>4, <4>1 DEF EnrollInv, ListInv
    <3>2. ListInv'
      BY <1>1, <1>4, <3>1 DEF EnrollInv, ListInv
    <3> QED
      BY <1>3, <2>2, <3>2 DEF EnrollInv
  <2> QED
    BY <2>3, <2>4
<1>6. CASE q.kind \in {"list", "mode"}
  <2>1. (mixed => mixed') /\ (busy => busy') /\ (asking' => asking) /\ listMixed'
    BY <1>1, <1>6
  <2>2. SampleInv'
    BY <1>1, <1>2, <1>6, <2>1, SamplesRest DEF EnrollInv, Put, SampleAsks
  <2>3. ListInv'
    BY <1>1, <1>4, <2>1 DEF EnrollInv, ListInv
  <2> QED
    BY <1>3, <2>2, <2>3 DEF EnrollInv
<1> QED
  BY <1>1, <1>5, <1>6 DEF EnrollInv, EnrollTypeOK, AsksOK, AskKinds

LEMMA EnrollInvStep ==
    ASSUME EnrollInv, [EnrollNext]_<<cameraVars, enrollVars>>
    PROVE  EnrollInv'
<1>1. CASE UNCHANGED enrollVars
  <2>1. /\ UNCHANGED <<have, mode, admin, list, sel, enr, busy, done, asking, menu, asks,
                       mixed, listMixed>>
    BY <1>1 DEF enrollVars, server, modals
  <2>2. EnrollTypeOK'
    BY <2>1 DEF EnrollInv, EnrollTypeOK, AsksOK
  <2>3. SampleInv' /\ ListInv'
    BY <2>1, SamplesRest, ListRests, ListedIs DEF EnrollInv
  <2> QED
    BY <2>2, <2>3 DEF EnrollInv
<1>2. CASE EnrollStep
  <2>1. ASSUME NEW a \in Slots,
               \/ Select(a) \/ Search(a) \/ Capture(a) \/ Photo(a) \/ Reset(a) \/ SetMode(a)
               \/ ServeAsk(a) \/ EnrollAnswered(a) \/ StatusAnswered(a)
               \/ ListAnswered(a) \/ ModeAnswered(a) \/ AskFails(a)
        PROVE  EnrollInv'
    BY <2>1, SelectStep, SearchStep, CaptureStep, PhotoStep, ResetStep, SetModeStep, ServeStep,
       EnrollAnsweredStep, StatusAnsweredStep, RowAnsweredStep, AskFailsStep
  <2> QED
    BY <1>2, <2>1, ModalStep DEF EnrollStep
<1> QED
  BY <1>1, <1>2 DEF EnrollNext

\* With nothing in flight, the banner, the pose chips, the notice of a complete
\* enrollment and the rows of the list are the server's, unless requests
\* overlapped or failed, or samples were reset, since (EnrollScreen
\* applyEnrollment, captureSample, resetSamples, setWorkingMode, load).
THEOREM EnrollIsTrueCorrect == EnrollSpec => []EnrollIsTrue
<1>1. EnrollInit => EnrollInv
  <2> SUFFICES ASSUME EnrollInit
               PROVE  EnrollInv
    OBVIOUS
  <2>1. PICK first \in Slots :
          asks = [a \in Slots |->
                   IF a # first THEN Free
                   ELSE [Free EXCEPT !.kind = IF admin THEN "list" ELSE "status",
                                     !.emp = sel, !.step = "asked"]]
    BY DEF EnrollInit
  <2>2. /\ ~done /\ ~asking /\ menu = NoOne /\ list = NoOne /\ ~mixed /\ ~listMixed
        /\ have \in [People -> {{}, Poses}] /\ mode = [e \in People |-> "onsite"]
        /\ admin \in BOOLEAN
        /\ admin => sel \in {NoOne}
        /\ ~admin => sel \in People
    BY DEF EnrollInit
  <2>3. /\ DOMAIN asks[first] = AskFields /\ asks[first].emp = sel /\ asks[first].step = "asked"
        /\ admin => asks[first].kind = "list"
        /\ ~admin => asks[first].kind = "status"
        /\ \A a \in Slots \ {first} : asks[a] = Free
        /\ DOMAIN asks = Slots
    BY <2>1 DEF Free, AskFields
  <2>4. DOMAIN Free = AskFields /\ Free.kind = "free"
    BY DEF Free, AskFields
  <2>5. EnrollTypeOK
    BY <2>2, <2>3, <2>4 DEF EnrollTypeOK, AsksOK, AskKinds, SampleAsks
  <2>6. \A K : "free" \notin K => Of(K) = IF asks[first].kind \in K THEN {first} ELSE {}
    BY <2>3, <2>4 DEF Of
  <2>7. SampleInv
    BY <2>2, <2>3, <2>6, PeopleAssumption DEF SampleInv, SampleAsks
  <2>8. ListInv
    BY <2>2, <2>3, <2>6 DEF ListInv
  <2> QED
    BY <2>5, <2>7, <2>8 DEF EnrollInv
<1>2. EnrollInv => EnrollIsTrue
  <2> SUFFICES ASSUME EnrollInv, InFlight = {}
               PROVE  SelectedIsTrue /\ (listMixed \/ list \in {NoOne, Listed})
    BY DEF EnrollIsTrue
  <2>1. \A K : "free" \notin K => Of(K) = {}
    BY DEF InFlight, Of, Free
  <2> QED
    BY <2>1 DEF EnrollInv, SampleInv, ListInv, SampleAsks, SelectedIsTrue, Shown
<1> QED
  BY <1>1, <1>2, EnrollInvStep, PTL DEF EnrollSpec
-----------------------------------------------------------------------------
(* The camera of the web kiosk. *)

PageFields == {"shown", "track", "feed", "step", "current", "queued", "opening", "busy",
               "peerHolds", "yielded", "takingOver", "heard", "retry"}

\* An open that may still attach a stream, one that waits for its turn, and a feed
\* belong to a panel that is shown; a stream is attached when its open is over.
PanelOK(p, holds) ==
    /\ DOMAIN p = PageFields
    /\ p.queued \in Nat
    /\ p.track = "live" <=> holds
    /\ p.track = "live" => p.shown /\ p.step = "idle"
    /\ p.current => p.shown
    /\ p.queued # 0 => p.shown
    /\ p.feed # "off" => p.shown

PanelInv ==
    /\ page = [w \in Windows |-> page[w]]
    /\ events \in Nat
    /\ \A w \in Windows : PanelOK(page[w], camera = w)

\* p turns into q without asking for the camera, if it has yielded it.
Calm(p, q) == p.yielded => q.queued <= p.queued /\ (p.step = "idle" => q.step # "open")

Rests == events' # events \/ \A w \in Windows : Calm(page[w], page'[w])

\* An open that ends gives way to one that was asked for while it ran.
LEMMA DoneOK ==
    ASSUME NEW p, DOMAIN p = PageFields, p.queued \in Nat, NEW holds \in BOOLEAN,
           p.track = "live" <=> holds, p.track = "live" => p.shown,
           p.queued # 0 => p.shown, p.feed # "off" => p.shown
    PROVE  /\ PanelOK(Done(p), holds)
           /\ Done(p).queued <= p.queued
<1> DEFINE q == [p EXCEPT !.step = "idle", !.current = FALSE, !.heard = FALSE,
                          !.opening = IF p.current THEN FALSE ELSE @]
<1>1. /\ DOMAIN q = PageFields /\ q.queued = p.queued /\ q.track = p.track
      /\ q.shown = p.shown /\ q.feed = p.feed /\ q.step = "idle" /\ ~q.current
  BY DEF PageFields
<1>2. Done(p) = IF p.queued = 0 THEN q
                ELSE IF Active(q) THEN [q EXCEPT !.queued = 0]
                ELSE Begin([q EXCEPT !.queued = @ - 1])
  BY DEF Done
<1> HIDE DEF q
<1>3. CASE p.queued = 0
  BY <1>1, <1>2, <1>3 DEF PanelOK
<1>4. CASE p.queued # 0 /\ Active(q)
  BY <1>1, <1>2, <1>4 DEF PanelOK, PageFields
<1>5. CASE p.queued # 0 /\ ~Active(q)
  BY <1>1, <1>2, <1>5 DEF PanelOK, PageFields, Active, Begin
<1> QED
  BY <1>3, <1>4, <1>5

LEMMA StartCamOK ==
    ASSUME NEW p, NEW holds \in BOOLEAN, PanelOK(p, holds), p.shown
    PROVE  PanelOK(StartCam(p), holds)
BY DEF PanelOK, PageFields, StartCam, Begin, Active

LEMMA CatchOK ==
    ASSUME NEW p, NEW holds \in BOOLEAN, PanelOK(p, holds), p.step # "idle"
    PROVE  PanelOK(Catch(p), holds) /\ Catch(p).queued <= p.queued
<1>1. CASE ~p.current
  BY <1>1, DoneOK DEF Catch, PanelOK
<1>2. CASE p.current /\ p.peerHolds
  <2> DEFINE q == [p EXCEPT !.busy = FALSE]
  <2>1. PanelOK(q, holds) /\ q.queued = p.queued /\ Catch(p) = Done(q)
    BY <1>2 DEF Catch, PanelOK, PageFields
  <2> HIDE DEF q
  <2> QED
    BY <2>1, DoneOK DEF PanelOK
<1>3. CASE p.current /\ ~p.peerHolds
  BY <1>3 DEF Catch, PanelOK, PageFields
<1> QED
  BY <1>1, <1>2, <1>3

\* A step that makes p of window w.
LEMMA OnePanel ==
    ASSUME PanelInv, NEW w \in Windows, NEW p, page' = [page EXCEPT ![w] = p],
           events' = events \/ events' = events + 1,
           PanelOK(p, camera' = w),
           \A v \in Windows \ {w} : camera' = v <=> camera = v,
           events' = events => Calm(page[w], p)
    PROVE  PanelInv' /\ Rests
<1>1. page' = [v \in Windows |-> IF v = w THEN p ELSE page[v]]
  BY DEF PanelInv
<1>2. page' = [v \in Windows |-> page'[v]] /\ events' \in Nat
  BY <1>1 DEF PanelInv
<1>3. ASSUME NEW v \in Windows
      PROVE  PanelOK(page'[v], camera' = v)
  <2>1. CASE v = w
    BY <1>1, <2>1
  <2>2. CASE v # w
    <3>1. page'[v] = page[v] /\ (camera' = v) = (camera = v)
      BY <1>1, <2>2
    <3> QED
      BY <3>1 DEF PanelInv
  <2> QED
    BY <2>1, <2>2
<1>4. \A v \in Windows \ {w} : page[v].queued \in Nat
  BY DEF PanelInv, PanelOK
<1>5. Rests
  BY <1>1, <1>4 DEF Rests, Calm, PanelInv
<1> QED
  BY <1>2, <1>3, <1>5 DEF PanelInv

LEMMA PanelSame ==
    ASSUME PanelInv, UNCHANGED page, events' = events \/ events' = events + 1,
           \A w \in Windows : camera' = w <=> camera = w
    PROVE  PanelInv' /\ Rests
<1>1. \A w \in Windows : (camera' = w) = (camera = w)
  OBVIOUS
<1>2. PanelInv'
  BY <1>1 DEF PanelInv
<1>3. \A w \in Windows : page[w].queued \in Nat
  BY DEF PanelInv, PanelOK
<1> QED
  BY <1>2, <1>3 DEF Rests, Calm

LEMMA UserStep ==
    ASSUME PanelInv, NEW w \in Windows, User(w)
    PROVE  PanelInv' /\ Rests
<1> DEFINE p == page[w]
<1>1. PanelOK(p, camera = w) /\ events \in Nat /\ w \notin {"none"}
  BY WindowsAssumption DEF PanelInv
<1>2. CASE Show(w)
  <2> DEFINE q == [p EXCEPT !.shown = TRUE]
  <2>1. PanelOK(q, camera = w) /\ q.shown
    BY <1>1 DEF PanelOK, PageFields
  <2>2. page' = [page EXCEPT ![w] = StartCam(q)] /\ camera' = camera /\ events' = events + 1
    BY <1>2 DEF Show, Event, PanelInv
  <2> HIDE DEF q
  <2>3. PanelOK(StartCam(q), camera' = w)
    BY <2>1, <2>2, StartCamOK
  <2>4. events' # events /\ \A v \in Windows \ {w} : camera' = v <=> camera = v
    BY <1>1, <2>2
  <2> QED
    BY <2>2, <2>3, <2>4, OnePanel
<1>3. CASE Hide(w)
  <2> DEFINE q == [Stop(p) EXCEPT !.shown = FALSE]
  <2>1. page' = [page EXCEPT ![w] = q] /\ events' = events
        /\ camera' = IF camera = w THEN "none" ELSE camera
    BY <1>3 DEF Hide, FreeCamera, PanelInv
  <2>2. PanelOK(q, FALSE) /\ Calm(p, q)
    BY <1>1 DEF PanelOK, PageFields, Stop, Calm
  <2>3. camera' # w /\ \A v \in Windows \ {w} : camera' = v <=> camera = v
    BY <2>1, WindowsAssumption
  <2>4. (camera' = w) = FALSE
    BY <2>3
  <2> HIDE DEF q
  <2> QED
    BY <2>1, <2>2, <2>3, <2>4, OnePanel
<1>4. CASE Tap(w)
  <2>1. page' = [page EXCEPT ![w] = StartCam(p)] /\ camera' = camera /\ events' = events + 1
    BY <1>4 DEF Tap, Event, PanelInv
  <2>2. PanelOK(StartCam(p), camera' = w)
    BY <1>1, <1>4, <2>1, StartCamOK DEF Tap
  <2>3. events' # events /\ \A v \in Windows \ {w} : camera' = v <=> camera = v
    BY <1>1, <2>1
  <2> QED
    BY <2>1, <2>2, <2>3, OnePanel
<1> QED
  BY <1>2, <1>3, <1>4 DEF User

\* An open that goes on, without the camera changing hands.
LEMMA OpenGoesOn ==
    ASSUME PanelInv, NEW w \in Windows, NEW p, page' = [page EXCEPT ![w] = p],
           UNCHANGED <<camera, events>>, page[w].step # "idle",
           PanelOK(p, camera = w), p.queued <= page[w].queued
    PROVE  PanelInv' /\ Rests
<1>1. Calm(page[w], p) /\ (camera' = w) = (camera = w)
  BY DEF Calm
<1>2. \A v \in Windows \ {w} : camera' = v <=> camera = v
  OBVIOUS
<1> QED
  BY <1>1, <1>2, OnePanel

\* An open that ends, its window in state q.
LEMMA OpenEnds ==
    ASSUME PanelInv, NEW w \in Windows, NEW q, page' = [page EXCEPT ![w] = Done(q)],
           UNCHANGED <<camera, events>>, page[w].step # "idle",
           DOMAIN q = PageFields, q.queued = page[w].queued, q.track = page[w].track,
           q.shown = page[w].shown, q.feed \in {page[w].feed, "off"}
    PROVE  PanelInv' /\ Rests
<1>1. PanelOK(page[w], camera = w)
  BY DEF PanelInv
<1>2. PanelOK(Done(q), camera = w) /\ Done(q).queued <= q.queued
  BY <1>1, DoneOK DEF PanelOK
<1> QED
  BY <1>2, OpenGoesOn

LEMMA GrantedStep ==
    ASSUME PanelInv, NEW w \in Windows, Granted(w)
    PROVE  PanelInv' /\ Rests
<1> DEFINE p == page[w]
<1>1. PanelOK(p, camera = w) /\ camera = "none" /\ "none" \notin Windows /\ p.step # "idle"
      /\ events' = events
  BY WindowsAssumption DEF PanelInv, Granted
<1>2. CASE p.current
  <2> DEFINE q == [p EXCEPT !.track = "live", !.busy = FALSE, !.peerHolds = FALSE,
                            !.yielded = FALSE,
                            !.takingOver = p.takingOver /\ p.step # "retake"]
  <2>1. page' = [page EXCEPT ![w] = Done(q)] /\ camera' = w
    BY <1>2 DEF Granted, PanelInv
  <2>2. DOMAIN q = PageFields /\ q.queued = p.queued /\ q.track = "live" /\ q.shown = p.shown
        /\ q.feed = p.feed
    BY <1>1 DEF PanelOK, PageFields
  <2>3. p.shown
    BY <1>1, <1>2 DEF PanelOK
  <2> HIDE DEF q
  <2>4. PanelOK(Done(q), TRUE) /\ Done(q).queued <= p.queued
    BY <1>1, <2>2, <2>3, DoneOK DEF PanelOK
  <2>5. (camera' = w) = TRUE /\ Calm(p, Done(q))
    BY <1>1, <2>1, <2>4 DEF Calm
  <2>6. \A v \in Windows \ {w} : camera' = v <=> camera = v
    BY <1>1, <2>1
  <2> QED
    BY <1>1, <2>1, <2>4, <2>5, <2>6, OnePanel
<1>3. CASE ~p.current
  <2>1. page' = [page EXCEPT ![w] = Done(p)] /\ camera' = camera
    BY <1>3 DEF Granted, PanelInv
  <2> QED
    BY <1>1, <2>1, OpenEnds DEF PanelOK
<1> QED
  BY <1>2, <1>3

LEMMA ReleasedStep ==
    ASSUME PanelInv, NEW w \in Windows, Released(w)
    PROVE  PanelInv' /\ Rests
<1> DEFINE after(v) ==
        IF v = w THEN IF page[w].current THEN [page[w] EXCEPT !.step = "retake"]
                      ELSE Done(page[w])
        ELSE [page[v] EXCEPT !.track = IF @ = "live" THEN "ended" ELSE @]
<1>1. /\ page' = [v \in Windows |-> after(v)] /\ page[w].step = "release"
      /\ camera' = "none" /\ events' = events /\ "none" \notin Windows
  BY WindowsAssumption DEF Released
<1>2. ASSUME NEW v \in Windows
      PROVE  PanelOK(after(v), FALSE) /\ Calm(page[v], after(v))
  <2>1. PanelOK(page[v], camera = v)
    BY DEF PanelInv
  <2>2. CASE v # w
    BY <2>1, <2>2 DEF PanelOK, PageFields, Calm
  <2>3. CASE v = w /\ page[w].current
    BY <1>1, <2>1, <2>3 DEF PanelOK, PageFields, Calm
  <2>4. CASE v = w /\ ~page[w].current
    <3>1. page[w].track # "live"
      BY <1>1, <2>1, <2>4 DEF PanelOK
    <3>2. PanelOK(Done(page[w]), FALSE) /\ Done(page[w]).queued <= page[w].queued
      BY <2>1, <2>4, <3>1, DoneOK DEF PanelOK
    <3> QED
      BY <1>1, <2>4, <3>2 DEF Calm
  <2> QED
    BY <2>2, <2>3, <2>4
<1> HIDE DEF after
<1>3. \A v \in Windows : page'[v] = after(v) /\ (camera' = v) = FALSE
  BY <1>1
<1>4. \A v \in Windows : PanelOK(page'[v], camera' = v)
  BY <1>2, <1>3
<1>5. page' = [v \in Windows |-> page'[v]] /\ events' \in Nat
  BY <1>1 DEF PanelInv
<1> QED
  BY <1>2, <1>3, <1>4, <1>5 DEF PanelInv, Rests

LEMMA OpenStep ==
    ASSUME PanelInv, NEW w \in Windows, Open(w)
    PROVE  PanelInv' /\ Rests
<1> DEFINE p == page[w]
<1>1. PanelOK(p, camera = w) /\ "none" \notin Windows /\ "server" \notin Windows
  BY WindowsAssumption DEF PanelInv
<1>2. CASE BusyFirst(w)
  <2> DEFINE q == [p EXCEPT !.step = "peers", !.busy = TRUE, !.heard = FALSE]
  <2>1. page' = [page EXCEPT ![w] = q] /\ UNCHANGED <<camera, events>> /\ p.step # "idle"
    BY <1>2 DEF BusyFirst, PanelInv
  <2>2. PanelOK(q, camera = w) /\ q.queued <= p.queued
    BY <1>1, <2>1 DEF PanelOK, PageFields
  <2> HIDE DEF q
  <2> QED
    BY <2>1, <2>2, OpenGoesOn
<1>3. CASE PeersTimeout(w)
  <2> DEFINE q == [p EXCEPT !.step = "reopen"]
  <2>1. /\ page' = [page EXCEPT ![w] = IF p.heard THEN q ELSE Catch(p)]
        /\ UNCHANGED <<camera, events>> /\ p.step = "peers"
    BY <1>3 DEF PeersTimeout, PanelInv
  <2>2. PanelOK(q, camera = w) /\ q.queued <= p.queued
    BY <1>1, <2>1 DEF PanelOK, PageFields
  <2>3. PanelOK(Catch(p), camera = w) /\ Catch(p).queued <= p.queued
    BY <1>1, <2>1, CatchOK
  <2> HIDE DEF q
  <2> QED
    BY <2>1, <2>2, <2>3, OpenGoesOn
<1>4. CASE BusyAgain(w)
  <2>1. page' = [page EXCEPT ![w] = Catch(p)] /\ UNCHANGED <<camera, events>> /\ p.step = "reopen"
    BY <1>4 DEF BusyAgain, PanelInv
  <2>2. PanelOK(Catch(p), camera = w) /\ Catch(p).queued <= p.queued
    BY <1>1, <2>1, CatchOK
  <2> QED
    BY <2>1, <2>2, OpenGoesOn
<1>5. CASE Denied(w)
  <2> DEFINE q == [p EXCEPT !.busy = IF page[w].current THEN FALSE ELSE p.busy]
  <2>1. page' = [page EXCEPT ![w] = Done(q)] /\ UNCHANGED <<camera, events>> /\ p.step # "idle"
    BY <1>5 DEF Denied, PanelInv
  <2>2. /\ DOMAIN q = PageFields /\ q.queued = p.queued /\ q.track = p.track
        /\ q.shown = p.shown /\ q.feed = p.feed
    BY <1>1 DEF PanelOK, PageFields
  <2> HIDE DEF q
  <2> QED
    BY <2>1, <2>2, OpenEnds
<1>6. CASE ReleaseFails(w)
  <2> DEFINE q == StartFeed([p EXCEPT !.takingOver = FALSE])
  <2>1. /\ page' = [page EXCEPT ![w] = IF p.current THEN q ELSE Done(p)]
        /\ UNCHANGED <<camera, events>> /\ p.step = "release"
    BY <1>6 DEF ReleaseFails, PanelInv
  <2>2. p.current => PanelOK(q, camera = w) /\ q.queued <= p.queued
    BY <1>1, <2>1 DEF PanelOK, PageFields, StartFeed
  <2>3. PanelOK(Done(p), camera = w) /\ Done(p).queued <= p.queued
    BY <1>1, DoneOK DEF PanelOK
  <2> HIDE DEF q
  <2> QED
    BY <2>1, <2>2, <2>3, OpenGoesOn
<1>7. CASE RetakeGivesUp(w)
  <2> DEFINE q == [p EXCEPT !.takingOver = FALSE]
  <2>1. /\ page' = [page EXCEPT ![w] = Done(IF p.current THEN q ELSE p)]
        /\ UNCHANGED <<camera, events>> /\ p.step = "retake"
    BY <1>7 DEF RetakeGivesUp, PanelInv
  <2>2. \A r \in {p, q} : /\ DOMAIN r = PageFields /\ r.queued = p.queued
                          /\ r.track = p.track /\ r.shown = p.shown /\ r.feed = p.feed
    BY <1>1 DEF PanelOK, PageFields
  <2> HIDE DEF q
  <2> QED
    BY <2>1, <2>2, OpenEnds
<1>8. CASE NoCameraFound(w)
  <2> DEFINE q == StartFeed([p EXCEPT !.takingOver = FALSE])
  <2>1. /\ page' = [page EXCEPT ![w] = q] /\ p.current
        /\ UNCHANGED <<camera, events>> /\ p.step = "retake"
    BY <1>8 DEF NoCameraFound, PanelInv
  <2>2. PanelOK(q, camera = w) /\ q.queued <= p.queued
    BY <1>1, <2>1 DEF PanelOK, PageFields, StartFeed
  <2> HIDE DEF q
  <2> QED
    BY <2>1, <2>2, OpenGoesOn
<1>9. CASE FeedLoads(w)
  <2> DEFINE q == [p EXCEPT !.feed = "live", !.busy = FALSE]
             r == IF q.step = "feed" THEN Done(q) ELSE q
  <2>1. /\ page' = [page EXCEPT ![w] = r] /\ camera' = "server" /\ events' = events
        /\ camera \in {"none", "server"} /\ p.feed = "loading"
    BY <1>9 DEF FeedLoads, PanelInv
  <2>2. (camera = w) = FALSE /\ (camera' = w) = FALSE
        /\ \A v \in Windows \ {w} : camera' = v <=> camera = v
    BY <1>1, <2>1
  <2>3. PanelOK(q, FALSE) /\ q.queued = p.queued /\ q.step = p.step
    BY <1>1, <2>1, <2>2 DEF PanelOK, PageFields
  <2> HIDE DEF q
  <2>4. PanelOK(Done(q), FALSE) /\ Done(q).queued <= q.queued
    BY <2>3, DoneOK DEF PanelOK
  <2>5. PanelOK(r, FALSE) /\ Calm(p, r)
    BY <2>3, <2>4 DEF Calm, PanelOK
  <2> HIDE DEF r
  <2> QED
    BY <2>1, <2>2, <2>5, OnePanel
<1>10. CASE FeedFails(w)
  <2> DEFINE q == [p EXCEPT !.feed = "off"]
             r == IF q.step = "feed" THEN Done(q) ELSE q
  <2>1. page' = [page EXCEPT ![w] = r] /\ UNCHANGED <<camera, events>>
    BY <1>10 DEF FeedFails, PanelInv
  <2>2. PanelOK(q, camera = w) /\ q.queued = p.queued /\ q.step = p.step
    BY <1>1, <2>1 DEF PanelOK, PageFields
  <2> HIDE DEF q
  <2>3. PanelOK(Done(q), camera = w) /\ Done(q).queued <= q.queued
    BY <2>2, DoneOK DEF PanelOK
  <2>4. PanelOK(r, camera' = w) /\ Calm(p, r)
    BY <2>1, <2>2, <2>3 DEF Calm, PanelOK
  <2>5. \A v \in Windows \ {w} : camera' = v <=> camera = v
    BY <2>1
  <2> HIDE DEF r
  <2> QED
    BY <2>1, <2>4, <2>5, OnePanel
<1>11. CASE FeedTimeout(w)
  <2>1. page' = [page EXCEPT ![w] = Done(p)] /\ UNCHANGED <<camera, events>> /\ p.step = "feed"
    BY <1>11 DEF FeedTimeout, PanelInv
  <2> QED
    BY <1>1, <2>1, OpenEnds DEF PanelOK
<1> QED
  BY <1>2, <1>3, <1>4, <1>5, <1>6, <1>7, <1>8, <1>9, <1>10, <1>11,
     GrantedStep, ReleasedStep DEF Open

\* A window that asks for nothing and keeps the camera, or does not have it.
LEMMA PageKeeps ==
    ASSUME PanelInv, NEW w \in Windows, NEW q, page' = [page EXCEPT ![w] = q],
           UNCHANGED camera, events' = events \/ events' = events + 1,
           DOMAIN q = PageFields, q.queued = page[w].queued,
           q.track = page[w].track \/ (page[w].track # "live" /\ q.track # "live"),
           q.step = page[w].step, q.current = page[w].current,
           q.shown = page[w].shown, q.feed = page[w].feed
    PROVE  PanelInv' /\ Rests
<1>1. PanelOK(page[w], camera = w)
  BY DEF PanelInv
<1>2. PanelOK(q, camera' = w) /\ Calm(page[w], q)
  BY <1>1 DEF PanelOK, Calm
<1>3. \A v \in Windows \ {w} : camera' = v <=> camera = v
  OBVIOUS
<1> QED
  BY <1>2, <1>3, OnePanel

LEMMA PageStep ==
    ASSUME PanelInv, NEW w \in Windows, Page(w)
    PROVE  PanelInv' /\ Rests
<1> DEFINE p == page[w]
<1>1. PanelOK(p, camera = w) /\ events \in Nat /\ "none" \notin Windows
  BY WindowsAssumption DEF PanelInv
<1>2. DOMAIN p = PageFields /\ p.queued \in Nat
  BY <1>1 DEF PanelOK
<1>3. CASE Ended(w)
  <2> DEFINE q == RetrySoon([p EXCEPT !.track = "none", !.busy = TRUE])
  <2>1. page' = [page EXCEPT ![w] = q] /\ UNCHANGED <<camera, events>> /\ p.track = "ended"
    BY <1>3 DEF Ended, PanelInv
  <2>2. /\ DOMAIN q = PageFields /\ q.queued = p.queued /\ q.track = "none" /\ q.step = p.step
        /\ q.current = p.current /\ q.shown = p.shown /\ q.feed = p.feed
    BY <1>2 DEF RetrySoon, PageFields
  <2> HIDE DEF q
  <2> QED
    BY <2>1, <2>2, PageKeeps
<1>4. CASE OnHolding(w)
  <2> DEFINE q == [p EXCEPT !.peerHolds = p.peerHolds \/ ~Active(p)]
  <2>1. page' = [page EXCEPT ![w] = q] /\ UNCHANGED <<camera, events>>
    BY <1>4 DEF OnHolding, PanelInv
  <2>2. /\ DOMAIN q = PageFields /\ q.queued = p.queued /\ q.track = p.track /\ q.step = p.step
        /\ q.current = p.current /\ q.shown = p.shown /\ q.feed = p.feed
    BY <1>2 DEF PageFields
  <2> HIDE DEF q
  <2> QED
    BY <2>1, <2>2, PageKeeps
<1>5. CASE OnIdle(w)
  <2> DEFINE r == [p EXCEPT !.peerHolds = FALSE]
             q == IF r.busy /\ ~Active(r) THEN RetrySoon(r) ELSE r
  <2>1. page' = [page EXCEPT ![w] = q] /\ UNCHANGED <<camera, events>>
    BY <1>5 DEF OnIdle, PanelInv
  <2>2. /\ DOMAIN q = PageFields /\ q.queued = p.queued /\ q.track = p.track /\ q.step = p.step
        /\ q.current = p.current /\ q.shown = p.shown /\ q.feed = p.feed
    BY <1>2 DEF RetrySoon, PageFields
  <2> HIDE DEF q
  <2> QED
    BY <2>1, <2>2, PageKeeps
<1>6. CASE OnReleased(w)
  <2> DEFINE q == [p EXCEPT !.heard = p.heard \/ page[w].step = "peers"]
  <2>1. page' = [page EXCEPT ![w] = q] /\ UNCHANGED <<camera, events>>
    BY <1>6 DEF OnReleased, PanelInv
  <2>2. /\ DOMAIN q = PageFields /\ q.queued = p.queued /\ q.track = p.track /\ q.step = p.step
        /\ q.current = p.current /\ q.shown = p.shown /\ q.feed = p.feed
    BY <1>2 DEF PageFields
  <2> HIDE DEF q
  <2> QED
    BY <2>1, <2>2, PageKeeps
<1>7. CASE OnRelease(w)
  <2>1. CASE UNCHANGED <<page, camera, events>>
    BY <2>1, PanelSame
  <2> DEFINE q == [Stop(p) EXCEPT !.yielded = TRUE]
  <2>2. CASE /\ page' = [page EXCEPT ![w] = q] /\ events' = events
             /\ camera' = IF camera = w THEN "none" ELSE camera
    <3>1. PanelOK(q, FALSE) /\ Calm(p, q)
      BY <1>1 DEF PanelOK, PageFields, Stop, Calm
    <3>2. (camera' = w) = FALSE /\ \A v \in Windows \ {w} : camera' = v <=> camera = v
      BY <1>1, <2>2
    <3> HIDE DEF q
    <3> QED
      BY <2>2, <3>1, <3>2, OnePanel
  <2> QED
    BY <1>7, <2>1, <2>2 DEF OnRelease, FreeCamera, PanelInv
<1>8. CASE RetryFires(w)
  <2> DEFINE q == [p EXCEPT !.retry = "spent"]
             r == IF q.takingOver \/ q.peerHolds \/ q.yielded \/ ~q.shown THEN q
                  ELSE StartCam(q)
  <2>1. page' = [page EXCEPT ![w] = r] /\ UNCHANGED <<camera, events>>
    BY <1>8 DEF RetryFires, PanelInv
  <2>2. PanelOK(q, camera = w) /\ q.queued = p.queued /\ q.step = p.step
        /\ q.yielded = p.yielded
    BY <1>1 DEF PanelOK, PageFields
  <2> HIDE DEF q
  <2>3. q.shown => PanelOK(StartCam(q), camera = w)
    BY <2>2, StartCamOK
  <2>4. PanelOK(r, camera' = w)
    BY <2>1, <2>2, <2>3
  <2>5. Calm(p, r)
    BY <1>2, <2>2 DEF Calm
  <2>6. \A v \in Windows \ {w} : camera' = v <=> camera = v
    BY <2>1
  <2> HIDE DEF r
  <2> QED
    BY <2>1, <2>4, <2>5, <2>6, OnePanel
<1>9. CASE ThrottleEnds(w)
  <2> DEFINE q == [p EXCEPT !.retry = "none"]
  <2>1. page' = [page EXCEPT ![w] = q] /\ UNCHANGED <<camera, events>>
    BY <1>9 DEF ThrottleEnds, PanelInv
  <2>2. /\ DOMAIN q = PageFields /\ q.queued = p.queued /\ q.track = p.track /\ q.step = p.step
        /\ q.current = p.current /\ q.shown = p.shown /\ q.feed = p.feed
    BY <1>2 DEF PageFields
  <2> HIDE DEF q
  <2> QED
    BY <2>1, <2>2, PageKeeps
<1>10. CASE DeviceChange(w)
  <2> DEFINE q == RetrySoon(p)
  <2>1. page' = [page EXCEPT ![w] = q] /\ UNCHANGED camera /\ events' = events + 1
    BY <1>10 DEF DeviceChange, Event, PanelInv
  <2>2. /\ DOMAIN q = PageFields /\ q.queued = p.queued /\ q.track = p.track /\ q.step = p.step
        /\ q.current = p.current /\ q.shown = p.shown /\ q.feed = p.feed
    BY <1>2 DEF RetrySoon, PageFields
  <2> HIDE DEF q
  <2> QED
    BY <2>1, <2>2, PageKeeps
<1> QED
  BY <1>3, <1>4, <1>5, <1>6, <1>7, <1>8, <1>9, <1>10 DEF Page, Deliver

LEMMA KioskInit ==
    Init => PanelInv
<1> SUFFICES ASSUME Init PROVE PanelInv
  OBVIOUS
<1>1. page = [w \in Windows |-> page[w]] /\ events \in Nat
  BY DEF Init
<1>2. ASSUME NEW w \in Windows
      PROVE  PanelOK(page[w], camera = w)
  <2>1. page[w] = Begin(NewPage) \/ page[w] = [NewPage EXCEPT !.shown = FALSE]
    BY DEF Init
  <2>2. (camera = w) = FALSE
    BY WindowsAssumption DEF Init
  <2>3. PanelOK(Begin(NewPage), FALSE) /\ PanelOK([NewPage EXCEPT !.shown = FALSE], FALSE)
    BY DEF PanelOK, PageFields, Begin, NewPage
  <2> QED
    BY <2>1, <2>2, <2>3
<1> QED
  BY <1>1, <1>2 DEF PanelInv

LEMMA KioskStep ==
    ASSUME PanelInv, [Next]_vars
    PROVE  PanelInv' /\ (Rests \/ UNCHANGED vars)
<1>1. ASSUME NEW w \in Windows, User(w) \/ Open(w) \/ Page(w)
      PROVE  PanelInv' /\ Rests
  BY <1>1, UserStep, OpenStep, PageStep
<1>2. CASE AppTakes \/ AppLeaves \/ ServerEnds
  <2>1. UNCHANGED page /\ (events' = events \/ events' = events + 1)
    BY <1>2 DEF AppTakes, AppLeaves, ServerEnds, Event
  <2>2. \A w \in Windows : camera' = w <=> camera = w
    BY <1>2, WindowsAssumption DEF AppTakes, AppLeaves, ServerEnds
  <2> QED
    BY <2>1, <2>2, PanelSame
<1>3. CASE UNCHANGED vars
  BY <1>3 DEF vars, PanelInv
<1> QED
  BY <1>1, <1>2, <1>3 DEF Next

\* A window whose camera panel is hidden has no part in the camera, whichever of
\* its opens were under way (index.html stopCam, startCamNow, attachStream).
THEOREM HiddenIsDarkCorrect == Spec => []HiddenIsDark
<1>1. PanelInv => HiddenIsDark
  BY DEF PanelInv, PanelOK, HiddenIsDark
<1>2. PanelInv /\ [Next]_vars => PanelInv'
  BY KioskStep
<1> QED
  BY <1>1, <1>2, KioskInit, PTL DEF Spec

\* A window that has yielded asks for the camera again only when its user does
\* (index.html retryCamSoon, the handler of "release").
THEOREM QuietAfterYieldCorrect == Spec => QuietAfterYield
<1>1. PanelInv /\ [Next]_vars => PanelInv'
  BY KioskStep
<1>2. PanelInv /\ [Next]_vars =>
        [\A w \in Windows : page[w].yielded /\ TurnsOn(w) => events' # events]_vars
  <2> SUFFICES ASSUME PanelInv, Next, ~UNCHANGED vars, NEW w \in Windows,
                      page[w].yielded, events' = events
               PROVE  ~TurnsOn(w)
    OBVIOUS
  <2>1. PanelInv' /\ Rests
    BY KioskStep
  <2>2. page[w].queued \in Nat /\ page'[w].queued \in Nat
    BY <2>1 DEF PanelInv, PanelOK
  <2> QED
    BY <2>1, <2>2 DEF Rests, Calm, TurnsOn
<1> QED
  BY <1>1, <1>2, KioskInit, PTL DEF Spec, QuietAfterYield

-----------------------------------------------------------------------------
(* The stored queue: its inductive invariant. *)

QueueTypes ==
    /\ now \in Time
    /\ owner \in [Taps -> Employees] /\ type \in [Taps -> {"IN", "OUT"}]
    /\ path \in [Taps -> {"attendance", "identify"}]
    /\ created \in [Taps -> Time]
    /\ queue \in Seq(Taps)
    /\ pc \in [Senders -> {"idle", "sent", "read", "write", "next", "done"}]
    /\ copy \in [Senders -> Seq(Taps)]
    /\ remain \in [Syncs -> Seq(Taps)]
    /\ answer \in [Senders -> Answers \cup {NoReply}]
    /\ wire \subseteq [from : Senders, tap : Taps]
    /\ logs \subseteq [by : Taps, at : Time]
    /\ saved \subseteq Taps /\ gone \subseteq Taps /\ unheard \subseteq Taps
    /\ overlapped \in BOOLEAN /\ killed \in BOOLEAN

\* No punch is twice in a queue.
Unrepeated(q) == \A i, j \in DOMAIN q : q[i] = q[j] => i = j

\* A queue as it may be stored when the taps are at these awaits: short enough,
\* and of punches whose capture is over.
Storable(q, at) ==
    /\ Unrepeated(q)
    /\ Len(q) =< QueueMax
    /\ \A p \in Items(q) : at[p] = "done"

\* Only who is between reading the stored queue and writing it back has a copy.
\* The two parts of a sync's copy, to send and to write back, have nothing in
\* common and fit in the queue together.
Copies ==
    /\ Storable(queue, pc)
    /\ \A s \in Senders : Storable(copy[s], pc) /\ (~Holding(s) => copy[s] = <<>>)
    /\ \A f \in Syncs :
          /\ Storable(remain[f], pc)
          /\ ~Holding(f) => remain[f] = <<>>
          /\ Items(remain[f]) \cap Items(copy[f]) = {}
          /\ Len(remain[f]) + Len(copy[f]) =< QueueMax
          /\ pc[f] = "sent" => copy[f] # <<>>
    /\ \A m \in wire : m.from \in Taps => m.tap = m.from

\* While no two uses overlap, one copy at most is held, and it lacks nothing of
\* what is stored but what a sync has brought home.
Alone ==
    ~overlapped =>
        /\ \A s, t \in Senders : Holding(s) /\ Holding(t) => s = t
        /\ \A p \in Taps : Holding(p) => copy[p] = queue
        /\ \A f \in Syncs : Holding(f) =>
              Items(queue) \subseteq Items(remain[f]) \cup Items(copy[f]) \cup gone
        /\ saved \subseteq Items(queue) \cup gone

\* A punch that is on record and known to be is in no copy that is sent again:
\* its capture has its answer or is over, and it leaves the queue of a sync with
\* the answer that is there.
KnownOnRecord(p) ==
    /\ pc[p] \in {"sent", "done"}
    /\ pc[p] = "sent" => answer[p] = "ok"
    /\ \A m \in wire : m.tap = p => ~Waiting(m)
    /\ \A t \in Taps : p \notin Items(copy[t])
    /\ \A f \in Syncs :
          /\ p \notin Items(remain[f])
          /\ p \in Items(copy[f]) =>
                pc[f] = "sent" /\ Head(copy[f]) = p /\ answer[f] = "ok"
    /\ p \in Items(queue) => \E f \in Syncs : Holding(f)

Recorded == {r.by : r \in logs}

Once ==
    ~overlapped /\ ~killed => \A p \in Recorded \ unheard : KnownOnRecord(p)

QueueInv == QueueTypes /\ Copies /\ Alone /\ Once /\ TwiceNeedsCause

-----------------------------------------------------------------------------
(* Queues. *)

\* The first item of a queue and the others.
LEMMA QueueHead ==
    ASSUME NEW q \in Seq(Taps), q # <<>>
    PROVE  /\ Head(q) \in Taps /\ Tail(q) \in Seq(Taps)
           /\ Len(q) \in Nat \ {0} /\ Len(Tail(q)) = Len(q) - 1
           /\ Items(q) = {Head(q)} \cup Items(Tail(q))
           /\ Unrepeated(q) => Unrepeated(Tail(q)) /\ Head(q) \notin Items(Tail(q))
<1>1. Len(q) \in Nat \ {0} /\ Len(Tail(q)) = Len(q) - 1
  OBVIOUS
<1>2. Head(q) = q[1] /\ 1 \in DOMAIN q
  OBVIOUS
<1>3. Tail(q) \in Seq(Taps) /\ \A i \in DOMAIN Tail(q) : Tail(q)[i] = q[i + 1] /\ i + 1 \in DOMAIN q
  OBVIOUS
<1>4. \A i \in DOMAIN q : i = 1 \/ (i - 1 \in DOMAIN Tail(q) /\ Tail(q)[i - 1] = q[i])
  OBVIOUS
<1>5. Head(q) \in Taps
  OBVIOUS
<1>6. Items(q) \subseteq {Head(q)} \cup Items(Tail(q))
  BY <1>2, <1>4 DEF Items
<1>7. {Head(q)} \cup Items(Tail(q)) \subseteq Items(q)
  BY <1>2, <1>3 DEF Items
<1>8. ASSUME Unrepeated(q)
      PROVE  Unrepeated(Tail(q)) /\ Head(q) \notin Items(Tail(q))
  <2>1. DOMAIN q = 1 .. Len(q) /\ DOMAIN Tail(q) = 1 .. Len(q) - 1
    BY <1>1, <1>3
  <2>2. Unrepeated(Tail(q))
    <3> SUFFICES ASSUME NEW i \in DOMAIN Tail(q), NEW j \in DOMAIN Tail(q),
                        Tail(q)[i] = Tail(q)[j]
                 PROVE  i = j
      BY DEF Unrepeated
    <3>1. q[i + 1] = q[j + 1] /\ i + 1 \in DOMAIN q /\ j + 1 \in DOMAIN q
      BY <1>3
    <3> QED
      BY <3>1, <1>8, <2>1 DEF Unrepeated
  <2>3. ASSUME NEW i \in DOMAIN Tail(q) PROVE Tail(q)[i] # Head(q)
    BY <1>2, <1>3, <1>8, <2>1 DEF Unrepeated
  <2> QED
    BY <2>2, <2>3 DEF Items
<1> QED
  BY <1>1, <1>3, <1>5, <1>6, <1>7, <1>8

\* A queue with one more item at its end.
LEMMA StoredAppend ==
    ASSUME NEW q \in Seq(Taps), NEW p \in Taps
    PROVE  /\ Append(q, p) \in Seq(Taps)
           /\ Append(q, p) # <<>>
           /\ Len(q) \in Nat /\ Len(Append(q, p)) = Len(q) + 1
           /\ Items(Append(q, p)) = Items(q) \cup {p}
           /\ q # <<>> => Head(Append(q, p)) = Head(q)
           /\ Unrepeated(q) /\ p \notin Items(q) => Unrepeated(Append(q, p))
<1>1. /\ Append(q, p) \in Seq(Taps) /\ Append(q, p) # <<>>
      /\ Len(q) \in Nat /\ Len(Append(q, p)) = Len(q) + 1
  OBVIOUS
<1>2. DOMAIN q = 1 .. Len(q) /\ DOMAIN Append(q, p) = 1 .. Len(q) + 1
  BY <1>1
<1>3. \A i \in DOMAIN q : Append(q, p)[i] = q[i]
  OBVIOUS
<1>4. Append(q, p)[Len(q) + 1] = p
  OBVIOUS
<1>5. q # <<>> => Head(Append(q, p)) = Head(q)
  OBVIOUS
<1>6. Items(Append(q, p)) = Items(q) \cup {p}
  <2>1. Items(q) \cup {p} \subseteq Items(Append(q, p))
    BY <1>1, <1>2, <1>3, <1>4 DEF Items
  <2>2. Items(Append(q, p)) \subseteq Items(q) \cup {p}
    BY <1>1, <1>2, <1>3, <1>4 DEF Items
  <2> QED
    BY <2>1, <2>2
<1>7. ASSUME Unrepeated(q), p \notin Items(q)
      PROVE  Unrepeated(Append(q, p))
  <2> SUFFICES ASSUME NEW i \in DOMAIN Append(q, p), NEW j \in DOMAIN Append(q, p),
                      Append(q, p)[i] = Append(q, p)[j]
               PROVE  i = j
    BY DEF Unrepeated
  <2>1. \A k \in DOMAIN q : q[k] # p
    BY <1>7 DEF Items
  <2>2. i \in DOMAIN q \/ i = Len(q) + 1
    BY <1>1, <1>2
  <2>3. j \in DOMAIN q \/ j = Len(q) + 1
    BY <1>1, <1>2
  <2> QED
    BY <2>1, <2>2, <2>3, <1>3, <1>4, <1>7 DEF Unrepeated
<1> QED
  BY <1>1, <1>5, <1>6, <1>7

LEMMA QueueEmpty ==
    Items(<<>>) = {} /\ Unrepeated(<<>>) /\ Len(<<>>) = 0 /\ <<>> \in Seq(Taps)
BY DEF Items, Unrepeated

-----------------------------------------------------------------------------
(* Types. *)

LEMMA QueueInitTypes == QueueInit => QueueTypes
<1> SUFFICES ASSUME QueueInit PROVE QueueTypes
  OBVIOUS
<1> USE DEF QueueInit
<1>1. now \in Time /\ created \in [Taps -> Time]
  BY BoundsAssumption DEF Time
<1>2. queue \in Seq(Taps) /\ copy \in [Senders -> Seq(Taps)] /\ remain \in [Syncs -> Seq(Taps)]
  BY QueueEmpty
<1>3. /\ pc \in [Senders -> {"idle", "sent", "read", "write", "next", "done"}]
      /\ answer \in [Senders -> Answers \cup {NoReply}]
      /\ path \in [Taps -> {"attendance", "identify"}]
  OBVIOUS
<1>4. /\ wire \subseteq [from : Senders, tap : Taps]
      /\ logs \subseteq [by : Taps, at : Time]
      /\ saved \subseteq Taps /\ gone \subseteq Taps /\ unheard \subseteq Taps
      /\ overlapped \in BOOLEAN /\ killed \in BOOLEAN
  OBVIOUS
<1> QED
  BY <1>1, <1>2, <1>3, <1>4 DEF QueueTypes

\* Every step keeps the types.
LEMMA QueueTypesStep ==
    ASSUME QueueTypes, Copies, [QueueNext]_queueVars
    PROVE  QueueTypes'
<1> USE DEF QueueTypes, Goto, End, ReadQueue, Enqueue, phone, history, Senders
<1>1. CASE UNCHANGED queueVars
  BY <1>1 DEF queueVars
<1>2. ASSUME NEW p \in Taps, TapStep(p) PROVE QueueTypes'
  <2>1. CASE Identified(p)
    BY <2>1 DEF Identified
  <2>2. CASE NotIdentified(p)
    BY <2>2 DEF NotIdentified
  <2>3. CASE IdentifyOffline(p)
    BY <2>3 DEF IdentifyOffline
  <2>4. CASE Settled(p)
    BY <2>4, QueueEmpty DEF Settled
  <2>5. CASE NotSettled(p)
    BY <2>5 DEF NotSettled
  <2>6. CASE EnqueueRead(p)
    BY <2>6 DEF EnqueueRead
  <2>7. CASE EnqueueWrite(p)
    <3>1. /\ Append(copy[p], p) \in Seq(Taps)
          /\ Tail(Append(copy[p], p)) \in Seq(Taps)
          /\ Len(copy[p]) = QueueMax => Head(copy[p]) \in Taps
      <4>1. copy[p] \in Seq(Taps)
        OBVIOUS
      <4>2. Len(copy[p]) = QueueMax => copy[p] # <<>>
        BY QueueEmpty, BoundsAssumption
      <4> QED
        BY <4>1, <4>2, StoredAppend, QueueHead
    <3> QED
      BY <2>7, <3>1, QueueEmpty DEF EnqueueWrite
  <2> QED
    BY <1>2, <2>1, <2>2, <2>3, <2>4, <2>5, <2>6, <2>7 DEF TapStep
<1>3. ASSUME NEW f \in Syncs, Flush(f) PROVE QueueTypes'
  <2>0. ASSUME copy[f] # <<>>
        PROVE  Head(copy[f]) \in Taps /\ Tail(copy[f]) \in Seq(Taps)
    BY <2>0, QueueHead
  <2>00. ASSUME copy[f] # <<>>
         PROVE  Append(remain[f], Head(copy[f])) \in Seq(Taps)
    BY <2>0, <2>00, StoredAppend
  <2>1. CASE Sync(f)
    BY <2>1 DEF Sync
  <2>2. CASE SyncRead(f)
    BY <2>2 DEF SyncRead
  <2>3. CASE SyncSkip(f)
    BY <2>0, <2>3 DEF SyncSkip
  <2>4. CASE SyncSend(f)
    BY <2>0, <2>4 DEF SyncSend
  <2>5. CASE SyncAccepted(f)
    BY <2>0, <2>5 DEF SyncAccepted, Copies
  <2>6. CASE SyncFailed(f)
    BY <2>0, <2>00, <2>6 DEF SyncFailed, Copies
  <2>7. CASE SyncWrite(f)
    BY <2>7, QueueEmpty DEF SyncWrite
  <2> QED
    BY <1>3, <2>1, <2>2, <2>3, <2>4, <2>5, <2>6, <2>7 DEF Flush
<1>4. ASSUME NEW m \in wire, Server(m) PROVE QueueTypes'
  <2> USE DEF Reply
  <2>1. CASE Record(m)
    BY <2>1 DEF Record, Answers
  <2>2. CASE Duplicate(m)
    <3>1. \A r \in Earlier(m.tap) : [r EXCEPT !.at = now] \in [by : Taps, at : Time]
      <4> SUFFICES ASSUME NEW r \in Earlier(m.tap)
                   PROVE  [r EXCEPT !.at = now] \in [by : Taps, at : Time]
        OBVIOUS
      <4>1. r \in [by : Taps, at : Time] /\ now \in Time
        BY DEF Earlier
      <4> QED
        BY <4>1
    <3>2. logs' \subseteq [by : Taps, at : Time]
      BY <2>2, <3>1 DEF Duplicate
    <3> QED
      BY <2>2, <3>2 DEF Duplicate, Answers
  <2>3. CASE IdentifyAnswer(m)
    BY <2>3 DEF IdentifyAnswer, Answers
  <2>4. CASE Refuse(m)
    BY <2>4 DEF Refuse, Answers
  <2>5. CASE Fail(m)
    BY <2>5 DEF Fail, Answers
  <2> QED
    BY <1>4, <2>1, <2>2, <2>3, <2>4, <2>5 DEF Server
<1>5. CASE KillApp
  BY <1>5, QueueEmpty DEF KillApp
<1>6. CASE Tick
  <2>1. now' \in Time
    BY <1>6, BoundsAssumption DEF Tick, Time
  <2> QED
    BY <1>6, <2>1 DEF Tick
<1> QED
  BY <1>1, <1>2, <1>3, <1>4, <1>5, <1>6 DEF QueueNext

-----------------------------------------------------------------------------
(* The copies of the queue. *)

\* A capture that is over stays over.
LEMMA DoneStays ==
    ASSUME QueueTypes, [QueueNext]_queueVars
    PROVE  \A s \in Senders : pc[s] = "done" => pc'[s] = "done"
<1> SUFFICES ASSUME NEW s \in Senders, pc[s] = "done" PROVE pc'[s] = "done"
  OBVIOUS
<1> USE DEF QueueTypes, Goto, End, Enqueue, phone, history
<1>1. CASE UNCHANGED queueVars
  BY <1>1 DEF queueVars
<1>2. ASSUME NEW p \in Taps, TapStep(p) PROVE pc'[s] = "done"
  BY <1>2 DEF TapStep, Identified, NotIdentified, IdentifyOffline, Settled, NotSettled,
              EnqueueRead, EnqueueWrite
<1>3. ASSUME NEW f \in Syncs, Flush(f) PROVE pc'[s] = "done"
  BY <1>3 DEF Flush, Sync, SyncRead, SyncSkip, SyncSend, SyncAccepted, SyncFailed, SyncWrite
<1>4. ASSUME NEW m \in wire, Server(m) PROVE pc'[s] = "done"
  BY <1>4 DEF Server, Record, Duplicate, IdentifyAnswer, Refuse, Fail
<1>5. CASE KillApp
  BY <1>5 DEF KillApp
<1>6. CASE Tick
  BY <1>6 DEF Tick
<1> QED
  BY <1>1, <1>2, <1>3, <1>4, <1>5, <1>6 DEF QueueNext

\* A queue that could be stored can be stored later.
LEMMA StorableStays ==
    ASSUME NEW q \in Seq(Taps), NEW at, NEW later, Storable(q, at),
           \A s \in Senders : at[s] = "done" => later[s] = "done"
    PROVE  Storable(q, later)
<1>1. \A p \in Items(q) : p \in Taps
  BY DEF Items
<1> QED
  BY <1>1 DEF Storable, Senders

LEMMA StorableEmpty == ASSUME NEW at PROVE Storable(<<>>, at)
BY QueueEmpty, BoundsAssumption DEF Storable

\* What is left of a queue without its first item.
LEMMA StorableTail ==
    ASSUME NEW q \in Seq(Taps), NEW at, q # <<>>, Storable(q, at)
    PROVE  Storable(Tail(q), at)
<1>1. Len(Tail(q)) =< QueueMax
  BY QueueHead, BoundsAssumption DEF Storable
<1> QED
  BY <1>1, QueueHead DEF Storable

\* The copies are sound after a step of one sender that leaves its own sound.
LEMMA CopiesOfOne ==
    ASSUME QueueTypes, QueueTypes', Copies, [QueueNext]_queueVars, NEW s \in Senders,
           Storable(queue', pc'),
           Storable(copy'[s], pc'), ~Holding(s)' => copy'[s] = <<>>,
           s \in Syncs => /\ Storable(remain'[s], pc')
                          /\ ~Holding(s)' => remain'[s] = <<>>
                          /\ Items(remain'[s]) \cap Items(copy'[s]) = {}
                          /\ Len(remain'[s]) + Len(copy'[s]) =< QueueMax
                          /\ pc'[s] = "sent" => copy'[s] # <<>>,
           \A t \in Senders \ {s} : copy'[t] = copy[t] /\ pc'[t] = pc[t],
           \A f \in Syncs \ {s} : remain'[f] = remain[f],
           \A m \in wire' : m.from \in Taps => m.tap = m.from
    PROVE  Copies'
<1>1. \A t \in Senders : pc[t] = "done" => pc'[t] = "done"
  BY DoneStays
<1>2. ASSUME NEW t \in Senders
      PROVE  Storable(copy'[t], pc') /\ (~Holding(t)' => copy'[t] = <<>>)
  <2>1. CASE t = s
    BY <2>1
  <2>2. CASE t # s
    <3>1. copy[t] \in Seq(Taps) /\ copy'[t] = copy[t] /\ Storable(copy[t], pc)
      BY <2>2 DEF QueueTypes, Copies
    <3>2. Storable(copy'[t], pc')
      BY <1>1, <3>1, StorableStays
    <3>3. ~Holding(t) => copy[t] = <<>>
      BY DEF Copies
    <3> QED
      BY <2>2, <3>1, <3>2, <3>3 DEF Holding
  <2> QED
    BY <2>1, <2>2
<1>3. ASSUME NEW f \in Syncs
      PROVE  /\ Storable(remain'[f], pc')
             /\ ~Holding(f)' => remain'[f] = <<>>
             /\ Items(remain'[f]) \cap Items(copy'[f]) = {}
             /\ Len(remain'[f]) + Len(copy'[f]) =< QueueMax
             /\ pc'[f] = "sent" => copy'[f] # <<>>
  <2>1. CASE f = s
    BY <2>1
  <2>2. CASE f # s
    <3>1. /\ remain[f] \in Seq(Taps) /\ remain'[f] = remain[f] /\ Storable(remain[f], pc)
          /\ copy'[f] = copy[f] /\ pc'[f] = pc[f]
      BY <2>2 DEF QueueTypes, Copies, Senders
    <3>2. Storable(remain'[f], pc')
      BY <1>1, <3>1, StorableStays
    <3>3. /\ ~Holding(f) => remain[f] = <<>>
          /\ Items(remain[f]) \cap Items(copy[f]) = {}
          /\ Len(remain[f]) + Len(copy[f]) =< QueueMax
          /\ pc[f] = "sent" => copy[f] # <<>>
      BY DEF Copies
    <3> QED
      BY <3>1, <3>2, <3>3 DEF Holding
  <2> QED
    BY <2>1, <2>2
<1> QED
  BY <1>2, <1>3 DEF Copies

LEMMA Shorter ==
    \A m, n, max \in Nat : m + n =< max =>
        m + (n - 1) =< max /\ (n > 0 => m + 1 =< max /\ (m + 1) + (n - 1) =< max)
OBVIOUS

\* Every step keeps the copies sound.
LEMMA CopiesStep ==
    ASSUME QueueTypes, QueueTypes', Copies, [QueueNext]_queueVars
    PROVE  Copies'
<1> USE DEF Goto, End, Enqueue, phone, history
<1>0. \A s \in Senders : pc[s] = "done" => pc'[s] = "done"
  BY DoneStays
<1>00. Storable(queue, pc')
  BY <1>0, StorableStays DEF Copies, QueueTypes
<1>01. ASSUME NEW s \in Senders
       PROVE  /\ copy[s] \in Seq(Taps) /\ Storable(copy[s], pc) /\ Storable(copy[s], pc')
              /\ ~Holding(s) => copy[s] = <<>>
  BY <1>0, StorableStays DEF Copies, QueueTypes
<1>02. ASSUME NEW f \in Syncs
       PROVE  /\ remain[f] \in Seq(Taps) /\ Storable(remain[f], pc) /\ Storable(remain[f], pc')
              /\ ~Holding(f) => remain[f] = <<>>
              /\ Items(remain[f]) \cap Items(copy[f]) = {}
              /\ Len(remain[f]) + Len(copy[f]) =< QueueMax
              /\ pc[f] = "sent" => copy[f] # <<>>
  BY <1>0, StorableStays DEF Copies, QueueTypes
<1>03. \A m \in wire : m.from \in Taps => m.tap = m.from
  BY DEF Copies
<1>04. Taps \cap Syncs = {} /\ Taps \subseteq Senders /\ Syncs \subseteq Senders
  BY SendersAssumption DEF Senders
<1>05. pc \in [Senders -> {"idle", "sent", "read", "write", "next", "done"}]
  BY DEF QueueTypes
<1>06. /\ copy \in [Senders -> Seq(Taps)] /\ remain \in [Syncs -> Seq(Taps)]
       /\ queue \in Seq(Taps)
  BY DEF QueueTypes
<1>07. QueueMax \in Nat /\ QueueMax # 0
  BY BoundsAssumption
<1>1. CASE UNCHANGED queueVars
  <2> SUFFICES Copies
    BY <1>1 DEF queueVars, Copies, Storable, Holding
  <2> QED
    OBVIOUS
<1>2. ASSUME NEW p \in Taps, TapStep(p) PROVE Copies'
  <2>0. p \in Senders /\ p \notin Syncs
    BY <1>04
  <2>1. CASE Identified(p) \/ NotIdentified(p) \/ IdentifyOffline(p) \/ Settled(p) \/ NotSettled(p)
    <3>1. queue' = queue /\ remain' = remain /\ copy'[p] = <<>>
      BY <2>0, <2>1, <1>01, <1>06, <1>05 DEF Holding, Identified, NotIdentified, IdentifyOffline,
                                       Settled, NotSettled
    <3>2. \A t \in Senders \ {p} : copy'[t] = copy[t] /\ pc'[t] = pc[t]
      BY <2>1, <1>06, <1>05 DEF Identified, NotIdentified, IdentifyOffline, Settled, NotSettled
    <3>3. \A m \in wire' : m.from \in Taps => m.tap = m.from
      BY <2>1, <1>03 DEF Identified, NotIdentified, IdentifyOffline, Settled, NotSettled
    <3> QED
      BY <3>1, <3>2, <3>3, <1>00, <2>0, CopiesOfOne, StorableEmpty
  <2>2. CASE EnqueueRead(p)
    <3>1. queue' = queue /\ remain' = remain /\ wire' = wire /\ copy'[p] = queue /\ pc'[p] = "write"
      BY <2>0, <2>2, <1>05, <1>06 DEF EnqueueRead, ReadQueue
    <3>2. \A t \in Senders \ {p} : copy'[t] = copy[t] /\ pc'[t] = pc[t]
      BY <2>2, <1>05, <1>06 DEF EnqueueRead, ReadQueue
    <3>3. Holding(p)'
      BY <3>1 DEF Holding
    <3> QED
      BY <3>1, <3>2, <3>3, <1>00, <1>03, <2>0, CopiesOfOne
  <2>3. CASE EnqueueWrite(p)
    <3>1. pc[p] = "write" /\ remain' = remain /\ wire' = wire /\ copy'[p] = <<>> /\ pc'[p] = "done"
      BY <2>0, <2>3, <1>05, <1>06 DEF EnqueueWrite
    <3>2. \A t \in Senders \ {p} : copy'[t] = copy[t] /\ pc'[t] = pc[t]
      BY <2>3, <1>05, <1>06 DEF EnqueueWrite
    <3>3. p \notin Items(copy[p])
      BY <3>1, <1>01, <2>0 DEF Storable
    <3>4. Storable(queue', pc')
      <4> DEFINE next == Append(copy[p], p)
      <4>1. /\ copy[p] \in Seq(Taps) /\ Unrepeated(copy[p]) /\ Len(copy[p]) =< QueueMax
            /\ \A q \in Items(copy[p]) : pc'[q] = "done"
        BY <1>01, <2>0 DEF Storable
      <4>2. /\ next \in Seq(Taps) /\ next # <<>> /\ Len(next) = Len(copy[p]) + 1
            /\ Items(next) = Items(copy[p]) \cup {p} /\ Unrepeated(next)
            /\ Len(copy[p]) \in Nat
        BY <4>1, <3>3, StoredAppend
      <4>3. queue' = IF Len(next) > QueueMax THEN Tail(next) ELSE next
        BY <2>3 DEF EnqueueWrite
      <4> HIDE DEF next
      <4>4. \A q \in Items(next) : pc'[q] = "done"
        BY <4>1, <4>2, <3>1
      <4>5. /\ Len(Tail(next)) = Len(next) - 1 /\ Items(next) = {Head(next)} \cup Items(Tail(next))
            /\ Unrepeated(Tail(next))
        BY <4>2, QueueHead
      <4>6. CASE Len(next) > QueueMax
        BY <4>1, <4>2, <4>3, <4>4, <4>5, <4>6, <1>07 DEF Storable
      <4>7. CASE ~(Len(next) > QueueMax)
        BY <4>1, <4>2, <4>3, <4>4, <4>7, <1>07 DEF Storable
      <4> QED
        BY <4>6, <4>7
    <3> QED
      BY <3>1, <3>2, <3>4, <1>03, <2>0, CopiesOfOne, StorableEmpty
  <2> QED
    BY <1>2, <2>1, <2>2, <2>3 DEF TapStep
<1>3. ASSUME NEW f \in Syncs, Flush(f) PROVE Copies'
  <2>0. f \in Senders /\ f \notin Taps
    BY <1>04
  <2>01. \A t \in Senders \ {f} : copy'[t] = copy[t] /\ pc'[t] = pc[t]
    BY <1>3, <1>05, <1>06 DEF Flush, Sync, SyncRead, SyncSkip, SyncSend, SyncAccepted, SyncFailed,
                              SyncWrite, ReadQueue
  <2>02. \A g \in Syncs \ {f} : remain'[g] = remain[g]
    BY <1>3, <1>06 DEF Flush, Sync, SyncRead, SyncSkip, SyncSend, SyncAccepted, SyncFailed, SyncWrite
  <2>03. \A m \in wire' : m.from \in Taps => m.tap = m.from
    BY <1>3, <1>03, <2>0 DEF Flush, Sync, SyncRead, SyncSkip, SyncSend, SyncAccepted, SyncFailed,
                             SyncWrite
  <2>04. ASSUME copy[f] # <<>>
         PROVE  /\ Head(copy[f]) \in Taps
                /\ Storable(Tail(copy[f]), pc')
                /\ Items(copy[f]) = {Head(copy[f])} \cup Items(Tail(copy[f]))
                /\ Head(copy[f]) \notin Items(Tail(copy[f]))
                /\ Len(copy[f]) \in Nat /\ Len(Tail(copy[f])) = Len(copy[f]) - 1
                /\ Len(remain[f]) \in Nat
    <3>1. copy[f] \in Seq(Taps) /\ Storable(copy[f], pc') /\ remain[f] \in Seq(Taps)
      BY <1>01, <1>02, <2>0
    <3> QED
      BY <3>1, <2>04, StorableTail, QueueHead DEF Storable
  <2>1. CASE Sync(f)
    <3>1. queue' = queue /\ remain' = remain /\ copy' = copy /\ ~Holding(f) /\ pc'[f] = "read"
      BY <2>0, <2>1, <1>05 DEF Sync, Holding
    <3>2. copy'[f] = <<>> /\ remain'[f] = <<>>
      BY <3>1, <1>01, <1>02, <2>0
    <3> QED
      BY <3>1, <3>2, <1>00, <1>02, <2>0, <2>01, <2>02, <2>03, CopiesOfOne, StorableEmpty
  <2>2. CASE SyncRead(f)
    <3>1. queue' = queue /\ remain' = remain /\ copy'[f] = queue /\ ~Holding(f) /\ pc'[f] = "next"
      BY <2>0, <2>2, <1>05, <1>06 DEF SyncRead, ReadQueue, Holding
    <3>2. remain'[f] = <<>> /\ Holding(f)'
      BY <3>1, <1>02, <2>0 DEF Holding
    <3>3. Items(<<>>) \cap Items(queue) = {} /\ Len(<<>>) + Len(queue) =< QueueMax
      BY QueueEmpty, <1>06, <1>07 DEF Copies, Storable
    <3>4. pc'[f] # "sent"
      BY <3>1
    <3> QED
      BY <3>1, <3>2, <3>3, <3>4, <1>00, <2>0, <2>01, <2>02, <2>03, CopiesOfOne, StorableEmpty
  <2>3. CASE SyncSkip(f) \/ SyncAccepted(f)
    <3>1. /\ queue' = queue /\ remain' = remain /\ copy'[f] = Tail(copy[f]) /\ pc'[f] = "next"
          /\ copy[f] # <<>>
      BY <2>0, <2>3, <1>02, <1>05, <1>06 DEF SyncSkip, SyncAccepted
    <3>2. Holding(f)' /\ pc'[f] # "sent"
      BY <3>1, <2>0 DEF Holding
    <3>3. /\ Items(remain[f]) \cap Items(Tail(copy[f])) = {}
          /\ Len(remain[f]) + Len(Tail(copy[f])) =< QueueMax
      <4>0. Len(remain[f]) + Len(copy[f]) =< QueueMax
        BY <1>02
      <4>1. Items(remain[f]) \cap Items(copy[f]) = {}
        BY <1>02
      <4>2. Items(remain[f]) \cap Items(Tail(copy[f])) = {}
        BY <3>1, <4>1, <2>04
      <4>3. /\ Len(copy[f]) \in Nat /\ Len(Tail(copy[f])) = Len(copy[f]) - 1
            /\ Len(remain[f]) \in Nat
        BY <3>1, <2>04
      <4>4. Len(remain[f]) + Len(Tail(copy[f])) =< QueueMax
        BY <4>0, <4>3, <1>07, Shorter
      <4> QED
        BY <4>2, <4>4
    <3> QED
      BY <3>1, <3>2, <3>3, <1>00, <1>02, <2>0, <2>01, <2>02, <2>03, <2>04, CopiesOfOne
  <2>4. CASE SyncSend(f)
    <3>1. /\ queue' = queue /\ remain' = remain /\ copy' = copy /\ pc'[f] = "sent"
          /\ copy[f] # <<>>
      BY <2>0, <2>4, <1>05 DEF SyncSend
    <3>2. Holding(f)'
      BY <3>1, <2>0 DEF Holding
    <3> QED
      BY <3>1, <3>2, <1>00, <1>01, <1>02, <2>0, <2>01, <2>02, <2>03, CopiesOfOne
  <2>5. CASE SyncFailed(f)
    <3> DEFINE left == Append(remain[f], Head(copy[f]))
    <3>1. /\ queue' = queue /\ remain'[f] = left /\ copy'[f] = Tail(copy[f]) /\ pc'[f] = "next"
          /\ copy[f] # <<>>
      BY <2>0, <2>5, <1>02, <1>05, <1>06 DEF SyncFailed
    <3>2. Holding(f)' /\ pc'[f] # "sent"
      BY <3>1, <2>0 DEF Holding
    <3>3. /\ Len(left) = Len(remain[f]) + 1 /\ Items(left) = Items(remain[f]) \cup {Head(copy[f])}
          /\ Unrepeated(remain[f]) /\ Head(copy[f]) \notin Items(remain[f])
      BY <3>1, <1>02, <2>04, StoredAppend DEF Storable
    <3>4. Unrepeated(left)
      BY <3>1, <3>3, <1>02, <2>04, StoredAppend
    <3> HIDE DEF left
    <3>5. /\ Items(left) \cap Items(Tail(copy[f])) = {}
          /\ Len(left) + Len(Tail(copy[f])) =< QueueMax
          /\ Len(left) =< QueueMax
      <4>0. Len(remain[f]) + Len(copy[f]) =< QueueMax
        BY <1>02
      <4>1. Items(remain[f]) \cap Items(copy[f]) = {}
        BY <1>02
      <4>2. Items(left) \cap Items(Tail(copy[f])) = {}
        BY <3>1, <3>3, <4>1, <2>04
      <4>3. Len(copy[f]) > 0
        BY <3>1, <1>01, <2>0, QueueHead
      <4>4. /\ Len(copy[f]) \in Nat /\ Len(Tail(copy[f])) = Len(copy[f]) - 1
            /\ Len(remain[f]) \in Nat /\ Len(left) = Len(remain[f]) + 1
        BY <3>1, <3>3, <2>04
      <4>5. /\ Len(left) + Len(Tail(copy[f])) =< QueueMax
            /\ Len(left) =< QueueMax
        BY <4>0, <4>3, <4>4, <1>07, Shorter
      <4> QED
        BY <4>2, <4>5
    <3>6. pc'[Head(copy[f])] = "done" /\ \A q \in Items(remain[f]) : pc'[q] = "done"
      BY <3>1, <1>01, <1>02, <2>0, <2>04 DEF Storable
    <3>7. Storable(left, pc')
      BY <3>3, <3>4, <3>5, <3>6 DEF Storable
    <3> QED
      BY <3>1, <3>2, <3>5, <3>7, <1>00, <2>0, <2>01, <2>02, <2>03, <2>04, CopiesOfOne
  <2>6. CASE SyncWrite(f)
    <3>1. queue' = remain[f] /\ remain'[f] = <<>> /\ copy'[f] = <<>> /\ pc'[f] = "done"
      BY <2>0, <2>6, <1>05, <1>06 DEF SyncWrite
    <3>2. Items(<<>>) \cap Items(<<>>) = {} /\ Len(<<>>) + Len(<<>>) =< QueueMax /\ pc'[f] # "sent"
      BY <3>1, QueueEmpty, <1>07
    <3> QED
      BY <3>1, <3>2, <1>02, <2>0, <2>01, <2>02, <2>03, CopiesOfOne, StorableEmpty
  <2> QED
    BY <1>3, <2>1, <2>2, <2>3, <2>4, <2>5, <2>6 DEF Flush
<1>4. ASSUME NEW m \in wire, Server(m) PROVE Copies'
  <2>1. queue' = queue /\ copy' = copy /\ remain' = remain /\ pc' = pc /\ wire' \subseteq wire
    BY <1>4 DEF Server, Record, Duplicate, IdentifyAnswer, Refuse, Fail, Reply
  <2> QED
    BY <2>1 DEF Copies, Holding
<1>5. CASE KillApp
  <2>1. queue' = queue /\ wire' = wire
    BY <1>5 DEF KillApp
  <2>2. ASSUME NEW s \in Senders PROVE copy'[s] = <<>> /\ pc'[s] # "sent"
    BY <1>5, <1>05 DEF KillApp, Running
  <2>3. ASSUME NEW f \in Syncs PROVE remain'[f] = <<>>
    BY <1>5 DEF KillApp
  <2>4. Items(<<>>) \cap Items(<<>>) = {} /\ Len(<<>>) + Len(<<>>) =< QueueMax /\ Storable(<<>>, pc')
    BY QueueEmpty, StorableEmpty, <1>07
  <2>5. \A f \in Syncs : f \in Senders
    BY <1>04
  <2> QED
    BY <2>1, <2>2, <2>3, <2>4, <2>5, <1>00, <1>03 DEF Copies
<1>6. CASE Tick
  <2>1. queue' = queue /\ copy' = copy /\ remain' = remain /\ pc' = pc /\ wire' = wire
    BY <1>6 DEF Tick
  <2> QED
    BY <2>1 DEF Copies, Holding
<1> QED
  BY <1>1, <1>2, <1>3, <1>4, <1>5, <1>6 DEF QueueNext

-----------------------------------------------------------------------------
(* What is saved is not lost. *)

\* Every step keeps what is stored accounted for.
LEMMA AloneStep ==
    ASSUME QueueTypes, QueueTypes', Copies, Copies', Alone, [QueueNext]_queueVars
    PROVE  Alone'
<1> SUFFICES ASSUME ~overlapped'
             PROVE  /\ \A s, t \in Senders : Holding(s)' /\ Holding(t)' => s = t
                    /\ \A p \in Taps : Holding(p)' => copy'[p] = queue'
                    /\ \A f \in Syncs : Holding(f)' =>
                          Items(queue') \subseteq Items(remain'[f]) \cup Items(copy'[f]) \cup gone'
                    /\ saved' \subseteq Items(queue') \cup gone'
  BY DEF Alone
<1> USE DEF Goto, End, Enqueue, phone, history
<1>04. Taps \cap Syncs = {} /\ Taps \subseteq Senders /\ Syncs \subseteq Senders
  BY SendersAssumption DEF Senders
<1>05. pc \in [Senders -> {"idle", "sent", "read", "write", "next", "done"}]
  BY DEF QueueTypes
<1>06. /\ copy \in [Senders -> Seq(Taps)] /\ remain \in [Syncs -> Seq(Taps)]
       /\ queue \in Seq(Taps)
  BY DEF QueueTypes
<1>07. ASSUME ~overlapped
       PROVE  /\ \A s, t \in Senders : Holding(s) /\ Holding(t) => s = t
              /\ \A p \in Taps : Holding(p) => copy[p] = queue
              /\ \A f \in Syncs : Holding(f) =>
                    Items(queue) \subseteq Items(remain[f]) \cup Items(copy[f]) \cup gone
              /\ saved \subseteq Items(queue) \cup gone
  BY <1>07 DEF Alone
\* A step of one sender that leaves the queue alone, and its own part of the
\* promise in force.
<1>08. ASSUME ~overlapped, NEW s \in Senders,
              queue' = queue, saved' = saved, gone \subseteq gone',
              \A t \in Senders \ {s} : copy'[t] = copy[t] /\ pc'[t] = pc[t],
              \A f \in Syncs \ {s} : remain'[f] = remain[f],
              Holding(s)' => Holding(s) \/ \A t \in Senders \ {s} : ~Holding(t),
              Holding(s)' /\ s \in Taps => copy'[s] = queue,
              Holding(s)' /\ s \in Syncs =>
                 Items(queue) \subseteq Items(remain'[s]) \cup Items(copy'[s]) \cup gone'
       PROVE  /\ \A u, t \in Senders : Holding(u)' /\ Holding(t)' => u = t
              /\ \A p \in Taps : Holding(p)' => copy'[p] = queue'
              /\ \A f \in Syncs : Holding(f)' =>
                    Items(queue') \subseteq Items(remain'[f]) \cup Items(copy'[f]) \cup gone'
              /\ saved' \subseteq Items(queue') \cup gone'
  <2>1. \A t \in Senders \ {s} : Holding(t)' => Holding(t)
    BY <1>08 DEF Holding
  <2>2. \A u, t \in Senders : Holding(u)' /\ Holding(t)' => u = t
    BY <1>07, <1>08, <2>1
  <2>3. ASSUME NEW p \in Taps, Holding(p)' PROVE copy'[p] = queue'
    BY <1>04, <1>07, <1>08, <2>1, <2>3
  <2>4. ASSUME NEW f \in Syncs, Holding(f)'
        PROVE  Items(queue') \subseteq Items(remain'[f]) \cup Items(copy'[f]) \cup gone'
    <3>1. CASE f = s
      BY <1>08, <2>4, <3>1
    <3>2. CASE f # s
      <4>1. f \in Senders \ {s}
        BY <1>04, <3>2
      <4>2. Items(queue) \subseteq Items(remain[f]) \cup Items(copy[f]) \cup gone
        BY <1>07, <1>08, <2>1, <2>4, <4>1
      <4> QED
        BY <1>08, <4>1, <4>2
    <3> QED
      BY <3>1, <3>2
  <2>5. saved' \subseteq Items(queue') \cup gone'
    BY <1>07, <1>08
  <2> QED
    BY <2>2, <2>3, <2>4, <2>5
<1>1. CASE UNCHANGED queueVars
  BY <1>1, <1>07 DEF queueVars, Holding
<1>2. ASSUME NEW p \in Taps, TapStep(p)
      PROVE  /\ \A s, t \in Senders : Holding(s)' /\ Holding(t)' => s = t
             /\ \A q \in Taps : Holding(q)' => copy'[q] = queue'
             /\ \A f \in Syncs : Holding(f)' =>
                   Items(queue') \subseteq Items(remain'[f]) \cup Items(copy'[f]) \cup gone'
             /\ saved' \subseteq Items(queue') \cup gone'
  <2>0. p \in Senders /\ p \notin Syncs
    BY <1>04
  <2>01. \A t \in Senders \ {p} : copy'[t] = copy[t] /\ pc'[t] = pc[t]
    BY <1>2, <1>05, <1>06 DEF TapStep, Identified, NotIdentified, IdentifyOffline, Settled,
                              NotSettled, EnqueueRead, EnqueueWrite, ReadQueue
  <2>02. remain' = remain
    BY <1>2 DEF TapStep, Identified, NotIdentified, IdentifyOffline, Settled, NotSettled,
                EnqueueRead, EnqueueWrite
  <2>1. CASE Identified(p) \/ NotIdentified(p) \/ IdentifyOffline(p) \/ Settled(p) \/ NotSettled(p)
    <3>1. queue' = queue /\ saved' = saved /\ gone' = gone /\ overlapped' = overlapped
      BY <2>1 DEF Identified, NotIdentified, IdentifyOffline, Settled, NotSettled
    <3>2. pc'[p] \in {"sent", "read", "done"}
      BY <2>0, <2>1, <1>05 DEF Identified, NotIdentified, IdentifyOffline, Settled, NotSettled
    <3>3. ~Holding(p)'
      BY <2>0, <3>2 DEF Holding
    <3> QED
      BY <1>08, <2>0, <2>01, <2>02, <3>1, <3>3
  <2>2. CASE EnqueueRead(p)
    <3>1. /\ queue' = queue /\ saved' = saved /\ gone' = gone
          /\ overlapped' = (overlapped \/ \E t \in Senders \ {p} : Holding(t))
          /\ copy'[p] = queue
      BY <2>0, <2>2, <1>06 DEF EnqueueRead, ReadQueue
    <3> QED
      BY <1>08, <2>0, <2>01, <2>02, <3>1
  <2>3. CASE EnqueueWrite(p)
    <3> DEFINE next == Append(copy[p], p)
    <3>1. /\ saved' = saved \cup {p} /\ overlapped' = overlapped
          /\ gone' = IF Len(copy[p]) = QueueMax THEN gone \cup {Head(copy[p])} ELSE gone
          /\ queue' = IF Len(next) > QueueMax THEN Tail(next) ELSE next
          /\ pc'[p] = "done" /\ Holding(p)
      BY <2>0, <2>3, <1>05 DEF EnqueueWrite, Holding
    <3>2. \A t \in Senders : ~Holding(t)'
      <4>1. ~Holding(p)'
        BY <2>0, <3>1 DEF Holding
      <4>2. \A t \in Senders \ {p} : Holding(t)' => Holding(t)
        BY <2>01 DEF Holding
      <4> QED
        BY <1>07, <2>0, <3>1, <4>1, <4>2
    <3>3. copy[p] = queue /\ saved \subseteq Items(queue) \cup gone
      BY <1>07, <3>1
    <3>4. /\ copy[p] \in Seq(Taps) /\ next \in Seq(Taps) /\ next # <<>>
          /\ Items(next) = Items(copy[p]) \cup {p}
          /\ Len(copy[p]) \in Nat /\ Len(next) = Len(copy[p]) + 1
          /\ copy[p] # <<>> => Head(next) = Head(copy[p])
      BY <1>06, <2>0, StoredAppend
    <3> HIDE DEF next
    <3>5. Len(copy[p]) =< QueueMax
      BY <2>0 DEF Copies, Storable
    <3>6. Items(next) = {Head(next)} \cup Items(Tail(next))
      BY <3>4, QueueHead
    <3>7. CASE Len(next) > QueueMax
      <4>1. Len(copy[p]) = QueueMax /\ copy[p] # <<>>
        BY <3>4, <3>5, <3>7, BoundsAssumption, QueueEmpty
      <4> QED
        BY <1>04, <3>1, <3>2, <3>3, <3>4, <3>6, <3>7, <4>1
    <3>8. CASE ~(Len(next) > QueueMax)
      BY <1>04, <3>1, <3>2, <3>3, <3>4, <3>8
    <3> QED
      BY <3>7, <3>8
  <2> QED
    BY <1>2, <2>1, <2>2, <2>3 DEF TapStep
<1>3. ASSUME NEW f \in Syncs, Flush(f)
      PROVE  /\ \A s, t \in Senders : Holding(s)' /\ Holding(t)' => s = t
             /\ \A q \in Taps : Holding(q)' => copy'[q] = queue'
             /\ \A g \in Syncs : Holding(g)' =>
                   Items(queue') \subseteq Items(remain'[g]) \cup Items(copy'[g]) \cup gone'
             /\ saved' \subseteq Items(queue') \cup gone'
  <2>0. f \in Senders /\ f \notin Taps
    BY <1>04
  <2>01. \A t \in Senders \ {f} : copy'[t] = copy[t] /\ pc'[t] = pc[t]
    BY <1>3, <1>05, <1>06 DEF Flush, Sync, SyncRead, SyncSkip, SyncSend, SyncAccepted, SyncFailed,
                              SyncWrite, ReadQueue
  <2>02. \A g \in Syncs \ {f} : remain'[g] = remain[g]
    BY <1>3, <1>06 DEF Flush, Sync, SyncRead, SyncSkip, SyncSend, SyncAccepted, SyncFailed, SyncWrite
  <2>03. saved' = saved
    BY <1>3 DEF Flush, Sync, SyncRead, SyncSkip, SyncSend, SyncAccepted, SyncFailed, SyncWrite
  <2>04. ASSUME copy[f] # <<>>
         PROVE  /\ Items(copy[f]) = {Head(copy[f])} \cup Items(Tail(copy[f]))
                /\ Items(Append(remain[f], Head(copy[f]))) = Items(remain[f]) \cup {Head(copy[f])}
    <3>1. copy[f] \in Seq(Taps) /\ remain[f] \in Seq(Taps)
      BY <1>06, <2>0
    <3>2. Head(copy[f]) \in Taps /\ Items(copy[f]) = {Head(copy[f])} \cup Items(Tail(copy[f]))
      BY <3>1, <2>04, QueueHead
    <3> QED
      BY <3>1, <3>2, StoredAppend
  <2>1. CASE Sync(f)
    <3>1. /\ queue' = queue /\ gone' = gone /\ overlapped' = overlapped
          /\ pc'[f] = "read"
      BY <2>0, <2>1, <1>05 DEF Sync
    <3>2. ~Holding(f)'
      BY <2>0, <3>1 DEF Holding
    <3> QED
      BY <1>08, <2>0, <2>01, <2>02, <2>03, <3>1, <3>2
  <2>2. CASE SyncRead(f)
    <3>1. /\ queue' = queue /\ gone' = gone /\ copy'[f] = queue
          /\ overlapped' = (overlapped \/ \E t \in Senders \ {f} : Holding(t))
      BY <2>0, <2>2, <1>06 DEF SyncRead, ReadQueue
    <3> QED
      BY <1>08, <2>0, <2>01, <2>02, <2>03, <3>1
  <2>3. CASE SyncSkip(f) \/ SyncAccepted(f)
    <3>1. /\ queue' = queue /\ remain' = remain /\ copy'[f] = Tail(copy[f])
          /\ gone' = gone \cup {Head(copy[f])} /\ overlapped' = overlapped
          /\ copy[f] # <<>> /\ Holding(f)
      BY <2>0, <2>3, <1>05, <1>06 DEF SyncSkip, SyncAccepted, Copies, Holding
    <3>2. Items(queue) \subseteq Items(remain'[f]) \cup Items(copy'[f]) \cup gone'
      BY <1>07, <2>04, <3>1
    <3> QED
      BY <1>08, <2>0, <2>01, <2>02, <2>03, <3>1, <3>2
  <2>4. CASE SyncSend(f)
    <3>1. /\ queue' = queue /\ remain' = remain /\ copy' = copy
          /\ gone' = gone /\ overlapped' = overlapped /\ Holding(f)
      BY <2>0, <2>4, <1>05 DEF SyncSend, Holding
    <3> QED
      BY <1>07, <1>08, <2>0, <2>01, <2>02, <2>03, <3>1
  <2>5. CASE SyncFailed(f)
    <3>1. /\ queue' = queue /\ remain'[f] = Append(remain[f], Head(copy[f]))
          /\ copy'[f] = Tail(copy[f])
          /\ gone' = gone /\ overlapped' = overlapped
          /\ copy[f] # <<>> /\ Holding(f)
      BY <2>0, <2>5, <1>05, <1>06 DEF SyncFailed, Copies, Holding
    <3>2. Items(queue) \subseteq Items(remain'[f]) \cup Items(copy'[f]) \cup gone'
      BY <1>07, <2>04, <3>1
    <3> QED
      BY <1>08, <2>0, <2>01, <2>02, <2>03, <3>1, <3>2
  <2>6. CASE SyncWrite(f)
    <3>1. /\ queue' = remain[f] /\ gone' = gone /\ overlapped' = overlapped
          /\ copy[f] = <<>> /\ Holding(f) /\ pc'[f] = "done"
      BY <2>0, <2>6, <1>05 DEF SyncWrite, Holding
    <3>2. \A t \in Senders : ~Holding(t)'
      <4>1. ~Holding(f)'
        BY <2>0, <3>1 DEF Holding
      <4>2. \A t \in Senders \ {f} : Holding(t)' => Holding(t)
        BY <2>01 DEF Holding
      <4> QED
        BY <1>07, <2>0, <3>1, <4>1, <4>2
    <3>3. Items(queue) \subseteq Items(remain[f]) \cup gone
      BY <1>07, <3>1, QueueEmpty
    <3> QED
      BY <1>04, <1>07, <2>03, <3>1, <3>2, <3>3
  <2> QED
    BY <1>3, <2>1, <2>2, <2>3, <2>4, <2>5, <2>6 DEF Flush
<1>4. ASSUME NEW m \in wire, Server(m)
      PROVE  /\ queue' = queue /\ copy' = copy /\ remain' = remain /\ pc' = pc
             /\ saved' = saved /\ gone' = gone /\ overlapped' = overlapped
  BY <1>4 DEF Server, Record, Duplicate, IdentifyAnswer, Refuse, Fail
<1>5. CASE KillApp
  <2>1. queue' = queue /\ saved' = saved /\ gone' = gone /\ overlapped' = overlapped
    BY <1>5 DEF KillApp
  <2>2. \A s \in Senders : pc'[s] \in {"idle", "done"}
    BY <1>5, <1>05 DEF KillApp, Running
  <2>3. \A s \in Senders : ~Holding(s)'
    BY <2>2 DEF Holding
  <2> QED
    BY <1>04, <1>07, <2>1, <2>3
<1>6. CASE Tick
  BY <1>6, <1>07 DEF Tick, Holding
<1> QED
  BY <1>1, <1>2, <1>3, <1>4, <1>5, <1>6, <1>07 DEF QueueNext, Holding

-----------------------------------------------------------------------------
(* One press, one row. *)

\* The rows are of the same punches after a duplicate.
LEMMA DuplicateMoves ==
    ASSUME QueueTypes, NEW m \in wire, Duplicate(m)
    PROVE  /\ Recorded' = Recorded
           /\ \A r1, r2 \in logs' : r1.by = r2.by /\ r1 # r2 =>
                 \E s1, s2 \in logs : s1.by = r1.by /\ s2.by = r1.by /\ s1 # s2
<1>1. logs \subseteq [by : Taps, at : Time] /\ now \in Time
  BY DEF QueueTypes
<1> DEFINE moved(r) == [r EXCEPT !.at = now]
<1>2. \A r \in logs : moved(r).by = r.by /\ moved(r).at = now
  BY <1>1
<1>3. Earlier(m.tap) \subseteq logs
  BY DEF Earlier
<1>4. CASE type[m.tap] # "OUT"
  BY <1>4 DEF Duplicate, Recorded
<1>5. CASE type[m.tap] = "OUT"
  <2>1. logs' = (logs \ Earlier(m.tap)) \cup {moved(r) : r \in Earlier(m.tap)}
    BY <1>5 DEF Duplicate
  <2> HIDE DEF moved
  <2>2. Recorded' = Recorded
    BY <1>2, <1>3, <2>1 DEF Recorded
  <2>3. \A r, s \in logs : r.by = s.by /\ moved(r) # moved(s) => r # s
    OBVIOUS
  <2>4. ASSUME NEW r1 \in logs', NEW r2 \in logs', r1.by = r2.by, r1 # r2
        PROVE  \E s1, s2 \in logs : s1.by = r1.by /\ s2.by = r1.by /\ s1 # s2
    <3>1. PICK s1 \in logs : /\ s1.by = r1.by
                             /\ \/ s1 \notin Earlier(m.tap) /\ r1 = s1
                                \/ s1 \in Earlier(m.tap) /\ r1 = moved(s1)
      BY <1>2, <1>3, <2>1
    <3>2. PICK s2 \in logs : /\ s2.by = r2.by
                             /\ \/ s2 \notin Earlier(m.tap) /\ r2 = s2
                                \/ s2 \in Earlier(m.tap) /\ r2 = moved(s2)
      BY <1>2, <1>3, <2>1
    <3>3. s1 # s2
      BY <2>4, <3>1, <3>2
    <3> QED
      BY <2>4, <3>1, <3>2, <3>3
  <2> QED
    BY <2>2, <2>4
<1> QED
  BY <1>4, <1>5

\* A press that is on record and heard of stays out of whatever is sent again.
LEMMA OnceStep ==
    ASSUME QueueTypes, QueueTypes', Copies, Copies', Alone, Once, TwiceNeedsCause,
           [QueueNext]_queueVars
    PROVE  Once' /\ TwiceNeedsCause'
<1> USE DEF Goto, End, Enqueue, phone, history
<1>01. Taps \cap Syncs = {} /\ Taps \subseteq Senders /\ Syncs \subseteq Senders
  BY SendersAssumption DEF Senders
<1>02. /\ pc \in [Senders -> {"idle", "sent", "read", "write", "next", "done"}]
       /\ copy \in [Senders -> Seq(Taps)] /\ remain \in [Syncs -> Seq(Taps)]
       /\ queue \in Seq(Taps) /\ answer \in [Senders -> Answers \cup {NoReply}]
  BY DEF QueueTypes
<1>03. /\ wire \subseteq [from : Senders, tap : Taps]
       /\ Recorded \subseteq Taps
  BY DEF QueueTypes, Recorded
<1>04. ASSUME ~overlapped
       PROVE  /\ \A s, t \in Senders : Holding(s) /\ Holding(t) => s = t
              /\ \A s \in Senders : ~Holding(s) => copy[s] = <<>>
              /\ \A f \in Syncs : ~Holding(f) => remain[f] = <<>>
  BY <1>04 DEF Alone, Copies
<1>05. overlapped => overlapped'
  <2>1. ASSUME NEW p \in Taps, TapStep(p) PROVE overlapped => overlapped'
    BY <2>1 DEF TapStep, Identified, NotIdentified, IdentifyOffline, Settled, NotSettled,
                EnqueueRead, EnqueueWrite, ReadQueue
  <2>2. ASSUME NEW f \in Syncs, Flush(f) PROVE overlapped => overlapped'
    BY <2>2 DEF Flush, Sync, SyncRead, SyncSkip, SyncSend, SyncAccepted, SyncFailed, SyncWrite,
                ReadQueue
  <2>3. ASSUME NEW m \in wire, Server(m) PROVE overlapped => overlapped'
    BY <2>3 DEF Server, Record, Duplicate, IdentifyAnswer, Refuse, Fail
  <2> QED
    BY <2>1, <2>2, <2>3 DEF QueueNext, KillApp, Tick, queueVars
\* Copies of nobody, and of a sync that is over.
<1>06. Items(<<>>) = {}
  BY QueueEmpty
<1>1. CASE UNCHANGED queueVars
  BY <1>1 DEF queueVars, Once, TwiceNeedsCause, Recorded, KnownOnRecord, Waiting, Holding
\* The rows stay: what is known of each must be kept.
<1>2. ASSUME logs' = logs, unheard \subseteq unheard', killed => killed',
             \A p \in Recorded \ unheard' :
                 ~overlapped' /\ ~killed' /\ KnownOnRecord(p) => KnownOnRecord(p)'
      PROVE  Once' /\ TwiceNeedsCause'
  <2>1. TwiceNeedsCause'
    BY <1>05, <1>2 DEF TwiceNeedsCause
  <2>2. Recorded' = Recorded
    BY <1>2 DEF Recorded
  <2>3. Once'
    BY <1>05, <1>2, <2>2 DEF Once
  <2> QED
    BY <2>1, <2>3
<1>3. ASSUME NEW p \in Taps, TapStep(p) PROVE Once' /\ TwiceNeedsCause'
  <2>0. p \in Senders /\ p \notin Syncs
    BY <1>01
  <2>01. /\ \A t \in Senders \ {p} : copy'[t] = copy[t] /\ pc'[t] = pc[t] /\ answer'[t] = answer[t]
         /\ remain' = remain
    BY <1>3, <1>02 DEF TapStep, Identified, NotIdentified, IdentifyOffline, Settled,
                       NotSettled, EnqueueRead, EnqueueWrite, ReadQueue
  <2>02. /\ logs' = logs /\ unheard \subseteq unheard' /\ killed' = killed
    BY <1>3 DEF TapStep, Identified, NotIdentified, IdentifyOffline, Settled,
                NotSettled, EnqueueRead, EnqueueWrite
  <2>03. \A f \in Syncs : /\ f \in Senders \ {p} /\ pc'[f] = pc[f] /\ copy'[f] = copy[f]
                          /\ answer'[f] = answer[f] /\ (Holding(f)' <=> Holding(f))
    BY <1>01, <2>01 DEF Holding
  <2> SUFFICES ASSUME NEW q \in Recorded \ unheard', ~overlapped', ~killed', KnownOnRecord(q)
               PROVE  KnownOnRecord(q)'
    BY <1>2, <2>02
  <2>04. q \in Taps /\ q \in Senders
    BY <1>01, <1>03
  <2>05. \A f \in Syncs : /\ q \notin Items(remain'[f])
                          /\ q \in Items(copy'[f]) =>
                                pc'[f] = "sent" /\ Head(copy'[f]) = q /\ answer'[f] = "ok"
    BY <2>01, <2>03 DEF KnownOnRecord
  \* Nothing new about q is on the wire while p waits for no more than before.
  <2>06. ASSUME wire' = wire, pc'[p] = "sent" => pc[p] = "sent"
         PROVE  \A m \in wire' : m.tap = q => ~Waiting(m)'
    BY <1>01, <1>03, <2>01, <2>03, <2>06 DEF KnownOnRecord, Waiting
  <2>1. CASE Identified(p)
    <3>1. /\ pc[p] = "idle" /\ copy' = copy /\ queue' = queue /\ pc'[p] = "sent"
          /\ wire' = wire \cup {[from |-> p, tap |-> p]}
      BY <1>02, <2>0, <2>1 DEF Identified
    <3>2. q # p
      BY <3>1 DEF KnownOnRecord
    <3>3. \A m \in wire : m.tap = q => m.from # p
      BY <3>2 DEF Copies
    <3>4. \A m \in wire' : m.tap = q => ~Waiting(m)'
      BY <1>01, <1>03, <2>01, <2>03, <3>1, <3>2, <3>3 DEF KnownOnRecord, Waiting
    <3> QED
      BY <2>01, <2>03, <2>04, <2>05, <3>1, <3>2, <3>4 DEF KnownOnRecord
  <2>2. CASE NotIdentified(p) \/ IdentifyOffline(p)
    <3>1. /\ pc[p] = "idle" /\ copy' = copy /\ queue' = queue /\ wire' = wire
          /\ pc'[p] \in {"read", "done"}
      BY <1>02, <2>0, <2>2 DEF NotIdentified, IdentifyOffline
    <3>2. q # p
      BY <3>1 DEF KnownOnRecord
    <3> QED
      BY <2>01, <2>03, <2>04, <2>05, <2>06, <3>1, <3>2 DEF KnownOnRecord
  <2>3. CASE Settled(p)
    <3>1. /\ queue' = queue /\ wire' = wire /\ pc'[p] = "done" /\ copy'[p] = <<>>
      BY <1>02, <2>0, <2>3 DEF Settled
    <3> QED
      BY <1>01, <1>06, <2>01, <2>03, <2>04, <2>05, <2>06, <3>1 DEF KnownOnRecord
  <2>4. CASE NotSettled(p)
    <3>1. /\ queue' = queue /\ wire' = wire /\ copy' = copy /\ pc'[p] = "read"
          /\ pc[p] = "sent"
          /\ unheard' = IF answer[p] = "ok" THEN unheard \cup {p} ELSE unheard
      BY <1>02, <2>0, <2>4 DEF NotSettled
    <3>2. q # p
      BY <3>1 DEF KnownOnRecord
    <3> QED
      BY <2>01, <2>03, <2>04, <2>05, <2>06, <3>1, <3>2 DEF KnownOnRecord
  <2>5. CASE EnqueueRead(p)
    <3>1. /\ queue' = queue /\ wire' = wire /\ copy'[p] = queue /\ pc'[p] = "write"
          /\ pc[p] = "read" /\ ~\E t \in Senders \ {p} : Holding(t)
      BY <1>02, <2>0, <2>5 DEF EnqueueRead, ReadQueue
    <3>2. q # p /\ q \notin Items(queue)
      BY <2>03, <3>1 DEF KnownOnRecord
    <3> QED
      BY <1>01, <2>01, <2>03, <2>04, <2>05, <2>06, <3>1, <3>2 DEF KnownOnRecord
  <2>6. CASE EnqueueWrite(p)
    <3> DEFINE next == Append(copy[p], p)
    <3>1. /\ wire' = wire /\ copy'[p] = <<>> /\ pc'[p] = "done" /\ pc[p] = "write"
          /\ queue' = IF Len(next) > QueueMax THEN Tail(next) ELSE next
      BY <1>02, <2>0, <2>6 DEF EnqueueWrite
    <3>2. q # p /\ q \notin Items(copy[p])
      BY <3>1 DEF KnownOnRecord
    <3>3. Items(next) = Items(copy[p]) \cup {p} /\ next \in Seq(Taps) /\ next # <<>>
      BY <1>02, <2>0, StoredAppend
    <3> HIDE DEF next
    <3>4. Items(next) = {Head(next)} \cup Items(Tail(next))
      BY <3>3, QueueHead
    <3>5. q \notin Items(queue')
      BY <3>1, <3>2, <3>3, <3>4
    <3> QED
      BY <1>01, <1>06, <2>01, <2>03, <2>04, <2>05, <2>06, <3>1, <3>2, <3>5 DEF KnownOnRecord
  <2> QED
    BY <1>3, <2>1, <2>2, <2>3, <2>4, <2>5, <2>6 DEF TapStep
<1>4. ASSUME NEW f \in Syncs, Flush(f) PROVE Once' /\ TwiceNeedsCause'
  <2>0. f \in Senders /\ f \notin Taps
    BY <1>01
  <2>01. /\ \A t \in Senders \ {f} : copy'[t] = copy[t] /\ pc'[t] = pc[t] /\ answer'[t] = answer[t]
         /\ \A g \in Syncs \ {f} : remain'[g] = remain[g]
    BY <1>4, <1>02 DEF Flush, Sync, SyncRead, SyncSkip, SyncSend, SyncAccepted, SyncFailed,
                       SyncWrite, ReadQueue
  <2>02. /\ logs' = logs /\ unheard \subseteq unheard' /\ killed' = killed
    BY <1>4 DEF Flush, Sync, SyncRead, SyncSkip, SyncSend, SyncAccepted, SyncFailed, SyncWrite
  <2>03. \A g \in Syncs \ {f} : /\ g \in Senders \ {f}
                                /\ pc'[g] = pc[g] /\ copy'[g] = copy[g]
                                /\ answer'[g] = answer[g] /\ (Holding(g)' <=> Holding(g))
    BY <1>01, <2>01 DEF Holding
  <2> SUFFICES ASSUME NEW q \in Recorded \ unheard', ~overlapped', ~killed', KnownOnRecord(q)
               PROVE  KnownOnRecord(q)'
    BY <1>2, <2>02
  <2>04. q \in Taps /\ q \in Senders \ {f}
    BY <1>01, <1>03, <2>0
  <2>05. /\ pc'[q] \in {"sent", "done"} /\ (pc'[q] = "sent" => answer'[q] = "ok")
         /\ \A t \in Taps : q \notin Items(copy'[t])
    BY <1>01, <2>0, <2>01, <2>04 DEF KnownOnRecord
  \* It is enough to look at the copies of f, at the queue and at what f sends.
  <2>06. ASSUME q \notin Items(remain'[f]),
                q \in Items(copy'[f]) =>
                    pc'[f] = "sent" /\ Head(copy'[f]) = q /\ answer'[f] = "ok",
                q \in Items(queue') => \E g \in Syncs : Holding(g)',
                \A m \in wire' : m.tap = q /\ m.from = f => ~Waiting(m)',
                \A m \in wire' : m.tap = q => m \in wire \/ m.from = f
         PROVE  KnownOnRecord(q)'
    <3>1. \A m \in wire' : m.tap = q => ~Waiting(m)'
      <4> SUFFICES ASSUME NEW m \in wire', m.tap = q, m.from # f
                   PROVE  ~Waiting(m)'
        BY <2>06
      <4>1. m \in wire /\ m.from \in Senders \ {f}
        BY <1>03, <2>06
      <4>2. ~Waiting(m)
        BY <4>1 DEF KnownOnRecord
      <4> QED
        BY <2>01, <4>1, <4>2 DEF Waiting
    <3>2. \A g \in Syncs : /\ q \notin Items(remain'[g])
                           /\ q \in Items(copy'[g]) =>
                                 pc'[g] = "sent" /\ Head(copy'[g]) = q /\ answer'[g] = "ok"
      BY <2>01, <2>03, <2>06 DEF KnownOnRecord
    <3> QED
      BY <2>05, <2>06, <3>1, <3>2 DEF KnownOnRecord
  <2>07. ASSUME copy[f] # <<>>
         PROVE  /\ Head(copy[f]) \in Taps
                /\ Items(copy[f]) = {Head(copy[f])} \cup Items(Tail(copy[f]))
                /\ Head(copy[f]) \notin Items(Tail(copy[f]))
                /\ Items(Append(remain[f], Head(copy[f]))) = Items(remain[f]) \cup {Head(copy[f])}
    <3>1. copy[f] \in Seq(Taps) /\ remain[f] \in Seq(Taps) /\ Unrepeated(copy[f])
      BY <1>02, <2>0 DEF Copies, Storable
    <3>2. /\ Head(copy[f]) \in Taps
          /\ Items(copy[f]) = {Head(copy[f])} \cup Items(Tail(copy[f]))
          /\ Head(copy[f]) \notin Items(Tail(copy[f]))
      BY <3>1, <2>07, QueueHead
    <3> QED
      BY <3>1, <3>2, StoredAppend
  <2>08. q \notin Items(remain[f]) /\ (pc[f] # "sent" => q \notin Items(copy[f]))
    BY DEF KnownOnRecord
  <2>1. CASE Sync(f)
    <3>1. /\ queue' = queue /\ remain' = remain /\ copy' = copy /\ wire' = wire
          /\ pc[f] = "idle" /\ pc'[f] = "read"
      BY <1>02, <2>0, <2>1 DEF Sync
    <3>2. ~Holding(f)
      BY <2>0, <3>1 DEF Holding
    <3>3. q \in Items(queue') => \E g \in Syncs : Holding(g)'
      BY <2>03, <3>1, <3>2 DEF KnownOnRecord
    <3>4. \A m \in wire' : m.tap = q /\ m.from = f => ~Waiting(m)'
      BY <3>1 DEF Waiting
    <3> QED
      BY <2>06, <2>08, <3>1, <3>3, <3>4
  <2>2. CASE SyncRead(f)
    <3>1. /\ queue' = queue /\ remain' = remain /\ copy'[f] = queue /\ wire' = wire
          /\ pc[f] = "read" /\ pc'[f] = "next" /\ ~\E t \in Senders \ {f} : Holding(t)
      BY <1>02, <2>0, <2>2 DEF SyncRead, ReadQueue
    <3>2. ~Holding(f)
      BY <2>0, <3>1 DEF Holding
    <3>3. q \notin Items(queue)
      BY <1>01, <3>1, <3>2 DEF KnownOnRecord
    <3>4. \A m \in wire' : m.tap = q /\ m.from = f => ~Waiting(m)'
      BY <3>1 DEF Waiting
    <3> QED
      BY <2>06, <2>08, <3>1, <3>3, <3>4
  <2>3. CASE SyncSkip(f) \/ SyncAccepted(f)
    <3>1. /\ queue' = queue /\ remain' = remain /\ copy'[f] = Tail(copy[f]) /\ wire' = wire
          /\ copy[f] # <<>> /\ pc'[f] = "next"
      BY <1>02, <2>0, <2>3 DEF SyncSkip, SyncAccepted, Copies
    <3>2. q \notin Items(copy'[f])
      BY <2>07, <3>1 DEF KnownOnRecord
    <3>3. \A m \in wire' : m.tap = q /\ m.from = f => ~Waiting(m)'
      BY <3>1 DEF Waiting
    <3>4. Holding(f)'
      BY <2>0, <3>1 DEF Holding
    <3> QED
      BY <2>06, <2>08, <3>1, <3>2, <3>3, <3>4
  <2>4. CASE SyncSend(f)
    <3>1. /\ queue' = queue /\ remain' = remain /\ copy' = copy
          /\ wire' = wire \cup {[from |-> f, tap |-> Head(copy[f])]}
          /\ copy[f] # <<>> /\ pc[f] = "next" /\ pc'[f] = "sent"
      BY <1>02, <2>0, <2>4 DEF SyncSend
    <3>2. q \notin Items(copy[f]) /\ q # Head(copy[f])
      BY <2>07, <2>08, <3>1
    <3>3. \A m \in wire' : m.tap = q /\ m.from = f => ~Waiting(m)'
      BY <3>1, <3>2 DEF Waiting
    <3>4. Holding(f)'
      BY <2>0, <3>1 DEF Holding
    <3>5. \A m \in wire' : m.tap = q => m \in wire \/ m.from = f
      BY <3>1
    <3> QED
      BY <2>06, <2>08, <3>1, <3>2, <3>3, <3>4, <3>5
  <2>5. CASE SyncFailed(f)
    <3>1. /\ queue' = queue /\ remain'[f] = Append(remain[f], Head(copy[f]))
          /\ copy'[f] = Tail(copy[f]) /\ wire' = wire
          /\ copy[f] # <<>> /\ pc'[f] = "next"
          /\ unheard' = IF answer[f] = "ok" THEN unheard \cup {Head(copy[f])} ELSE unheard
      BY <1>02, <2>0, <2>5 DEF SyncFailed, Copies
    <3>2. q \notin Items(copy[f])
      BY <3>1 DEF KnownOnRecord
    <3>3. q \notin Items(remain'[f]) /\ q \notin Items(copy'[f])
      BY <2>07, <2>08, <3>1, <3>2
    <3>4. \A m \in wire' : m.tap = q /\ m.from = f => ~Waiting(m)'
      BY <3>1 DEF Waiting
    <3>5. Holding(f)'
      BY <2>0, <3>1 DEF Holding
    <3> QED
      BY <2>06, <3>1, <3>3, <3>4, <3>5
  <2>6. CASE SyncWrite(f)
    <3>1. /\ queue' = remain[f] /\ remain'[f] = <<>> /\ copy'[f] = <<>> /\ wire' = wire
          /\ pc'[f] = "done"
      BY <1>02, <2>0, <2>6 DEF SyncWrite
    <3>2. \A m \in wire' : m.tap = q /\ m.from = f => ~Waiting(m)'
      BY <3>1 DEF Waiting
    <3> QED
      BY <1>06, <2>06, <2>08, <3>1, <3>2
  <2> QED
    BY <1>4, <2>1, <2>2, <2>3, <2>4, <2>5, <2>6 DEF Flush
<1>5. ASSUME NEW m \in wire, Server(m) PROVE Once' /\ TwiceNeedsCause'
  <2>01. /\ m.from \in Senders /\ m.tap \in Taps /\ (m.from \in Taps => m.tap = m.from)
    BY <1>03 DEF Copies
  <2>02. /\ queue' = queue /\ copy' = copy /\ remain' = remain /\ pc' = pc
         /\ wire' = wire \ {m} /\ killed' = killed /\ overlapped' = overlapped
         /\ unheard \subseteq unheard'
         /\ answer' # answer => Waiting(m)
         /\ \A s \in Senders \ {m.from} : answer'[s] = answer[s]
    BY <1>02, <1>5, <2>01 DEF Server, Record, Duplicate, IdentifyAnswer, Refuse, Fail, Reply
  <2>03. (\A n : Waiting(n)' <=> Waiting(n)) /\ (\A s : Holding(s)' <=> Holding(s))
    BY <2>02 DEF Waiting, Holding
  \* What was known of a press stays so: no waiting request is about it.
  <2>04. ASSUME NEW q \in Taps, ~overlapped', ~killed', KnownOnRecord(q)
         PROVE  KnownOnRecord(q)'
    <3>1. Waiting(m) => m.tap # q
      BY <2>04 DEF KnownOnRecord
    <3>2. pc[q] = "sent" => answer'[q] = "ok"
      BY <1>01, <2>01, <2>02, <2>04, <3>1 DEF KnownOnRecord, Waiting
    <3>3. ASSUME NEW f \in Syncs, q \in Items(copy[f])
          PROVE  pc[f] = "sent" /\ Head(copy[f]) = q /\ answer'[f] = "ok"
      <4>1. pc[f] = "sent" /\ Head(copy[f]) = q /\ answer[f] = "ok"
        BY <2>04, <3>3 DEF KnownOnRecord
      <4>2. Waiting(m) => m.from # f
        BY <3>1, <4>1 DEF Waiting
      <4> QED
        BY <1>01, <2>01, <2>02, <4>1, <4>2
    <3> QED
      BY <2>02, <2>03, <2>04, <3>2, <3>3 DEF KnownOnRecord
  <2>1. CASE Record(m)
    <3>1. /\ logs' = logs \cup {[by |-> m.tap, at |-> now]}
          /\ unheard' = IF Waiting(m) THEN unheard ELSE unheard \cup {m.tap}
          /\ Waiting(m) => answer' = [answer EXCEPT ![m.from] = "ok"]
      BY <2>1 DEF Record, Reply
    <3>2. Recorded' = Recorded \cup {m.tap}
      <4>1. Recorded' = {r.by : r \in logs'}
        BY DEF Recorded
      <4>2. \A r \in logs' : r \in logs \/ r.by = m.tap
        BY <3>1
      <4>3. /\ [by |-> m.tap, at |-> now] \in logs' /\ [by |-> m.tap, at |-> now].by = m.tap
            /\ logs \subseteq logs'
        BY <3>1
      <4> QED
        BY <4>1, <4>2, <4>3 DEF Recorded
    <3>3. TwiceNeedsCause'
      <4> SUFFICES ASSUME NEW r1 \in logs', NEW r2 \in logs', r1.by = r2.by, r1 # r2,
                          r1.by \notin unheard', ~killed', ~overlapped'
                   PROVE  FALSE
        BY DEF TwiceNeedsCause
      <4>1. ~(r1 \in logs /\ r2 \in logs)
        BY <2>02 DEF TwiceNeedsCause
      <4>2. r1.by = m.tap /\ m.tap \in Recorded
        BY <3>1, <4>1 DEF Recorded
      <4>3. Waiting(m) /\ m.tap \notin unheard
        BY <2>02, <3>1, <4>2
      <4> QED
        BY <2>02, <4>2, <4>3 DEF Once, KnownOnRecord
    <3>4. ASSUME ~overlapped', ~killed', m.tap \notin unheard'
          PROVE  KnownOnRecord(m.tap)'
      <4>1. Waiting(m) /\ answer'[m.from] = "ok"
        BY <1>02, <2>01, <3>1, <3>4
      <4>2. CASE m.from \in Taps
        <5>1. m.tap = m.from /\ pc[m.tap] = "sent"
          BY <2>01, <4>1, <4>2 DEF Waiting
        <5>2. /\ m.tap \notin Items(queue)
              /\ \A s \in Senders : m.tap \notin Items(copy[s])
              /\ \A f \in Syncs : m.tap \notin Items(remain[f])
          BY <5>1 DEF Copies, Storable
        <5>3. \A n \in wire' : n.tap = m.tap => ~Waiting(n)'
          <6> SUFFICES ASSUME NEW n \in wire, n # m, n.tap = m.tap, Waiting(n)
                       PROVE  FALSE
            BY <2>02, <2>03
          <6>1. n.from \in Senders /\ m = [from |-> m.from, tap |-> m.tap]
                /\ n = [from |-> n.from, tap |-> n.tap]
            BY <1>03
          <6>2. n.from \in Syncs
            BY <5>1, <6>1 DEF Copies, Senders
          <6>3. copy[n.from] \in Seq(Taps) /\ copy[n.from] # <<>> /\ Head(copy[n.from]) = m.tap
            BY <1>02, <6>1, <6>2 DEF Waiting
          <6> QED
            BY <5>2, <6>1, <6>3, QueueHead
        <5> QED
          BY <1>01, <2>02, <4>1, <5>1, <5>2, <5>3 DEF KnownOnRecord
      <4>3. CASE m.from \in Syncs
        <5> DEFINE f == m.from
        <5>1. pc[f] = "sent" /\ copy[f] # <<>> /\ Head(copy[f]) = m.tap
          BY <4>1, <4>3 DEF Waiting
        <5>2. Holding(f)
          BY <4>3, <5>1 DEF Holding
        <5>3. /\ copy[f] \in Seq(Taps) /\ Items(copy[f]) = {m.tap} \cup Items(Tail(copy[f]))
          BY <1>02, <2>01, <5>1, QueueHead
        <5>4. pc[m.tap] = "done" /\ m.tap \notin Items(remain[f])
          BY <2>01, <4>3, <5>3 DEF Copies, Storable
        <5>5. \A s \in Senders \ {f} : ~Holding(s) /\ Items(copy[s]) = {}
          BY <1>04, <1>06, <2>01, <2>02, <3>4, <5>2
        <5>6. \A g \in Syncs \ {f} : Items(remain[g]) = {}
          BY <1>01, <1>04, <1>06, <2>02, <3>4, <5>5
        <5>7. \A n \in wire' : n.tap = m.tap => ~Waiting(n)'
          <6> SUFFICES ASSUME NEW n \in wire, n # m, n.tap = m.tap, Waiting(n)
                       PROVE  FALSE
            BY <2>02, <2>03
          <6>1. n.from \in Senders /\ m = [from |-> m.from, tap |-> m.tap]
                /\ n = [from |-> n.from, tap |-> n.tap]
            BY <1>03
          <6>2. n.from # f
            BY <6>1
          <6>3. CASE n.from \in Taps
            BY <5>4, <6>3 DEF Copies, Waiting
          <6>4. CASE n.from \in Syncs
            BY <5>5, <6>1, <6>2, <6>4 DEF Waiting, Holding
          <6> QED
            BY <6>1, <6>3, <6>4 DEF Senders
        <5> HIDE DEF f
        <5>8. f \in Syncs /\ answer'[f] = "ok" /\ f \in Senders
          BY <1>01, <4>1, <4>3 DEF f
        <5>9. \A t \in Taps : m.tap \notin Items(copy[t])
          BY <1>01, <5>5, <5>8
        <5>10. \A g \in Syncs : /\ m.tap \notin Items(remain[g])
                                /\ m.tap \in Items(copy[g]) =>
                                      pc[g] = "sent" /\ Head(copy[g]) = m.tap /\ answer'[g] = "ok"
          BY <1>01, <5>1, <5>4, <5>5, <5>6, <5>8
        <5> QED
          BY <2>02, <2>03, <5>2, <5>4, <5>7, <5>8, <5>9, <5>10 DEF KnownOnRecord
      <4> QED
        BY <2>01, <4>2, <4>3 DEF Senders
    <3>5. Once'
      BY <1>03, <2>02, <2>04, <3>2, <3>4 DEF Once
    <3> QED
      BY <3>3, <3>5
  <2>2. CASE Duplicate(m)
    <3>1. /\ Recorded' = Recorded
          /\ \A r1, r2 \in logs' : r1.by = r2.by /\ r1 # r2 =>
                \E s1, s2 \in logs : s1.by = r1.by /\ s2.by = r1.by /\ s1 # s2
      BY <2>2, DuplicateMoves
    <3>2. unheard' = unheard
      BY <2>2 DEF Duplicate
    <3>3. TwiceNeedsCause'
      BY <2>02, <3>1, <3>2 DEF TwiceNeedsCause
    <3>4. Once'
      BY <1>03, <2>02, <2>04, <3>1, <3>2 DEF Once
    <3> QED
      BY <3>3, <3>4
  <2>3. CASE IdentifyAnswer(m) \/ Refuse(m) \/ Fail(m)
    <3>1. logs' = logs
      BY <2>3 DEF IdentifyAnswer, Refuse, Fail
    <3> QED
      BY <1>03, <1>2, <2>02, <2>04, <3>1
  <2> QED
    BY <1>5, <2>1, <2>2, <2>3 DEF Server
<1>6. CASE KillApp
  BY <1>2, <1>6 DEF KillApp
<1>7. CASE Tick
  <2>1. logs' = logs /\ unheard' = unheard /\ killed' = killed
    BY <1>7 DEF Tick
  <2>2. ASSUME NEW q, KnownOnRecord(q) PROVE KnownOnRecord(q)'
    BY <1>7, <2>2 DEF Tick, KnownOnRecord, Waiting, Holding
  <2> QED
    BY <1>2, <2>1, <2>2
<1> QED
  BY <1>1, <1>3, <1>4, <1>5, <1>6, <1>7 DEF QueueNext

-----------------------------------------------------------------------------
(* The theorems. *)

LEMMA QueueInitInv == QueueInit => QueueInv
<1> SUFFICES ASSUME QueueInit PROVE QueueInv
  OBVIOUS
<1>1. QueueTypes
  BY QueueInitTypes
<1>2. /\ queue = <<>> /\ wire = {} /\ logs = {} /\ saved = {}
      /\ \A s \in Senders : copy[s] = <<>> /\ pc[s] = "idle"
      /\ \A f \in Syncs : f \in Senders /\ remain[f] = <<>>
  BY DEF QueueInit, Senders
<1>3. Storable(<<>>, pc) /\ Items(<<>>) = {} /\ Len(<<>>) = 0
  BY QueueEmpty, StorableEmpty
<1>4. \A s \in Senders : ~Holding(s)
  BY <1>2 DEF Holding
<1>5. Copies
  <2>1. Items(<<>>) \cap Items(<<>>) = {} /\ Len(<<>>) + Len(<<>>) =< QueueMax
    BY <1>3, BoundsAssumption
  <2>2. \A f \in Syncs : pc[f] # "sent"
    BY <1>2
  <2> QED
    BY <1>2, <1>3, <2>1, <2>2 DEF Copies
<1>6. Alone
  BY <1>2, <1>4 DEF Alone, Senders
<1>7. Once /\ TwiceNeedsCause
  BY <1>2 DEF Once, Recorded, TwiceNeedsCause
<1> QED
  BY <1>1, <1>5, <1>6, <1>7 DEF QueueInv

LEMMA QueueInvStep == QueueInv /\ [QueueNext]_queueVars => QueueInv'
<1> SUFFICES ASSUME QueueInv, [QueueNext]_queueVars PROVE QueueInv'
  OBVIOUS
<1> USE DEF QueueInv
<1>1. QueueTypes'
  BY QueueTypesStep
<1>2. Copies'
  BY <1>1, CopiesStep
<1>3. Alone'
  BY <1>1, <1>2, AloneStep
<1>4. Once' /\ TwiceNeedsCause'
  BY <1>1, <1>2, OnceStep
<1> QED
  BY <1>1, <1>2, <1>3, <1>4

LEMMA QueueInvariance == QueueSpec => []QueueInv
BY QueueInitInv, QueueInvStep, PTL DEF QueueSpec

\* Whatever the app said it "Saved offline" is in the stored queue, accepted by
\* the server, too old or pushed out, however often the app is killed and
\* whatever the network does, unless two uses of the queue overlapped
\* (storage.enqueue, api.flushQueue).
THEOREM LossNeedsOverlapCorrect == QueueSpec => []LossNeedsOverlap
<1>1. QueueInv => LossNeedsOverlap
  BY DEF QueueInv, Alone, LossNeedsOverlap
<1> QED
  BY <1>1, QueueInvariance, PTL

\* One press of a clock button gives one row at most, on whatever days it is
\* replayed, unless its acceptance was never heard, the app was killed, or two
\* uses of the queue overlapped (KioskScreen.captureAndIdentify, api.flushQueue).
THEOREM TwiceNeedsCauseCorrect == QueueSpec => []TwiceNeedsCause
<1>1. QueueInv => TwiceNeedsCause
  BY DEF QueueInv
<1> QED
  BY <1>1, QueueInvariance, PTL
=============================================================================
