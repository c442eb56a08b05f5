---------------------------- MODULE OfflineQueue ----------------------------
(***************************************************************************)
(* The offline queue of the mobile app: KioskScreen.captureAndIdentify     *)
(* sends a punch and saves it on the phone when the answer does not come,  *)
(* Settings > Sync replays what was saved.  The server is the atomic book  *)
(* of module PunchBook with the answers of AttendanceService.create; the   *)
(* network may lose a request, lose an answer, or deliver a request after  *)
(* the phone has given it up.                                              *)
(*                                                                         *)
(* A tap is one press of Clock In or Clock Out, and names what it saves.   *)
(* pc[s] names the await that tap or sync s is suspended in.               *)
(***************************************************************************)
EXTENDS Integers, Sequences

CONSTANTS
    Employees,  \* people in front of the phone
    Taps,       \* one element per press of a clock button
    Syncs,      \* one element per press of Sync Offline Queue
    DayOf,      \* calendar day of an instant
    Keep,       \* how long a saved punch is worth sending (24 hours)
    QueueMax,   \* punches the phone keeps (50)
    MaxTime,    \* bound: the last instant of the model
    NoReply     \* no answer yet

Senders == Taps \cup Syncs
Time    == 0 .. MaxTime
Answers == {"ok", "duplicate", "refused", "error"}

ASSUME SendersAssumption == Taps \cap Syncs = {} /\ NoReply \notin Answers

ASSUME BoundsAssumption ==
    Keep \in Nat /\ QueueMax \in Nat \ {0} /\ MaxTime \in Nat /\ DayOf \in [Time -> Nat]

VARIABLES
    now,        \* the clock, of phone and server alike
    owner, type,  \* whose punch a tap is, and "IN" or "OUT"
    path,       \* the request a saved tap repeats
    created,    \* createdAt of a saved tap
    queue,      \* AsyncStorage offline_queue: survives the app
    pc,         \* the await a tap or a sync is suspended in
    copy,       \* the queue as a tap or a sync has read it
    remain,     \* the items a sync will write back
    answer,     \* the answer on its way to a sender
    wire,       \* requests the server has not served yet
    logs,       \* attendance_logs: the tap that inserted a row, and its time
    saved,      \* history: taps that reached the queue
    gone,       \* history: taps accepted, or too old, or pushed out by newer ones
    unheard,    \* history: taps whose acceptance never reached the phone
    overlapped, \* history: two uses of the stored queue overlapped
    killed      \* history: the app was killed

phone   == <<queue, pc, copy, remain, path, created>>
history == <<saved, gone, unheard, overlapped, killed>>
queueVars == <<now, owner, type, phone, answer, wire, logs, history>>

QueueInit ==
    /\ now = 0
    /\ owner \in [Taps -> Employees]
    /\ type \in [Taps -> {"IN", "OUT"}]
    /\ path = [p \in Taps |-> "attendance"]
    /\ created = [p \in Taps |-> 0]
    /\ queue = <<>>
    /\ pc = [s \in Senders |-> "idle"]
    /\ copy = [s \in Senders |-> <<>>]
    /\ remain = [f \in Syncs |-> <<>>]
    /\ answer = [s \in Senders |-> NoReply]
    /\ wire = {}
    /\ logs = {}
    /\ saved = {} /\ gone = {} /\ unheard = {}
    /\ overlapped = FALSE /\ killed = FALSE

Items(q) == {q[i] : i \in DOMAIN q}

Goto(s, step) == pc' = [pc EXCEPT ![s] = step]

Running(s) == pc[s] \notin {"idle", "done"}

Busy == \E p \in Taps : Running(p)

\* Sender s ends, and its local variables with it.
End(s) ==
    /\ Goto(s, "done")
    /\ copy' = [copy EXCEPT ![s] = <<>>]
    /\ answer' = [answer EXCEPT ![s] = NoReply]

\* Between reading the stored queue and writing it back.
Holding(s) ==
    \/ s \in Taps /\ pc[s] = "write"
    \/ s \in Syncs /\ pc[s] \in {"next", "sent"}

\* AsyncStorage.getItem answers sender s.
ReadQueue(s) ==
    /\ copy' = [copy EXCEPT ![s] = queue]
    /\ overlapped' = (overlapped \/ \E t \in Senders \ {s} : Holding(t))

-----------------------------------------------------------------------------
(* KioskScreen.captureAndIdentify. *)

\* A clock button is pressed (disabled while a capture is busy), and POST
\* /attend/identify knows the face: the punch is sent.
Identified(p) ==
    /\ pc[p] = "idle" /\ ~Busy
    /\ wire' = wire \cup {[from |-> p, tap |-> p]}
    /\ Goto(p, "sent")
    /\ UNCHANGED <<now, owner, type, path, created, queue, copy, remain, answer, logs, history>>

\* The face is not known, or the request is refused: nothing is saved.
NotIdentified(p) ==
    /\ pc[p] = "idle" /\ ~Busy
    /\ Goto(p, "done")
    /\ UNCHANGED <<now, owner, type, path, created, queue, copy, remain, answer, wire, logs, history>>

\* storage.enqueue is called for a request to pa: the stored queue is read.
Enqueue(p, pa) ==
    /\ path' = [path EXCEPT ![p] = pa]
    /\ created' = [created EXCEPT ![p] = now]
    /\ Goto(p, "read")

\* No network at /attend/identify: that request is saved, not the punch.
IdentifyOffline(p) ==
    /\ pc[p] = "idle" /\ ~Busy
    /\ Enqueue(p, "identify")
    /\ UNCHANGED <<now, owner, type, queue, copy, remain, answer, wire, logs, history>>

\* An answer to POST /attendance that ends the capture.
Settled(p) ==
    /\ pc[p] = "sent"
    /\ answer[p] \in {"ok", "duplicate", "refused"}
    /\ End(p)
    /\ UNCHANGED <<now, owner, type, path, created, queue, remain, wire, logs, history>>

\* Any other answer, or a connection that breaks off whatever the server has
\* done or may still do: the punch is saved.
NotSettled(p) ==
    /\ pc[p] = "sent"
    /\ Enqueue(p, "attendance")
    /\ answer' = [answer EXCEPT ![p] = NoReply]
    /\ unheard' = IF answer[p] = "ok" THEN unheard \cup {p} ELSE unheard
    /\ UNCHANGED <<now, owner, type, queue, copy, remain, wire, logs,
                   saved, gone, overlapped, killed>>

\* storage.enqueue: getQueue answers.
EnqueueRead(p) ==
    /\ pc[p] = "read"
    /\ p \in Taps
    /\ ReadQueue(p)
    /\ Goto(p, "write")
    /\ UNCHANGED <<now, owner, type, path, created, queue, remain, answer, wire, logs,
                   saved, gone, unheard, killed>>

\* storage.enqueue: the queue as it was read, and the tap, go back; beyond
\* QueueMax the oldest one is lost.
EnqueueWrite(p) ==
    /\ pc[p] = "write"
    /\ p \in Taps
    /\ LET next == Append(copy[p], p)
       IN  queue' = IF Len(next) > QueueMax THEN Tail(next) ELSE next
    /\ saved' = saved \cup {p}
    /\ gone' = IF Len(copy[p]) = QueueMax THEN gone \cup {Head(copy[p])} ELSE gone
    /\ End(p)
    /\ UNCHANGED <<now, owner, type, path, created, remain, wire, logs,
                   unheard, overlapped, killed>>

-----------------------------------------------------------------------------
(* SettingsScreen.flush and api.flushQueue. *)

\* The Sync button is never disabled.
Sync(f) ==
    /\ pc[f] = "idle"
    /\ Goto(f, "read")
    /\ UNCHANGED <<now, owner, type, path, created, queue, copy, remain, answer, wire, logs, history>>

\* getQueue answers: copy holds the items still to send.
SyncRead(f) ==
    /\ pc[f] = "read"
    /\ f \in Syncs
    /\ ReadQueue(f)
    /\ Goto(f, "next")
    /\ UNCHANGED <<now, owner, type, path, created, queue, remain, answer, wire, logs,
                   saved, gone, unheard, killed>>

\* The next item is too old, and left out of what will be written back.
SyncSkip(f) ==
    /\ pc[f] = "next"
    /\ copy[f] # <<>>
    /\ now - created[Head(copy[f])] > Keep
    /\ copy' = [copy EXCEPT ![f] = Tail(@)]
    /\ gone' = gone \cup {Head(copy[f])}
    /\ UNCHANGED <<now, owner, type, path, created, queue, pc, remain, answer, wire, logs,
                   saved, unheard, overlapped, killed>>

\* The next item is sent.
SyncSend(f) ==
    /\ pc[f] = "next"
    /\ copy[f] # <<>>
    /\ now - created[Head(copy[f])] <= Keep
    /\ wire' = wire \cup {[from |-> f, tap |-> Head(copy[f])]}
    /\ Goto(f, "sent")
    /\ UNCHANGED <<now, owner, type, path, created, queue, copy, remain, answer, logs, history>>

\* Slip: an accepted item is written back with the others.
SyncAcceptedKept(f) ==
    /\ pc[f] = "sent"
    /\ answer[f] = "ok"
    /\ copy' = [copy EXCEPT ![f] = Tail(@)]
    /\ remain' = [remain EXCEPT ![f] = Append(@, Head(copy[f]))]
    /\ gone' = gone \cup {Head(copy[f])}
    /\ answer' = [answer EXCEPT ![f] = NoReply]
    /\ Goto(f, "next")
    /\ UNCHANGED <<now, owner, type, path, created, queue, wire, logs,
                   saved, unheard, overlapped, killed>>

\* The server has accepted the item.
SyncAccepted(f) ==
    /\ pc[f] = "sent"
    /\ answer[f] = "ok"
    /\ copy' = [copy EXCEPT ![f] = Tail(@)]
    /\ gone' = gone \cup {Head(copy[f])}
    /\ answer' = [answer EXCEPT ![f] = NoReply]
    /\ Goto(f, "next")
    /\ UNCHANGED <<now, owner, type, path, created, queue, remain, wire, logs,
                   saved, unheard, overlapped, killed>>

\* Slip: an item whose request failed is not kept.
SyncFailedDropped(f) ==
    /\ pc[f] = "sent"
    /\ copy' = [copy EXCEPT ![f] = Tail(@)]
    /\ unheard' = IF answer[f] = "ok" THEN unheard \cup {Head(copy[f])} ELSE unheard
    /\ answer' = [answer EXCEPT ![f] = NoReply]
    /\ Goto(f, "next")
    /\ UNCHANGED <<now, owner, type, path, created, queue, remain, wire, logs,
                   saved, gone, overlapped, killed>>

\* Any error of the request, a duplicate or a refusal included, or a
\* connection that breaks off: the item is kept.
SyncFailed(f) ==
    /\ pc[f] = "sent"
    /\ copy' = [copy EXCEPT ![f] = Tail(@)]
    /\ remain' = [remain EXCEPT ![f] = Append(@, Head(copy[f]))]
    /\ unheard' = IF answer[f] = "ok" THEN unheard \cup {Head(copy[f])} ELSE unheard
    /\ answer' = [answer EXCEPT ![f] = NoReply]
    /\ Goto(f, "next")
    /\ UNCHANGED <<now, owner, type, path, created, queue, wire, logs,
                   saved, gone, overlapped, killed>>

\* All items done: setQueue(remain).
SyncWrite(f) ==
    /\ pc[f] = "next"
    /\ copy[f] = <<>>
    /\ queue' = remain[f]
    /\ remain' = [remain EXCEPT ![f] = <<>>]
    /\ End(f)
    /\ UNCHANGED <<now, owner, type, path, created, wire, logs, history>>

\* The app is killed: what it had not written back is gone.
KillApp ==
    /\ \E s \in Senders : Running(s)
    /\ pc' = [s \in Senders |-> IF Running(s) THEN "done" ELSE pc[s]]
    /\ copy' = [s \in Senders |-> <<>>]
    /\ remain' = [f \in Syncs |-> <<>>]
    /\ answer' = [s \in Senders |-> NoReply]
    /\ killed' = TRUE
    /\ UNCHANGED <<now, owner, type, path, created, queue, wire, logs,
                   saved, gone, unheard, overlapped>>

-----------------------------------------------------------------------------
(* The server and the network. *)

\* The row of the same person, type and day, which a further punch meets.
Earlier(p) ==
    {r \in logs : /\ owner[r.by] = owner[p]
                  /\ type[r.by] = type[p]
                  /\ DayOf[r.at] = DayOf[now]}

\* The sender of request m still waits for its answer.
Waiting(m) ==
    /\ pc[m.from] = "sent"
    /\ m.from \in Syncs => copy[m.from] # <<>> /\ Head(copy[m.from]) = m.tap

Reply(m, a) ==
    /\ wire' = wire \ {m}
    /\ answer' = IF Waiting(m) THEN [answer EXCEPT ![m.from] = a] ELSE answer

\* AttendanceService.create inserts the row, at the time of the server.
Record(m) ==
    /\ m \in wire
    /\ m.from \in Taps \/ path[m.tap] = "attendance"
    /\ Earlier(m.tap) = {}
    /\ logs' = logs \cup {[by |-> m.tap, at |-> now]}
    /\ Reply(m, "ok")
    /\ unheard' = IF Waiting(m) THEN unheard ELSE unheard \cup {m.tap}
    /\ UNCHANGED <<now, owner, type, phone, saved, gone, overlapped, killed>>

\* A second punch of the day: a clock-out moves the row on record, and both
\* are answered with an error.
Duplicate(m) ==
    /\ m \in wire
    /\ m.from \in Taps \/ path[m.tap] = "attendance"
    /\ Earlier(m.tap) # {}
    /\ logs' = IF type[m.tap] = "OUT"
               THEN (logs \ Earlier(m.tap)) \cup {[r EXCEPT !.at = now] : r \in Earlier(m.tap)}
               ELSE logs
    /\ Reply(m, "duplicate")
    /\ UNCHANGED <<now, owner, type, phone, history>>

\* /attend/identify answers a replayed capture: no punch comes of it.
IdentifyAnswer(m) ==
    /\ m \in wire
    /\ m.from \in Syncs /\ path[m.tap] = "identify"
    /\ logs' = logs
    /\ Reply(m, "ok")
    /\ UNCHANGED <<now, owner, type, phone, history>>

\* The geofence or the face refuses a press, and the capture ends with it.
Refuse(m) ==
    /\ m \in wire
    /\ m.from \in Taps
    /\ logs' = logs
    /\ Reply(m, "refused")
    /\ UNCHANGED <<now, owner, type, phone, history>>

\* Any other error of the server.  A request that is lost on its way stays on
\* the wire for ever: its sender gives up (NotSettled, SyncFailed).
Fail(m) ==
    /\ m \in wire
    /\ logs' = logs
    /\ Reply(m, "error")
    /\ UNCHANGED <<now, owner, type, phone, history>>

Tick ==
    /\ now < MaxTime
    /\ now' = now + 1
    /\ UNCHANGED <<owner, type, phone, answer, wire, logs, history>>

-----------------------------------------------------------------------------
TapStep(p) ==
    \/ Identified(p) \/ NotIdentified(p) \/ IdentifyOffline(p)
    \/ Settled(p) \/ NotSettled(p) \/ EnqueueRead(p) \/ EnqueueWrite(p)

Flush(f) ==
    \/ Sync(f) \/ SyncRead(f) \/ SyncSkip(f) \/ SyncSend(f)
    \/ SyncAccepted(f) \/ SyncFailed(f) \/ SyncWrite(f)

Server(m) ==
    \/ Record(m) \/ Duplicate(m) \/ IdentifyAnswer(m) \/ Refuse(m) \/ Fail(m)

QueueNext ==
    \/ \E p \in Taps : TapStep(p)
    \/ \E f \in Syncs : Flush(f)
    \/ \E m \in wire : Server(m)
    \/ KillApp
    \/ Tick

QueueSpec == QueueInit /\ [][QueueNext]_queueVars

-----------------------------------------------------------------------------
(* Properties. *)

\* What the app said it "Saved offline" is in the stored queue until a sync
\* was told that the server has it, or dropped it for its age, or newer taps
\* pushed it out; it can be lost in no other way, even when the app is killed
\* half way through, unless two uses of the queue overlapped (enqueue and
\* flushQueue each write back what they read before).
LossNeedsOverlap ==
    saved \subseteq Items(queue) \cup gone \/ overlapped

\* One press gives at most one row, on whatever days it is replayed, unless
\* the phone never heard that it was recorded, or forgot it when it was
\* killed, or two uses of the stored queue overlapped.
TwiceNeedsCause ==
    \A r1, r2 \in logs :
        r1.by = r2.by => r1 = r2 \/ r1.by \in unheard \/ killed \/ overlapped
=============================================================================
