------------------------------- MODULE WebCamera -------------------------------
(***************************************************************************)
(* The camera of the app in a browser (CameraView.tsx, WebCamera): windows *)
(* that share one camera with each other and with other applications, and  *)
(* ask each other for it over a BroadcastChannel.                          *)
(*                                                                         *)
(* panel[w] is what one run of the component's effect keeps; panel[w].step *)
(* names the await of openStream in which its acquire is suspended.        *)
(***************************************************************************)
EXTENDS Naturals, Sequences, Functions

CONSTANTS AppWindows

VARIABLES
    panel,      \* the component in each window
    mail,       \* messages on their way to a window
    taken,      \* who has the camera: a window, "app" or "none"
    stray       \* history: a window without a stream went, gave up, or stopped
                \* waiting before the answer to its request had come

NewPanel == [
    mount   |-> "new",   \* "up" while the effect is in force, then "gone"
    stream  |-> "none",  \* streamRef: "live", "ended" (onended not called yet)
    step    |-> "idle",  \* "open", "peers" or "again" while opening is set
    watched |-> FALSE,   \* who called acquire will look whether to poll
    heard   |-> FALSE,   \* requestPeerRelease: released
    queued  |-> FALSE,
    busy    |-> FALSE,
    heldByPeer |-> FALSE,
    poll    |-> FALSE,   \* pollTimer is set
    spent   |-> FALSE,   \* lastRetry is less than 1200 ms ago
    ready   |-> "none",  \* what onReady was last given: "capture", or a "failure"
    lost    |-> FALSE ]  \* history: its stream ended

WebInit ==
    /\ panel = [w \in AppWindows |-> NewPanel]
    /\ mail = [w \in AppWindows |-> <<>>]
    /\ taken = "none"
    /\ stray = FALSE

Up(w) == panel[w].mount = "up"

\* post: to the other windows whose channel is open.
PostFrom(box, w, m) ==
    [v \in AppWindows |-> IF v # w /\ Up(v) /\ Up(w) THEN Append(box[v], m) ELSE box[v]]

Freed(w) == IF taken = w THEN "none" ELSE taken

-----------------------------------------------------------------------------

\* Waits for the camera and knows of no window that has it.
Wanting(p) == p.mount = "up" /\ p.busy /\ ~p.heldByPeer /\ p.stream = "none"

\* The look of acquireAndWatch, of a poll and of an "idle" after their acquire.
SchedulePoll(p) == [p EXCEPT !.poll = @ \/ Wanting(p)]

\* acquire, up to its first await.
Acquire(p) ==
    IF p.mount # "up" \/ p.stream # "none" THEN p
    ELSE IF p.step = "idle" THEN [p EXCEPT !.step = "open"] ELSE [p EXCEPT !.queued = TRUE]

\* The same by a caller who looks afterwards; at once when it was under way.
AcquireAndWatch(p) ==
    IF p.step = "idle" THEN Acquire([p EXCEPT !.watched = TRUE]) ELSE SchedulePoll(Acquire(p))

\* The finally of acquire, and then that of its caller.
Finally(p) ==
    LET q == [p EXCEPT !.step = "idle", !.heard = FALSE, !.queued = FALSE, !.watched = FALSE]
        r == IF p.watched THEN SchedulePoll(q) ELSE q
    IN  IF p.queued THEN Acquire(r) ELSE r

\* The catch of acquire.  A camera found "busy" counts as such only while no
\* window is known to hold it.
Caught(p, error) ==
    IF p.mount # "up" THEN Finally(p)
    ELSE Finally([p EXCEPT !.busy = (error = "busy" /\ ~p.heldByPeer), !.ready = "failure"])

-----------------------------------------------------------------------------

Mount(w) ==
    /\ panel[w].mount = "new"
    /\ panel' = [panel EXCEPT ![w] = AcquireAndWatch([panel[w] EXCEPT !.mount = "up"])]
    /\ UNCHANGED <<mail, taken, stray>>

\* The cleanup of the effect: an open under way goes on.
Unmount(w) ==
    /\ Up(w)
    /\ panel' = [panel EXCEPT ![w].mount = "gone", ![w].stream = "none", ![w].poll = FALSE]
    /\ mail' = [(IF panel[w].stream = "none" THEN mail ELSE PostFrom(mail, w, "idle"))
                   EXCEPT ![w] = <<>>]
    /\ taken' = Freed(w)
    /\ stray' = (stray \/ panel[w].stream = "none")

\* getUserMedia has a stream: attach, or stop it at once.
StreamGranted(w) ==
    /\ panel[w].step \in {"open", "again"}
    /\ taken = "none"
    /\ IF Up(w)
       THEN /\ panel' = [panel EXCEPT ![w] =
                  Finally([panel[w] EXCEPT !.stream = "live", !.busy = FALSE,
                                           !.heldByPeer = FALSE, !.ready = "capture",
                                           !.lost = FALSE])]
            /\ taken' = w
       ELSE /\ panel' = [panel EXCEPT ![w] = Finally(@)]
            /\ UNCHANGED taken
    /\ mail' = PostFrom(mail, w, "holding")
    /\ UNCHANGED stray

\* The first getUserMedia finds the camera busy: the peers are asked for it.
FoundBusy(w) ==
    /\ panel[w].step = "open"
    /\ panel' = [panel EXCEPT ![w].step = "peers", ![w].busy = TRUE]
    /\ mail' = PostFrom(mail, w, "release")
    /\ UNCHANGED <<taken, stray>>

\* An open has failed for good.
OpenFails(w, error) ==
    /\ panel' = [panel EXCEPT ![w] = Caught(@, error)]
    /\ stray' = (stray \/ (Up(w) /\ ~panel'[w].busy))
    /\ UNCHANGED <<mail, taken>>

\* A "release" or its answer is still on its way.
Late(w) ==
    \/ "released" \in Range(mail[w])
    \/ \E v \in AppWindows : "release" \in Range(mail[v])

\* 50 ms after the request or after the answer of a peer: once more if one
\* released the camera, or if the failure was fast and for the front camera.
PeersAsked(w) ==
    /\ panel[w].step = "peers"
    /\ \/ Up(w) /\ panel' = [panel EXCEPT ![w].step = "again"]
       \/ ~(Up(w) /\ panel[w].heard) /\ panel' = [panel EXCEPT ![w] = Caught(@, "busy")]
    /\ stray' = (stray \/ Late(w) \/ (Up(w) /\ ~panel'[w].busy))
    /\ UNCHANGED <<mail, taken>>

StillBusy(w) == panel[w].step = "again" /\ OpenFails(w, "busy")

\* Denied, or no camera found.
Refused(w) == panel[w].step \in {"open", "again"} /\ OpenFails(w, "other")

-----------------------------------------------------------------------------
(* Timers, messages and events. *)

\* track.onended: the camera is free for others; not more than once in 1200 ms
\* is it taken back.
OnEnded(w) ==
    /\ panel[w].stream = "ended"
    /\ LET p == [panel[w] EXCEPT !.stream = "none", !.busy = TRUE, !.spent = TRUE,
                                    !.lost = TRUE] IN
       panel' = [panel EXCEPT ![w] = IF @.spent THEN p ELSE Acquire(p)]
    /\ mail' = PostFrom(mail, w, "idle")
    /\ UNCHANGED <<taken, stray>>

ThrottleOver(w) ==
    /\ panel[w].spent
    /\ panel' = [panel EXCEPT ![w].spent = FALSE]
    /\ UNCHANGED <<mail, taken, stray>>

\* Slip: the open of a poll is the last one.
PollFiresOnce(w) ==
    /\ panel[w].poll
    /\ LET p == [panel[w] EXCEPT !.poll = FALSE] IN
       panel' = [panel EXCEPT ![w] = IF Wanting(p) THEN Acquire(p) ELSE p]
    /\ UNCHANGED <<mail, taken, stray>>

\* After 1500 ms, and again 1500 ms after each failure.
PollFires(w) ==
    /\ panel[w].poll
    /\ LET p == [panel[w] EXCEPT !.poll = FALSE] IN
       panel' = [panel EXCEPT ![w] = IF Wanting(p) THEN AcquireAndWatch(p) ELSE p]
    /\ UNCHANGED <<mail, taken, stray>>

\* 250 ms after a devicechange, which may come at any time.
DevicesChange(w) ==
    /\ Wanting(panel[w])
    /\ panel' = [panel EXCEPT ![w] = Acquire(@)]
    /\ UNCHANGED <<mail, taken, stray>>

Arrives(w, m) == mail[w] # <<>> /\ Head(mail[w]) = m

RestOfMail(w) == [mail EXCEPT ![w] = Tail(@)]

HearHolding(w) ==
    /\ Arrives(w, "holding")
    /\ panel' = [panel EXCEPT ![w].heldByPeer = @ \/ panel[w].stream = "none"]
    /\ mail' = RestOfMail(w)
    /\ UNCHANGED <<taken, stray>>

HearIdle(w) ==
    /\ Arrives(w, "idle")
    /\ LET p == [panel[w] EXCEPT !.heldByPeer = FALSE] IN
       panel' = [panel EXCEPT ![w] = IF Wanting(p) THEN AcquireAndWatch(p) ELSE p]
    /\ mail' = RestOfMail(w)
    /\ UNCHANGED <<taken, stray>>

HearReleased(w) ==
    /\ Arrives(w, "released")
    /\ panel' = [panel EXCEPT ![w].heard = @ \/ panel[w].step = "peers"]
    /\ mail' = RestOfMail(w)
    /\ UNCHANGED <<taken, stray>>

\* Only the "released" of a window that held the camera is listened to.
HearRelease(w) ==
    /\ Arrives(w, "release")
    /\ IF panel[w].stream = "none"
       THEN /\ UNCHANGED panel
            /\ mail' = RestOfMail(w)
       ELSE /\ panel' = [panel EXCEPT ![w].stream = "none", ![w].busy = TRUE,
                                      ![w].heldByPeer = TRUE, ![w].ready = "failure"]
            /\ mail' = PostFrom(RestOfMail(w), w, "released")
    /\ taken' = Freed(w)
    /\ UNCHANGED stray

\* The camera is unplugged or taken away.
StreamEnds(w) ==
    /\ panel[w].stream = "live"
    /\ panel' = [panel EXCEPT ![w].stream = "ended"]
    /\ taken' = "none"
    /\ UNCHANGED <<mail, stray>>

OtherTakes == taken = "none" /\ taken' = "app" /\ UNCHANGED <<panel, mail, stray>>

OtherLeaves == taken = "app" /\ taken' = "none" /\ UNCHANGED <<panel, mail, stray>>

WebNext ==
    \/ \E w \in AppWindows :
          \/ Mount(w) \/ Unmount(w)
          \/ StreamGranted(w) \/ FoundBusy(w) \/ PeersAsked(w) \/ StillBusy(w) \/ Refused(w)
          \/ OnEnded(w) \/ ThrottleOver(w) \/ PollFires(w) \/ DevicesChange(w)
          \/ HearHolding(w) \/ HearIdle(w) \/ HearReleased(w) \/ HearRelease(w)
          \/ StreamEnds(w)
    \/ OtherTakes \/ OtherLeaves

WebSpec == WebInit /\ [][WebNext]_<<panel, mail, taken, stray>>

-----------------------------------------------------------------------------
(* Properties *)

\* A window that is busy with the camera or will be again by itself.
Tries(w) ==
    \/ panel[w].step # "idle"
    \/ mail[w] # <<>>
    \/ (Wanting(panel[w]) /\ panel[w].poll)

\* A window that found the camera busy, or that gave it to another, has told
\* its screen so and gets it back by itself: it polls, or it waits for a window
\* that has a stream or tries to get one and will post "idle".  Known to be
\* forgotten are a window whose stream ended (onended asks once and never
\* polls), those that wait for such a window, and all of them once a window
\* that asked the others for the camera did not take it (CameraView.tsx:151,
\* :241, :262).
KeepsTrying ==
    \A w \in AppWindows :
        LET p == panel[w] IN
        Up(w) /\ p.busy /\ p.stream = "none" /\ ~p.lost /\ ~stray =>
            /\ p.step = "idle" => p.ready = "failure"
            /\ \/ Tries(w)
               \/ /\ p.heldByPeer
                  /\ \E v \in AppWindows \ {w} :
                        Up(v) /\ (panel[v].stream # "none" \/ Tries(v) \/ panel[v].lost)
=============================================================================
