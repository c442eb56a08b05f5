----------------------------- MODULE KioskCamera -----------------------------
(***************************************************************************)
(* The camera of the web kiosk (public/index.html): windows of one browser *)
(* that share one camera with each other, with other applications and with *)
(* the capture process of the API, and talk over a BroadcastChannel.       *)
(*                                                                         *)
(* page[w].step names the await in which the open of window w (startCamNow *)
(* with everything it calls) is suspended; camChain runs one open at a     *)
(* time.  camGeneration is only ever compared: `current` tells whether the *)
(* running open has the present generation, and an open that waits in the  *)
(* chain is forgotten by the stopCam that makes it stale.                  *)
(***************************************************************************)
EXTENDS Naturals, Sequences

CONSTANTS
    Windows,    \* windows of the kiosk page
    MaxEvents   \* bound: things the user and other programs do

ASSUME EventsAssumption == MaxEvents \in Nat

ASSUME WindowsAssumption == Windows \cap {"none", "app", "server"} = {}

VARIABLES
    page,       \* the state of each window
    inbox,      \* messages on their way to a window
    camera,     \* who has the camera: a window, "app", "server" or "none"
    events      \* things done so far

vars == <<page, inbox, camera, events>>

NewPage == [
    shown      |-> TRUE,    \* ~cameraPanelHidden()
    track      |-> "none",  \* of v.srcObject: "live" or "ended"
    feed       |-> "off",   \* the img of the broker: "loading" or "live"
    step       |-> "idle",  \* "open", "peers", "reopen", "release", "retake", "feed"
    current    |-> FALSE,
    queued     |-> 0,       \* opens that wait in camChain
    opening    |-> FALSE,   \* camOpening
    busy       |-> FALSE,   \* camBusy
    peerHolds  |-> FALSE,   \* camHeldByPeer
    yielded    |-> FALSE,   \* camYieldedToPeer
    takingOver |-> FALSE,   \* camTakingOver
    heard      |-> FALSE,   \* requestPeerRelease: released
    retry      |-> "none" ] \* the timer of retryCamSoon: "set", or "spent", with
                            \* no new one for 1200 ms

-----------------------------------------------------------------------------
(* What the functions of the page do to the state of a window. *)

\* camActive: an img that has shown a frame counts as live ever after.
Active(p) == p.track = "live" \/ p.feed = "live"

\* startCamNow, up to its first await.
Begin(p) == [p EXCEPT !.step = "open", !.current = TRUE, !.opening = TRUE,
                      !.yielded = FALSE, !.track = "none"]

\* startCam
StartCam(p) ==
    IF Active(p) THEN p
    ELSE IF p.step = "idle" THEN Begin(p)
    ELSE [p EXCEPT !.queued = @ + 1]

\* startCamNow ends: the next open of the chain begins, or finds the camera on.
Done(p) ==
    LET q == [p EXCEPT !.step = "idle", !.current = FALSE, !.heard = FALSE,
                       !.opening = IF p.current THEN FALSE ELSE @]
    IN  IF p.queued = 0 THEN q
        ELSE IF Active(q) THEN [q EXCEPT !.queued = 0]
        ELSE Begin([q EXCEPT !.queued = @ - 1])

\* stopCam
Stop(p) == [p EXCEPT !.current = FALSE, !.queued = 0, !.opening = FALSE,
                     !.track = "none", !.feed = "off"]

\* retryCamSoon
RetrySoon(p) ==
    IF p.takingOver \/ p.peerHolds \/ p.yielded \/ ~p.shown \/ p.retry # "none" THEN p
    ELSE [p EXCEPT !.retry = "set"]

\* startBrokerFeed
StartFeed(p) == [p EXCEPT !.step = "feed", !.feed = "loading"]

\* startCamNow, catch of a busy error: give up for a peer, or take over.
Catch(p) ==
    IF ~p.current THEN Done(p)
    ELSE IF p.peerHolds THEN Done([p EXCEPT !.busy = FALSE])
    ELSE [p EXCEPT !.step = "release", !.takingOver = TRUE, !.heard = FALSE]

\* A page opens the camera when it is loaded, unless another tab is chosen.
Init ==
    /\ page \in [Windows -> {Begin(NewPage), [NewPage EXCEPT !.shown = FALSE]}]
    /\ inbox = [w \in Windows |-> <<>>]
    /\ camera \in {"none", "app"}
    /\ events = 0

\* postCam
PostTo(box, w, m) == [v \in Windows |-> IF v = w THEN box[v] ELSE Append(box[v], m)]
Post(w, m) == inbox' = PostTo(inbox, w, m)

FreeCamera(w) == camera' = IF camera = w THEN "none" ELSE camera

Event == events < MaxEvents /\ events' = events + 1

-----------------------------------------------------------------------------
(* The user. *)

\* A tab with the camera panel is chosen.
Show(w) ==
    /\ Event
    /\ ~page[w].shown
    /\ page' = [page EXCEPT ![w] = StartCam([@ EXCEPT !.shown = TRUE])]
    /\ UNCHANGED <<inbox, camera>>

\* Any other tab is chosen, or the page goes: stopCam.
Hide(w) ==
    /\ page[w].shown
    /\ page' = [page EXCEPT ![w] = [Stop(@) EXCEPT !.shown = FALSE]]
    /\ IF Active(page[w]) THEN Post(w, "idle") ELSE UNCHANGED inbox
    /\ FreeCamera(w)
    /\ UNCHANGED events

\* The button of the overlay; also while an open that was stopped still runs.
Tap(w) ==
    /\ Event
    /\ page[w].shown /\ ~Active(page[w]) /\ page[w].queued = 0
    /\ page' = [page EXCEPT ![w] = StartCam(@)]
    /\ UNCHANGED <<inbox, camera>>

-----------------------------------------------------------------------------
(* An open: acquireStream, takeOverCamera, startBrokerFeed. *)

\* Slip: the stream is attached without a look at the generation.
GrantedToAnyone(w) ==
    /\ page[w].step \in {"open", "reopen", "retake"}
    /\ camera = "none"
    /\ page' = [page EXCEPT ![w] =
          Done([@ EXCEPT !.track = "live", !.busy = FALSE, !.peerHolds = FALSE,
                         !.yielded = FALSE, !.takingOver = FALSE])]
    /\ camera' = w
    /\ Post(w, "holding")
    /\ UNCHANGED events

\* getUserMedia has a stream: attachStream, or the track is stopped at once.
Granted(w) ==
    /\ page[w].step \in {"open", "reopen", "retake"}
    /\ camera = "none"
    /\ IF page[w].current
       THEN /\ page' = [page EXCEPT ![w] =
                  Done([@ EXCEPT !.track = "live", !.busy = FALSE, !.peerHolds = FALSE,
                                 !.yielded = FALSE,
                                 !.takingOver = page[w].takingOver
                                                /\ page[w].step # "retake"])]
            /\ camera' = w
            /\ Post(w, "holding")
       ELSE /\ page' = [page EXCEPT ![w] = Done(@)]
            /\ IF page[w].step # "retake" /\ ~page[w].yielded
               THEN Post(w, "idle") ELSE UNCHANGED inbox
            /\ UNCHANGED camera
    /\ UNCHANGED events

\* The first getUserMedia finds the camera busy, or is too slow: the other
\* windows are asked to release it.
BusyFirst(w) ==
    /\ page[w].step = "open"
    /\ page' = [page EXCEPT ![w] = [@ EXCEPT !.step = "peers", !.busy = TRUE, !.heard = FALSE]]
    /\ Post(w, "release")
    /\ UNCHANGED <<camera, events>>

\* 50 ms later: another try if a window released the camera.
PeersTimeout(w) ==
    /\ page[w].step = "peers"
    /\ page' = [page EXCEPT ![w] =
          IF @.heard THEN [@ EXCEPT !.step = "reopen"] ELSE Catch(@)]
    /\ UNCHANGED <<inbox, camera, events>>

BusyAgain(w) ==
    /\ page[w].step = "reopen"
    /\ page' = [page EXCEPT ![w] = Catch(@)]
    /\ UNCHANGED <<inbox, camera, events>>

\* getUserMedia fails for another reason: denied, or no camera found.
Denied(w) ==
    /\ page[w].step \in {"open", "reopen"}
    /\ page' = [page EXCEPT ![w] =
          Done([@ EXCEPT !.busy = IF page[w].current THEN FALSE ELSE page[w].busy])]
    /\ UNCHANGED <<inbox, camera, events>>

\* POST /camera/release fails: on to the feed of the API.
ReleaseFails(w) ==
    /\ page[w].step = "release"
    /\ page' = [page EXCEPT ![w] =
          IF @.current THEN StartFeed([@ EXCEPT !.takingOver = FALSE]) ELSE Done(@)]
    /\ UNCHANGED <<inbox, camera, events>>

\* It succeeds: the camera was restarted, whoever had it.
Released(w) ==
    /\ page[w].step = "release"
    /\ page' = [v \in Windows |->
          IF v = w THEN IF page[w].current THEN [page[w] EXCEPT !.step = "retake"]
                                           ELSE Done(page[w])
          ELSE [page[v] EXCEPT !.track = IF @ = "live" THEN "ended" ELSE @]]
    /\ camera' = "none"
    /\ UNCHANGED <<inbox, events>>

\* After twenty tries, or when none of them found a camera.
RetakeGivesUp(w) ==
    /\ page[w].step = "retake"
    /\ LET p == page[w] IN
       page' = [page EXCEPT ![w] = IF p.current THEN Done([p EXCEPT !.takingOver = FALSE])
                                                ELSE Done(p)]
    /\ UNCHANGED <<inbox, camera, events>>

NoCameraFound(w) ==
    /\ page[w].step = "retake" /\ page[w].current
    /\ page' = [page EXCEPT ![w] = StartFeed([@ EXCEPT !.takingOver = FALSE])]
    /\ UNCHANGED <<inbox, camera, events>>

\* The img has its first frame: `arm`, also long after the open gave up.
FeedLoads(w) ==
    /\ page[w].feed = "loading"
    /\ camera \in {"none", "server"}
    /\ camera' = "server"
    /\ LET p == [page[w] EXCEPT !.feed = "live", !.busy = FALSE] IN
       page' = [page EXCEPT ![w] = IF p.step = "feed" THEN Done(p) ELSE p]
    /\ UNCHANGED <<inbox, events>>

\* The img has an error.
FeedFails(w) ==
    /\ page[w].feed = "loading"
    /\ LET p == [page[w] EXCEPT !.feed = "off"] IN
       page' = [page EXCEPT ![w] = IF p.step = "feed" THEN Done(p) ELSE p]
    /\ UNCHANGED <<inbox, camera, events>>

\* Two minutes later: the one end for a feed that stopCam has cut off.
FeedTimeout(w) ==
    /\ page[w].step = "feed"
    /\ page' = [page EXCEPT ![w] = Done(@)]
    /\ UNCHANGED <<inbox, camera, events>>

-----------------------------------------------------------------------------
(* Messages, timers and events of the camera. *)

\* track.onended
Ended(w) ==
    /\ page[w].track = "ended"
    /\ page' = [page EXCEPT ![w] = RetrySoon([@ EXCEPT !.track = "none", !.busy = TRUE])]
    /\ Post(w, "idle")
    /\ UNCHANGED <<camera, events>>

Take(w, m) == inbox[w] # <<>> /\ Head(inbox[w]) = m

Rest(w) == [inbox EXCEPT ![w] = Tail(@)]

OnHolding(w) ==
    /\ Take(w, "holding")
    /\ inbox' = Rest(w)
    /\ page' = [page EXCEPT ![w] = [@ EXCEPT !.peerHolds = page[w].peerHolds \/ ~Active(page[w])]]
    /\ UNCHANGED <<camera, events>>

OnIdle(w) ==
    /\ Take(w, "idle")
    /\ inbox' = Rest(w)
    /\ LET p == [page[w] EXCEPT !.peerHolds = FALSE] IN
       page' = [page EXCEPT ![w] = IF p.busy /\ ~Active(p) THEN RetrySoon(p) ELSE p]
    /\ UNCHANGED <<camera, events>>

OnReleased(w) ==
    /\ Take(w, "released")
    /\ inbox' = Rest(w)
    /\ page' = [page EXCEPT ![w] = [@ EXCEPT !.heard = page[w].heard \/ page[w].step = "peers"]]
    /\ UNCHANGED <<camera, events>>

\* A window that holds or opens the camera stops it, without an "idle".
OnRelease(w) ==
    /\ Take(w, "release")
    /\ LET p == page[w] IN
       IF Active(p) \/ p.opening
       THEN /\ page' = [page EXCEPT ![w] = [Stop(p) EXCEPT !.yielded = TRUE]]
            /\ inbox' = PostTo(Rest(w), w, "released")
            /\ FreeCamera(w)
       ELSE /\ inbox' = Rest(w)
            /\ UNCHANGED <<page, camera>>
    /\ UNCHANGED events

\* Slip: the timer does not look at camYieldedToPeer again.
RetryFiresAnyway(w) ==
    /\ page[w].retry = "set"
    /\ LET p == [page[w] EXCEPT !.retry = "spent"] IN
       page' = [page EXCEPT ![w] =
          IF p.takingOver \/ p.peerHolds \/ ~p.shown THEN p ELSE StartCam(p)]
    /\ UNCHANGED <<inbox, camera, events>>

\* The timer of retryCamSoon looks at everything again after its 250 ms.
RetryFires(w) ==
    /\ page[w].retry = "set"
    /\ LET p == [page[w] EXCEPT !.retry = "spent"] IN
       page' = [page EXCEPT ![w] =
          IF p.takingOver \/ p.peerHolds \/ p.yielded \/ ~p.shown THEN p ELSE StartCam(p)]
    /\ UNCHANGED <<inbox, camera, events>>

\* 1200 ms later; a message between two windows takes less.
ThrottleEnds(w) ==
    /\ page[w].retry = "spent"
    /\ \A v \in Windows : inbox[v] = <<>>
    /\ page' = [page EXCEPT ![w] = [@ EXCEPT !.retry = "none"]]
    /\ UNCHANGED <<inbox, camera, events>>

\* navigator.mediaDevices: devicechange
DeviceChange(w) ==
    /\ Event
    /\ page[w].busy /\ ~Active(page[w])
    /\ page' = [page EXCEPT ![w] = RetrySoon(@)]
    /\ UNCHANGED <<inbox, camera>>

-----------------------------------------------------------------------------
(* Others that use the camera. *)

AppTakes ==
    /\ Event
    /\ camera = "none"
    /\ camera' = "app"
    /\ UNCHANGED <<page, inbox>>

AppLeaves ==
    /\ camera = "app"
    /\ camera' = "none"
    /\ UNCHANGED <<page, inbox, events>>

\* The capture process ends, or is stopped after its last stream: an img that
\* has shown a frame of it stands still, and goes on counting as live.
ServerEnds ==
    /\ camera = "server"
    /\ camera' = "none"
    /\ UNCHANGED <<page, inbox, events>>

-----------------------------------------------------------------------------
User(w) == Show(w) \/ Hide(w) \/ Tap(w)

Open(w) ==
    \/ Granted(w) \/ BusyFirst(w) \/ PeersTimeout(w) \/ BusyAgain(w) \/ Denied(w)
    \/ ReleaseFails(w) \/ Released(w) \/ RetakeGivesUp(w) \/ NoCameraFound(w)
    \/ FeedLoads(w) \/ FeedFails(w) \/ FeedTimeout(w)

Deliver(w) == OnHolding(w) \/ OnIdle(w) \/ OnReleased(w) \/ OnRelease(w)

Page(w) == Ended(w) \/ Deliver(w) \/ RetryFires(w) \/ ThrottleEnds(w) \/ DeviceChange(w)

Next ==
    \/ \E w \in Windows : User(w) \/ Open(w) \/ Page(w)
    \/ AppTakes \/ AppLeaves \/ ServerEnds

Spec == Init /\ [][Next]_vars

-----------------------------------------------------------------------------
(* Properties. *)

\* A window whose camera panel is hidden has no part in the camera, whichever
\* of its opens were under way when it was hidden (index.html:1852).
HiddenIsDark ==
    \A w \in Windows :
        /\ page[w].track = "live" => camera = w /\ page[w].shown
        /\ page[w].feed # "off" => page[w].shown
        /\ camera = w => page[w].track = "live"

\* An open of window w begins, or is put into its chain.
TurnsOn(w) ==
    \/ page[w].step = "idle" /\ page'[w].step = "open"
    \/ page'[w].queued > page[w].queued

\* Two windows do not take the camera from each other in turns: one that has
\* yielded asks for it again only when its user does (index.html:1920).
QuietAfterYield ==
    [][\A w \in Windows : page[w].yielded /\ TurnsOn(w) => events' # events]_vars
=============================================================================
