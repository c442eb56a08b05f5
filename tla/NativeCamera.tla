----------------------------- MODULE NativeCamera -----------------------------
(***************************************************************************)
(* The camera of the mobile app on a phone (CameraView.tsx,                *)
(* VisionNativeCamera): permission, the choice of a device, the session    *)
(* that runs while the app and the tab are in front, and the promise to    *)
(* the screen around it that it may capture.                               *)
(***************************************************************************)
EXTENDS Integers

VARIABLES
    listed,     \* the devices the system lists: "none", "back", "front"
    hook,       \* useCameraDevice('front'): "front" or "none"
    permission, \* the camera permission
    device,     \* the device chosen
    poll,       \* the device effect: "ticking" (its interval and its give-up timer
                \* run), "waiting" (only the timer does) or "off"
    initialized,
    error,      \* "none", "missing" (no device) or "failed" (onError)
    appActive,  \* the app is in the foreground
    isActive,   \* the tab is in front
    cameraReady,\* the screen around it: onReady was called
    late        \* history: a device was listed between a poll and the give-up

choice     == <<listed, hook, permission, device, poll, late>>
preview    == <<initialized, error, cameraReady>>
front      == <<appActive, isActive>>
cameraVars == <<choice, preview, front>>

CameraInit ==
    /\ listed \in {"none", "back", "front"}
    /\ hook = IF listed = "front" THEN "front" ELSE "none"
    /\ permission = "unknown"
    /\ device = "none" /\ poll = "off" /\ late = FALSE
    /\ initialized = FALSE /\ error = "none"
    /\ appActive = TRUE /\ isActive \in BOOLEAN
    /\ cameraReady = FALSE

\* pickDevice: the front camera, or any.
PickDevice == IF hook # "none" THEN hook ELSE listed

sessionActive == isActive /\ appActive /\ permission = "granted" /\ device # "none"

\* <Camera> is rendered only without an error and with a device.
Rendered == permission = "granted" /\ device # "none" /\ error = "none"

\* Slip: the effect does not depend on sessionActive.
AnnouncesInit ==
    cameraReady' = CASE ~isActive'                                     -> FALSE
                     [] initialized' /\ sessionActive' /\ ~initialized -> TRUE
                     [] OTHER                                          -> cameraReady

\* The effects after a step: onReady when initialized or sessionActive changed
\* and both hold; the screen forgets it when its tab goes to the back.
Announces ==
    cameraReady' = CASE ~isActive'                  -> FALSE
                     [] /\ initialized' /\ sessionActive'
                        /\ ~(initialized /\ sessionActive) -> TRUE
                     [] OTHER                       -> cameraReady

\* refresh: a device, if there is one, is chosen and clears the error; another
\* device than before has to be initialized.
Choose(next) ==
    /\ device' = IF next = "none" THEN device ELSE next
    /\ error' = IF next = "none" THEN error ELSE "none"
    /\ initialized' = (initialized /\ device' = device)

\* The device effect runs: it refreshes, polls, and will give up.
Seek == Choose(PickDevice') /\ poll' = "ticking" /\ late' = FALSE

\* ensureAndroidCameraPermission and requestPermission.
AnswerPermission ==
    /\ permission = "unknown"
    /\ UNCHANGED <<listed, hook, front>>
    /\ \/ permission' = "granted" /\ Seek
       \/ permission' = "denied" /\ UNCHANGED <<device, poll, late, initialized, error>>
    /\ Announces

\* The permission is given in the system's settings; the hook sees it when the
\* app is in front again.
GrantLater ==
    /\ permission = "denied" /\ ~appActive
    /\ UNCHANGED <<listed, hook, isActive>>
    /\ permission' = "granted" /\ appActive' = TRUE
    /\ Seek
    /\ Announces

\* A device comes or goes.  The listener refreshes, and the hook, when the
\* front camera is concerned, starts the effect anew.
DevicesChange ==
    /\ UNCHANGED <<permission, front>>
    /\ listed' \in {"none", "back", "front"} \ {listed}
    /\ hook' = IF listed' = "front" THEN "front" ELSE "none"
    /\ CASE permission # "granted" ->
              UNCHANGED <<device, poll, late, initialized, error>>
         [] permission = "granted" /\ hook' # hook -> Seek
         [] OTHER -> Choose(PickDevice') /\ UNCHANGED <<poll, late>>
    /\ Announces

\* CameraX finishes late: a camera is listed and nobody is told.
DeviceAppears ==
    /\ listed = "none"
    /\ listed' \in {"back", "front"}
    /\ late' = (late \/ poll = "ticking")
    /\ UNCHANGED <<hook, permission, device, poll, preview, front>>

\* Every 250 ms, until there is a device.
PollTick ==
    /\ poll = "ticking" /\ PickDevice # "none"
    /\ UNCHANGED <<listed, hook, permission, front>>
    /\ Choose(PickDevice)
    /\ poll' = "waiting" /\ late' = FALSE
    /\ Announces

\* After 10 seconds.
GiveUp ==
    /\ poll # "off"
    /\ poll' = "off"
    /\ error' = IF PickDevice = "none" THEN "missing" ELSE error
    /\ UNCHANGED <<listed, hook, permission, device, late, initialized, cameraReady, front>>

OnInitialized ==
    /\ Rendered /\ ~initialized
    /\ initialized' = TRUE
    /\ UNCHANGED <<choice, error, front>>
    /\ Announces

OnError ==
    /\ Rendered
    /\ initialized' = FALSE /\ error' = "failed"
    /\ UNCHANGED <<choice, front>>
    /\ Announces

SwitchTab ==
    /\ isActive' = ~isActive
    /\ UNCHANGED <<choice, initialized, error, appActive>>
    /\ Announces

SwitchApp ==
    /\ appActive' = ~appActive
    /\ UNCHANGED <<choice, initialized, error, isActive>>
    /\ Announces

CameraNext ==
    \/ AnswerPermission \/ GrantLater
    \/ DevicesChange \/ DeviceAppears \/ PollTick \/ GiveUp
    \/ OnInitialized \/ OnError
    \/ SwitchTab \/ SwitchApp

CameraSpec == CameraInit /\ [][CameraNext]_cameraVars

-----------------------------------------------------------------------------
(* Properties *)

\* A screen in front that may not capture, though the permission is given, is
\* waiting for a device, with a poll that is still running, or for its preview,
\* or shows an error.  Only a device that came, unannounced, after the last
\* poll and before the give-up is waited for in vain (the device effect, the
\* onReady effect, and the effect on active of the screens around them).
WaitsForSomething ==
    isActive /\ appActive /\ permission = "granted" /\ ~cameraReady =>
        \/ poll = "ticking"
        \/ error # "none"
        \/ Rendered /\ ~initialized
        \/ late
=============================================================================
