--------------------------- MODULE MCBrowserCameras ---------------------------
(***************************************************************************)
(* Windows that share a camera, for TLC: those of the kiosk page            *)
(* (KioskCamera) or those of the app in a browser (WebCamera).  The two     *)
(* programs share nothing, so one is followed while the other rests.        *)
(***************************************************************************)
EXTENDS KioskCamera, WebCamera, TLC

VARIABLE focus      \* "page" or "app"

pageVars == <<page, inbox, camera, events>>
appVars  == <<panel, mail, taken, stray>>

BrowserInit ==
    /\ focus \in {"page", "app"}
    /\ Init /\ WebInit
    /\ focus = "app" => page = [w \in Windows |-> Begin(NewPage)] /\ camera = "none"

BrowserNext ==
    \/ focus = "page" /\ Next /\ UNCHANGED <<focus, appVars>>
    \/ focus = "app" /\ WebNext /\ UNCHANGED <<focus, pageVars>>

BrowserSpec == BrowserInit /\ [][BrowserNext]_<<focus, pageVars, appVars>>

Symmetry == Permutations(Windows) \cup Permutations(AppWindows)

\* Bound: messages on their way to a window.  What follows a request for the
\* camera that came to nothing is not followed: KeepsTrying does not speak of it.
ShortInboxes ==
    /\ \A w \in Windows : Len(inbox[w]) <= 2
    /\ \A w \in AppWindows : Len(mail[w]) <= 2
    /\ ~stray
=============================================================================
