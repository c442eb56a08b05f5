\* Two windows.  Those of the page open the camera when loaded and see one act
\* of a user or of another application; those of the app come and go.
SPECIFICATION BrowserSpec
CONSTANTS
    Windows = {w1, w2}
    AppWindows = {v1, v2}
    MaxEvents = 1
SYMMETRY Symmetry
CONSTRAINT ShortInboxes
CHECK_DEADLOCK FALSE
INVARIANTS
    HiddenIsDark
    KeepsTrying
PROPERTY QuietAfterYield
