\* A screen that is replaced while the mouse button is down.
SPECIFICATION Spec
CONSTANTS
    Buttons = {b1}
    TheBox = box
    NoChild = NoChild
    MayLack = {}
    Chars = {a}
    NoIndex = NoIndex
    mCharacterLimit = 1
SYMMETRY Symmetric
INVARIANT ReleaseFollowsPress
CHECK_DEADLOCK FALSE
