\* The title screen: two buttons and a text box of three characters.
SPECIFICATION Spec
CONSTANTS
    Buttons = {b1, b2}
    TheBox = box
    NoChild = NoChild
    MayLack = {"Arrow", "Hand"}
    Chars = {a, c}
    NoIndex = NoIndex
    mCharacterLimit = 3
SYMMETRY Symmetric
INVARIANTS TypeOK FlagsAgree HoverFollowsMouse CursorTellsChild
           RepeatNeedsHeldKey SelectionInText
PROPERTY EditsAreLocal
CHECK_DEADLOCK FALSE
