\* A text of two characters, which is the limit.
SPECIFICATION Spec
CONSTANTS
    Buttons = {b1}
    TheBox = box
    NoChild = NoChild
    MayLack = {}
    Chars = {a, c}
    NoIndex = NoIndex
    mCharacterLimit = 2
SYMMETRY Symmetric
INVARIANT TypingReplacesHighlight
CHECK_DEADLOCK FALSE
