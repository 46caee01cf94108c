---------------------------- MODULE GuiContainer ----------------------------
(***************************************************************************)
(* The container of a screen (src/src/client/GUI/Container.cpp) with its   *)
(* buttons and its text box: how mouse and key events become hover, press, *)
(* drag, focus and text, while the screen may be replaced between two      *)
(* events - by a button's callback, a key, or an answer of the server; and *)
(* the mouse cursor the screens choose by what the container tells them.   *)
(***************************************************************************)
EXTENDS TextBox

CONSTANTS Buttons,  \* the buttons of the screen
          TheBox,   \* its text box
          NoChild,  \* an empty optional, or the background
          MayLack   \* the mouse cursors that the system may fail to create

Children == Buttons \cup {TheBox}

\* What getComponentIndexAt can return.  The children do not overlap.
Target == Children \cup {NoChild}

ASSUME ContainerAssumption == TheBox \notin Buttons /\ NoChild \notin Children

VARIABLES
    mHoveredChild, mPressedChild, mFocusedChild, mIsDraggingBackground,
    isHovered,   \* the children with mIsHovered set
    isPressed,   \* ... with mIsPressed set
    isFocused,   \* ... with mIsFocused set
    box,         \* the state of the text box
    mouse,       \* the child the mouse is over, or NoChild
    buttonDown,  \* the left mouse button is down
    held,        \* the editing keys that are down
    windowCursor,             \* sf::Window: the cursor that is shown
    mCurrentMouseCursorType,  \* State: the last one this screen has set
    mLoadedCursors,           \* ... and those it could load
    cursorOnClicks,           \* the screen sets it on clicks, not only on moves
    failed       \* an assertion has failed: the program has stopped

CursorType == {"Arrow", "Hand", "Text"}

\* loadMouseCursor for each type, in the constructor of a screen.
Loadable == {CursorType \ lacking : lacking \in SUBSET MayLack}

container == <<mHoveredChild, mPressedChild, mFocusedChild,
               mIsDraggingBackground>>
flags == <<isHovered, isPressed, isFocused>>
input == <<mouse, buttonDown, held>>
cursors == <<windowCursor, mCurrentMouseCursorType, mLoadedCursors, cursorOnClicks>>
vars == <<container, flags, box, input, cursors, failed>>

Init ==
    /\ mHoveredChild = NoChild
    /\ mPressedChild = NoChild
    /\ mFocusedChild = NoChild
    /\ mIsDraggingBackground = FALSE
    /\ isHovered = {}
    /\ isPressed = {}
    /\ isFocused = {}
    /\ box = NewBox
    /\ mouse \in Target
    /\ buttonDown = FALSE
    /\ held = {}
    /\ windowCursor = "Arrow"
    /\ mCurrentMouseCursorType = "Arrow"
    /\ mLoadedCursors \in Loadable
    /\ cursorOnClicks = TRUE  \* the title screen comes first
    /\ failed = FALSE

-----------------------------------------------------------------------------
(* Key events go to the focused child, and to no other.                    *)

Focused == mFocusedChild # NoChild

KeyPressed(key) ==
    /\ key \notin held
    /\ held' = held \cup {key}
    /\ box' = IF Focused THEN KeyPress(box, key) ELSE box
    /\ UNCHANGED <<container, flags, mouse, buttonDown, failed>>

KeyReleased(key) ==
    /\ key \in held
    /\ held' = held \ {key}
    /\ box' = IF Focused THEN KeyRelease(box, key) ELSE box
    /\ UNCHANGED <<container, flags, mouse, buttonDown, failed>>

\* Variant: the container does not notice that its child gave up the focus.
EnterUnnoticed ==
    /\ Focused
    /\ box' = Unfocus(box)
    /\ isFocused' = isFocused \ {mFocusedChild}
    /\ UNCHANGED <<container, isHovered, isPressed, input, failed>>

EnterReleased ==
    /\ Focused
    /\ box' = Unfocus(box)
    /\ isFocused' = isFocused \ {mFocusedChild}
    /\ mFocusedChild' = NoChild
    /\ UNCHANGED <<mHoveredChild, mPressedChild, mIsDraggingBackground,
                   isHovered, isPressed, input, failed>>

TextEntered(ch) ==
    /\ Focused
    /\ box' = EnterText(box, ch)
    /\ UNCHANGED <<container, flags, input, failed>>

-----------------------------------------------------------------------------
(* The left mouse button goes down.                                        *)

\* The index getCharacterIndexAt finds in the text of b for the mouse.
Indices(b) == 0 .. Len(b.mString)

\* A child that is not the focused one takes the focus away.
TakeFocus(target) ==
    /\ mFocusedChild' = IF mFocusedChild = target THEN target ELSE NoChild
    /\ isFocused' = isFocused \ ({mFocusedChild} \ {target})

PressChild ==
    /\ ~buttonDown /\ buttonDown' = TRUE
    /\ mouse # NoChild
    /\ mHoveredChild' = mouse
    /\ isHovered' = (isHovered \ {mHoveredChild}) \cup {mouse}
    /\ TakeFocus(mouse)
    /\ mPressedChild' = mouse
    /\ isPressed' = isPressed \cup {mouse}
    /\ IF mouse = TheBox
       THEN \E index \in Indices(box) : box' = SetCursorPosition(box, index)
       ELSE box' = IF Focused THEN Unfocus(box) ELSE box
    /\ UNCHANGED <<mIsDraggingBackground, mouse, held, failed>>

PressBackground ==
    /\ ~buttonDown /\ buttonDown' = TRUE
    /\ mouse = NoChild
    /\ mIsDraggingBackground' = TRUE
    /\ TakeFocus(NoChild)
    /\ box' = IF Focused THEN Unfocus(box) ELSE box
    /\ UNCHANGED <<mHoveredChild, mPressedChild, isHovered, isPressed, mouse,
                   held, failed>>

-----------------------------------------------------------------------------
(* The left mouse button goes up.                                          *)

Release == buttonDown /\ buttonDown' = FALSE /\ UNCHANGED <<mouse, held>>

\* Neither a child nor the background was pressed here: an assertion fails.
ReleaseUnexpected ==
    /\ Release
    /\ mPressedChild = NoChild /\ ~mIsDraggingBackground
    /\ failed' = TRUE
    /\ UNCHANGED <<container, flags, box>>

\* Variant: the drag is over only when a child is below the mouse.
ReleaseFromBackgroundOntoChild ==
    /\ Release
    /\ mIsDraggingBackground
    /\ mIsDraggingBackground' = (mouse = NoChild)
    /\ mHoveredChild' = IF mouse # NoChild THEN mouse ELSE mHoveredChild
    /\ isHovered' = isHovered \cup ({mouse} \ {NoChild})
    /\ UNCHANGED <<mPressedChild, mFocusedChild, isPressed, isFocused, box,
                   failed>>

ReleaseFromBackground ==
    /\ Release
    /\ mIsDraggingBackground
    /\ mIsDraggingBackground' = FALSE
    /\ mHoveredChild' = IF mouse # NoChild THEN mouse ELSE mHoveredChild
    /\ isHovered' = isHovered \cup ({mouse} \ {NoChild})
    /\ UNCHANGED <<mPressedChild, mFocusedChild, isPressed, isFocused, box,
                   failed>>

\* Focused, a button runs its callback and is not focused any more; the text
\* box keeps the focus.
KeepsFocus(child) == child = TheBox

\* Pressed and released on the same child: it is focused.
ReleaseOnChild ==
    /\ Release
    /\ mPressedChild # NoChild
    /\ mPressedChild = mouse
    /\ isFocused' = isFocused \cup {c \in {mouse} : KeepsFocus(c)}
    /\ mFocusedChild' = IF KeepsFocus(mouse) THEN mouse ELSE NoChild
    /\ isPressed' = isPressed \ {mouse}
    /\ IF mouse = TheBox
       THEN \E index \in Indices(box) : box' = SetSelectionEnd(box, index)
       ELSE UNCHANGED box
    /\ mPressedChild' = NoChild
    /\ UNCHANGED <<mHoveredChild, mIsDraggingBackground, isHovered, failed>>

\* Variant: dragged to the background, the child stays the hovered one.
ReleaseElsewhereStillHovered ==
    /\ Release
    /\ mPressedChild # NoChild
    /\ mPressedChild # mouse
    /\ isHovered' = (isHovered \ {mPressedChild}) \cup ({mouse} \ {NoChild})
    /\ mHoveredChild' = IF mouse # NoChild THEN mouse ELSE mHoveredChild
    /\ isPressed' = isPressed \ {mPressedChild}
    /\ mPressedChild' = NoChild
    /\ UNCHANGED <<mFocusedChild, mIsDraggingBackground, isFocused, box, failed>>

\* Dragged from one child to another, or to the background.
ReleaseElsewhere ==
    /\ Release
    /\ mPressedChild # NoChild
    /\ mPressedChild # mouse
    /\ isHovered' = (isHovered \ {mPressedChild}) \cup ({mouse} \ {NoChild})
    /\ mHoveredChild' = mouse
    /\ isPressed' = isPressed \ {mPressedChild}
    /\ mPressedChild' = NoChild
    /\ UNCHANGED <<mFocusedChild, mIsDraggingBackground, isFocused, box, failed>>

-----------------------------------------------------------------------------
(* The mouse moves: over nothing while the background is dragged, in the   *)
(* pressed child, or from one hovered child to another.                    *)

Move(target) == mouse' = target /\ UNCHANGED <<buttonDown, held, failed>>

DragBackground(target) ==
    /\ Move(target)
    /\ mIsDraggingBackground
    /\ UNCHANGED <<container, flags, box>>

DragChild(target) ==
    /\ Move(target)
    /\ ~mIsDraggingBackground
    /\ mPressedChild # NoChild
    /\ IF mPressedChild = TheBox
       THEN \E index \in Indices(box) : box' = SetSelectionEnd(box, index)
       ELSE UNCHANGED box
    /\ UNCHANGED <<container, flags>>

Hover(target) ==
    /\ Move(target)
    /\ ~mIsDraggingBackground
    /\ mPressedChild = NoChild
    /\ mHoveredChild' = target
    /\ isHovered' = (isHovered \ {mHoveredChild}) \cup ({target} \ {NoChild})
    /\ UNCHANGED <<mPressedChild, mFocusedChild, mIsDraggingBackground,
                   isPressed, isFocused, box>>

-----------------------------------------------------------------------------
(* The mouse cursor, which a screen sets after its container has handled a *)
(* mouse event.                                                            *)

CursorOf(child) == IF child = TheBox THEN "Text" ELSE "Hand"

\* That of the pressed child, else of the hovered one, if it is what the
\* container takes it for.
getMouseCursorType ==
    LET child == IF mPressedChild # NoChild THEN mPressedChild ELSE mHoveredChild
    IN  IF child \in isPressed \cup isHovered THEN CursorOf(child) ELSE "Arrow"

\* Variant: the screen notes a cursor that it could not load.
NoteMouseCursor(cursorType) ==
    /\ windowCursor' = IF cursorType \in mLoadedCursors THEN cursorType ELSE windowCursor
    /\ mCurrentMouseCursorType' = cursorType
    /\ UNCHANGED <<mLoadedCursors, cursorOnClicks>>

\* Of a cursor that could not be loaded nothing is set or noted.
setMouseCursor(cursorType) ==
    IF cursorType = mCurrentMouseCursorType \/ cursorType \notin mLoadedCursors
    THEN UNCHANGED cursors
    ELSE /\ windowCursor' = cursorType
         /\ mCurrentMouseCursorType' = cursorType
         /\ UNCHANGED <<mLoadedCursors, cursorOnClicks>>

\* Variant: no screen sets it on clicks.
AfterClickNothing == UNCHANGED cursors

\* The title screen sets it after presses and releases as well.
AfterClick ==
    IF cursorOnClicks THEN setMouseCursor(getMouseCursorType') ELSE UNCHANGED cursors

AfterMove == setMouseCursor(getMouseCursorType')

-----------------------------------------------------------------------------
\* The frame's update, which blinks the cursor and repeats the held key.
Update ==
    /\ TheBox \in isFocused
    /\ box' \in Updated(box, TheBox \in isPressed)
    /\ UNCHANGED <<container, flags, input, failed>>

\* The screen is replaced by another, with a container of its own.  It knows
\* nothing of the cursor its predecessor has left in the window, and loads its
\* own, each of which may fail.
Replace ==
    /\ mHoveredChild' = NoChild
    /\ mPressedChild' = NoChild
    /\ mFocusedChild' = NoChild
    /\ mIsDraggingBackground' = FALSE
    /\ isHovered' = {}
    /\ isPressed' = {}
    /\ isFocused' = {}
    /\ box' = NewBox
    /\ mCurrentMouseCursorType' = "Arrow"
    /\ mLoadedCursors' \in Loadable
    /\ cursorOnClicks' \in BOOLEAN
    /\ UNCHANGED <<input, windowCursor, failed>>

KeyEvent ==
    \/ \E key \in RepeatAction : KeyPressed(key) \/ KeyReleased(key)
    \/ EnterReleased
    \/ \E ch \in Chars : TextEntered(ch)

MouseEvent ==
    \/ /\ \/ PressChild \/ PressBackground
          \/ ReleaseFromBackground \/ ReleaseOnChild \/ ReleaseElsewhere
       /\ AfterClick
    \/ \E target \in Target :
          /\ DragBackground(target) \/ DragChild(target) \/ Hover(target)
          /\ AfterMove
    \/ ReleaseUnexpected /\ UNCHANGED cursors

Next ==
    /\ ~failed
    /\ \/ MouseEvent
       \/ (KeyEvent \/ Update) /\ UNCHANGED cursors
       \/ Replace

Spec == Init /\ [][Next]_vars

-----------------------------------------------------------------------------
(* Properties.                                                             *)

\* The type invariant; a child and the background are never both pressed, and
\* neither is without the mouse button.
TypeOK ==
    /\ {mHoveredChild, mPressedChild} \subseteq Target
    /\ mFocusedChild \in {TheBox, NoChild}
    /\ mIsDraggingBackground \in BOOLEAN
    /\ mIsDraggingBackground => mPressedChild = NoChild
    /\ mIsDraggingBackground \/ mPressedChild # NoChild => buttonDown
    /\ isHovered \cup isPressed \cup isFocused \subseteq Children
    /\ box \in Box
    /\ mouse \in Target
    /\ buttonDown \in BOOLEAN
    /\ held \subseteq RepeatAction
    /\ {windowCursor, mCurrentMouseCursorType} \cup mLoadedCursors \subseteq CursorType
    /\ cursorOnClicks \in BOOLEAN
    /\ failed \in BOOLEAN

Only(child) == {child} \ {NoChild}

\* The container and its children agree on which of them is hovered, pressed
\* and focused - one at most - through every drag, click, key and callback.
FlagsAgree ==
    /\ isHovered = Only(mHoveredChild)
    /\ isPressed = Only(mPressedChild)
    /\ isFocused = Only(mFocusedChild)

\* While no button is down, the child under the mouse is the hovered one, or
\* none is: what was hovered before a drag or a click does not stay behind.
HoverFollowsMouse == ~buttonDown => mHoveredChild \in {mouse, NoChild}

\* The cursor tells what is under the mouse: on the title screen it is the
\* one of the pressed child, else of the hovered one, after any event, if the
\* screen could load that one.  What a screen notes it has set the window
\* shows, whatever could not be loaded; unless that is the arrow, for which a
\* new screen takes whatever its predecessor left.
CursorTellsChild ==
    /\ cursorOnClicks /\ getMouseCursorType \in mLoadedCursors =>
          mCurrentMouseCursorType = getMouseCursorType
    /\ windowCursor # mCurrentMouseCursorType => mCurrentMouseCursorType = "Arrow"
    /\ mCurrentMouseCursorType \in mLoadedCursors \cup {"Arrow"}

\* Cursor and selection stay inside the text, whose erase and insert would
\* throw otherwise, and the text within its limit; and, what the assertions
\* throughout TextBox.cpp say, no cursor is shown in a highlight.
SelectionInText ==
    /\ Len(box.mString) <= mCharacterLimit
    /\ box.mCursorIndex \in Indices(box)
    /\ {box.mSelectionStart, box.mSelectionEnd} \subseteq Indices(box) \cup {NoIndex}
    /\ HasHighlight(box) => ~box.mShowCursor

\* A key repeats only while it is held and the box has the focus; a box that
\* lost the focus in between does not go on deleting.
RepeatNeedsHeldKey ==
    box.mRepeatAction # "None" => /\ box.mRepeatAction \in held
                                  /\ TheBox \in isFocused

\* What an edit cuts out of the text of b: the highlight, else the character
\* before the cursor or nothing.
CutRanges(b) == IF HasHighlight(b) THEN {<<First(b), End(b)>>}
                ELSE {<<i, b.mCursorIndex>> :
                         i \in {b.mCursorIndex - 1, b.mCursorIndex} \cap Nat}

\* The text is edited only in the focused box, where the highlight or the
\* cursor is, by one character at most; the rest stays, and the cursor ends up
\* behind the edit with nothing highlighted.
EditsAreLocal ==
    [][box'.mString # box.mString /\ box' # NewBox =>
          /\ TheBox \in isFocused
          /\ ~HasHighlight(box')
          /\ \E range \in CutRanges(box) :
                LET kept == Cut(box.mString, range[1], range[2]) IN
                \/ box'.mString = kept /\ box'.mCursorIndex = range[1]
                \/ \E ch \in Chars :
                      /\ box'.mString = Insert(kept, range[1], ch)
                      /\ box'.mCursorIndex = range[1] + 1
      ]_vars

\* What the test of the highlight says, "Type during highlight -> highlighted
\* text is erased, new text inserted".
TypingReplacesHighlight ==
    Focused /\ HasHighlight(box) =>
       \A ch \in Chars :
          EnterText(box, ch).mString =
             Insert(Cut(box.mString, First(box), End(box)), First(box), ch)

\* What the assertion in the container says: a release was preceded by a press
\* on a child or on the background.
ReleaseFollowsPress == ~failed

=============================================================================
