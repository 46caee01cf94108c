------------------------------ MODULE TextBox ------------------------------
(***************************************************************************)
(* The one-line editor (src/src/client/GUI/TextBox.cpp) as operators on    *)
(* its state, a record with the code's fields.  Characters are members of  *)
(* a small set; where the mouse points is an index into the text; the      *)
(* timers of the cursor and of the key repeat have run out or not.         *)
(***************************************************************************)
EXTENDS Integers, Sequences

CONSTANTS Chars,          \* the characters that can be typed
          NoIndex,        \* an empty std::optional<std::size_t>
          mCharacterLimit \* 10 in the code

ASSUME TextBoxAssumption == NoIndex \notin Nat /\ mCharacterLimit \in Nat

RepeatAction == {"Backspace", "MoveLeft", "MoveRight"}

Box == [mString : Seq(Chars),
        mCursorIndex : Nat,
        mSelectionStart : Nat \cup {NoIndex},
        mSelectionEnd : Nat \cup {NoIndex},
        mShowCursor : BOOLEAN,
        mRepeatAction : RepeatAction \cup {"None"},
        mInInitialDelay : BOOLEAN]

NewBox == [mString |-> << >>,
           mCursorIndex |-> 0,
           mSelectionStart |-> NoIndex,
           mSelectionEnd |-> NoIndex,
           mShowCursor |-> FALSE,
           mRepeatAction |-> "None",
           mInInitialDelay |-> FALSE]

-----------------------------------------------------------------------------
(* Selection and cursor.                                                   *)

HasHighlight(b) ==
    /\ b.mSelectionStart # NoIndex
    /\ b.mSelectionEnd # NoIndex
    /\ b.mSelectionStart # b.mSelectionEnd

\* The ends of the highlight, in the order of the text.
First(b) == IF b.mSelectionStart < b.mSelectionEnd THEN b.mSelectionStart
                                                   ELSE b.mSelectionEnd
End(b) == IF b.mSelectionStart < b.mSelectionEnd THEN b.mSelectionEnd
                                                 ELSE b.mSelectionStart

\* setCursorPosition: no highlight, and the cursor starts to blink anew.
SetCursorPosition(b, index) ==
    [b EXCEPT !.mCursorIndex = index,
              !.mSelectionStart = index,
              !.mSelectionEnd = index,
              !.mShowCursor = TRUE]

\* Variant: the cursor goes on blinking inside the highlight.
SelectionEndOnly(b, index) ==
    [b EXCEPT !.mSelectionEnd = index, !.mCursorIndex = index]

\* setSelectionEnd: likely highlights, and the cursor is hidden.
SetSelectionEnd(b, index) ==
    [b EXCEPT !.mSelectionEnd = index,
              !.mCursorIndex = index,
              !.mShowCursor = FALSE]

UpdateString(b, newString, newCursorPos) ==
    SetCursorPosition([b EXCEPT !.mString = newString], newCursorPos)

\* std::string::erase and insert
Cut(s, first, last) == SubSeq(s, 1, first) \o SubSeq(s, last + 1, Len(s))
Insert(s, index, ch) == SubSeq(s, 1, index) \o <<ch>> \o SubSeq(s, index + 1, Len(s))

\* Variant: the highlight is taken to run from its start to its end.
DeleteForward(b) ==
    IF ~HasHighlight(b) THEN b
    ELSE IF b.mSelectionStart > b.mSelectionEnd
         THEN SetCursorPosition(b, b.mSelectionStart)
         ELSE UpdateString(b, Cut(b.mString, First(b), End(b)), First(b))

DeleteSelectedText(b) ==
    IF HasHighlight(b)
    THEN UpdateString(b, Cut(b.mString, First(b), End(b)), First(b))
    ELSE b

-----------------------------------------------------------------------------
(* Keys.                                                                   *)

\* Variant: the cursor stays where it was.
BackspaceInPlace(b) ==
    IF HasHighlight(b) THEN DeleteSelectedText(b)
    ELSE IF b.mCursorIndex > 0
         THEN UpdateString(b, Cut(b.mString, b.mCursorIndex - 1, b.mCursorIndex),
                           b.mCursorIndex)
         ELSE b

ExecuteBackspace(b) ==
    IF HasHighlight(b) THEN DeleteSelectedText(b)
    ELSE IF b.mCursorIndex > 0
         THEN UpdateString(b, Cut(b.mString, b.mCursorIndex - 1, b.mCursorIndex),
                           b.mCursorIndex - 1)
         ELSE b

ExecuteMoveLeft(b) ==
    IF HasHighlight(b) THEN SetCursorPosition(b, First(b))
    ELSE IF b.mCursorIndex > 0 THEN SetCursorPosition(b, b.mCursorIndex - 1)
    ELSE b

ExecuteMoveRight(b) ==
    IF HasHighlight(b) THEN SetCursorPosition(b, End(b))
    ELSE IF b.mCursorIndex < Len(b.mString)
         THEN SetCursorPosition(b, b.mCursorIndex + 1)
         ELSE b

Execute(b, action) ==
    CASE action = "Backspace" -> ExecuteBackspace(b)
      [] action = "MoveLeft"  -> ExecuteMoveLeft(b)
      [] action = "MoveRight" -> ExecuteMoveRight(b)
      [] action = "None"      -> b

\* A key press acts at once and begins to repeat.
KeyPress(b, action) ==
    Execute([b EXCEPT !.mRepeatAction = action, !.mInInitialDelay = TRUE], action)

KeyRelease(b, action) ==
    IF b.mRepeatAction = action THEN [b EXCEPT !.mRepeatAction = "None"] ELSE b

EnterText(b, ch) ==
    IF Len(b.mString) < mCharacterLimit
    THEN LET d == DeleteSelectedText(b) IN
         UpdateString(d, Insert(d.mString, d.mCursorIndex, ch), d.mCursorIndex + 1)
    ELSE b

\* Variant: the key that was held goes on repeating.
UnfocusRepeating(b) ==
    [b EXCEPT !.mSelectionStart = NoIndex,
              !.mSelectionEnd = NoIndex,
              !.mShowCursor = FALSE]

\* What unfocus() does besides clearing the component's flag.
Unfocus(b) ==
    [b EXCEPT !.mSelectionStart = NoIndex,
              !.mSelectionEnd = NoIndex,
              !.mShowCursor = FALSE,
              !.mRepeatAction = "None",
              !.mInInitialDelay = FALSE]

\* What update() may do to a focused box, depending on its timers.  A box with
\* a highlight is left alone, even while a key is held.
Blinked(b) == {b, [b EXCEPT !.mShowCursor = ~@]}

Repeated(b) == IF b.mInInitialDelay THEN [b EXCEPT !.mInInitialDelay = FALSE]
                                    ELSE Execute(b, b.mRepeatAction)

Updated(b, pressed) ==
    IF HasHighlight(b) \/ (pressed /\ b.mRepeatAction = "None")
    THEN {b}
    ELSE Blinked(b) \cup {Repeated(blinked) : blinked \in Blinked(b)}

=============================================================================
