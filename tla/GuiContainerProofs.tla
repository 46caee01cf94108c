------------------------- MODULE GuiContainerProofs -------------------------
(***************************************************************************)
(* Theorems about the container of a screen, for any number of buttons,    *)
(* any characters and any limit of the text box.                           *)
(***************************************************************************)
EXTENDS GuiContainer, SequenceTheorems, TLAPS

-----------------------------------------------------------------------------
(* The text box.                                                           *)

\* SelectionInText, of any box.
InText(b) ==
    /\ b \in Box
    /\ Len(b.mString) <= mCharacterLimit
    /\ b.mCursorIndex \in Indices(b)
    /\ {b.mSelectionStart, b.mSelectionEnd} \subseteq Indices(b) \cup {NoIndex}
    /\ HasHighlight(b) => ~b.mShowCursor

\* The text of a box has a length, and its indices are numbers.
LEMMA BoxText ==
  ASSUME NEW b \in Box
  PROVE  /\ b.mString \in Seq(Chars)
         /\ Len(b.mString) \in Nat
         /\ Indices(b) \subseteq Nat
         /\ NoIndex \notin Indices(b)
  BY TextBoxAssumption DEF Box, Indices

\* Erasing a part of a text shortens it.
LEMMA CutProperties ==
  ASSUME NEW s \in Seq(Chars), NEW first \in Nat, NEW last \in Nat,
         first <= last, last <= Len(s)
  PROVE  /\ Cut(s, first, last) \in Seq(Chars)
         /\ Len(Cut(s, first, last)) = Len(s) - (last - first)
<1> DEFINE front == SubSeq(s, 1, first)
           back == SubSeq(s, last + 1, Len(s))
<1>1. front \in Seq(Chars) /\ Len(front) = first
  BY SubSeqProperties
<1>2. back \in Seq(Chars) /\ Len(back) = Len(s) - last
  BY SubSeqProperties
<1>3. Cut(s, first, last) = front \o back
  BY DEF Cut
<1> HIDE DEF front, back
<1>4. front \o back \in Seq(Chars) /\ Len(front \o back) = Len(front) + Len(back)
  BY <1>1, <1>2, ConcatProperties
<1> QED
  BY <1>1, <1>2, <1>3, <1>4

\* Inserting a character makes room for it.
LEMMA InsertProperties ==
  ASSUME NEW s \in Seq(Chars), NEW index \in 0 .. Len(s), NEW ch \in Chars
  PROVE  /\ Insert(s, index, ch) \in Seq(Chars)
         /\ Len(Insert(s, index, ch)) = Len(s) + 1
<1> DEFINE front == SubSeq(s, 1, index)
           back == SubSeq(s, index + 1, Len(s))
<1>1. front \in Seq(Chars) /\ Len(front) = index
  BY SubSeqProperties
<1>2. back \in Seq(Chars) /\ Len(back) = Len(s) - index
  BY SubSeqProperties
<1>3. Insert(s, index, ch) = front \o <<ch>> \o back
  BY DEF Insert
<1> HIDE DEF front, back
<1>4. <<ch>> \in Seq(Chars) /\ Len(<<ch>>) = 1
  OBVIOUS
<1>5. front \o <<ch>> \in Seq(Chars) /\ Len(front \o <<ch>>) = index + 1
  BY <1>1, <1>4, ConcatProperties
<1>6. /\ front \o <<ch>> \o back \in Seq(Chars)
      /\ Len(front \o <<ch>> \o back) = index + 1 + Len(back)
  BY <1>2, <1>5, ConcatProperties
<1> QED
  BY <1>2, <1>3, <1>6

\* The ends of a highlight are indices of the text, in their order.
LEMMA HighlightProperties ==
  ASSUME NEW b, InText(b), HasHighlight(b)
  PROVE  /\ First(b) \in Indices(b) /\ End(b) \in Indices(b)
         /\ First(b) \in Nat /\ End(b) \in Nat
         /\ First(b) < End(b) /\ End(b) <= Len(b.mString)
  BY BoxText DEF InText, HasHighlight, First, End, Indices

\* Placing the cursor anywhere in the text ends the highlight.
LEMMA SetCursorPositionProperties ==
  ASSUME NEW b \in Box, Len(b.mString) <= mCharacterLimit, NEW index \in Indices(b)
  PROVE  /\ InText(SetCursorPosition(b, index))
         /\ ~HasHighlight(SetCursorPosition(b, index))
         /\ SetCursorPosition(b, index).mString = b.mString
         /\ SetCursorPosition(b, index).mCursorIndex = index
         /\ SetCursorPosition(b, index).mRepeatAction = b.mRepeatAction
<1>1. index \in Nat
  BY BoxText
<1> QED
  BY <1>1 DEF SetCursorPosition, InText, Box, Indices, HasHighlight

\* Dragging to anywhere in the text leaves the text as it is.
LEMMA SetSelectionEndProperties ==
  ASSUME NEW b, InText(b), NEW index \in Indices(b)
  PROVE  /\ InText(SetSelectionEnd(b, index))
         /\ SetSelectionEnd(b, index).mString = b.mString
         /\ SetSelectionEnd(b, index).mRepeatAction = b.mRepeatAction
<1>1. index \in Nat /\ b \in Box
  BY BoxText DEF InText
<1> QED
  BY <1>1 DEF SetSelectionEnd, InText, Box, Indices, HasHighlight

\* A new text with the cursor in it.
LEMMA UpdateStringProperties ==
  ASSUME NEW b \in Box, NEW s \in Seq(Chars), Len(s) <= mCharacterLimit,
         NEW index \in 0 .. Len(s)
  PROVE  /\ InText(UpdateString(b, s, index))
         /\ ~HasHighlight(UpdateString(b, s, index))
         /\ UpdateString(b, s, index).mString = s
         /\ UpdateString(b, s, index).mCursorIndex = index
         /\ UpdateString(b, s, index).mRepeatAction = b.mRepeatAction
<1> DEFINE new == [b EXCEPT !.mString = s]
<1>1. new \in Box /\ new.mString = s /\ new.mRepeatAction = b.mRepeatAction
  BY DEF Box
<1>2. index \in Indices(new)
  BY <1>1 DEF Indices
<1> HIDE DEF new
<1>3. UpdateString(b, s, index) = SetCursorPosition(new, index)
  BY DEF UpdateString, new
<1> QED
  BY <1>1, <1>2, <1>3, SetCursorPositionProperties

-----------------------------------------------------------------------------
(* Edits.                                                                  *)

\* A box whose text and cursor differ from those of b by one edit.
Edited(b, new) ==
    /\ ~HasHighlight(new)
    /\ \E range \in CutRanges(b) :
          LET kept == Cut(b.mString, range[1], range[2]) IN
          \/ new.mString = kept /\ new.mCursorIndex = range[1]
          \/ \E ch \in Chars :
                /\ new.mString = Insert(kept, range[1], ch)
                /\ new.mCursorIndex = range[1] + 1

\* What an operation of the box makes of b: indices stay in the text, and if
\* the text changes it does by one edit.
GoodEdit(b, new) ==
    /\ InText(new)
    /\ new.mString # b.mString => Edited(b, new)

\* Deleting a highlight cuts it out.
LEMMA DeleteProperties ==
  ASSUME NEW b, InText(b), HasHighlight(b)
  PROVE  /\ GoodEdit(b, DeleteSelectedText(b))
         /\ DeleteSelectedText(b).mString = Cut(b.mString, First(b), End(b))
         /\ DeleteSelectedText(b).mCursorIndex = First(b)
         /\ DeleteSelectedText(b).mRepeatAction = b.mRepeatAction
         /\ First(b) \in 0 .. Len(DeleteSelectedText(b).mString)
         /\ Len(DeleteSelectedText(b).mString) < Len(b.mString)
<1> DEFINE kept == Cut(b.mString, First(b), End(b))
<1>1. /\ b \in Box /\ b.mString \in Seq(Chars)
      /\ Len(b.mString) <= mCharacterLimit /\ Len(b.mString) \in Nat
  BY BoxText DEF InText
<1>2. /\ First(b) \in Nat /\ End(b) \in Nat
      /\ First(b) < End(b) /\ End(b) <= Len(b.mString)
  BY HighlightProperties
<1>3. kept \in Seq(Chars) /\ Len(kept) = Len(b.mString) - (End(b) - First(b))
  <2>1. First(b) <= End(b)
    BY <1>2
  <2> QED
    BY <1>1, <1>2, <2>1, CutProperties, Zenon
<1>4. First(b) \in 0 .. Len(kept) /\ Len(kept) < Len(b.mString)
      /\ Len(kept) <= mCharacterLimit
  BY <1>1, <1>2, <1>3, TextBoxAssumption
<1>5. DeleteSelectedText(b) = UpdateString(b, kept, First(b))
  BY DEF DeleteSelectedText
<1>6. <<First(b), End(b)>> \in CutRanges(b)
  BY DEF CutRanges
<1> HIDE DEF kept
<1>7. /\ InText(UpdateString(b, kept, First(b)))
      /\ ~HasHighlight(UpdateString(b, kept, First(b)))
      /\ UpdateString(b, kept, First(b)).mString = kept
      /\ UpdateString(b, kept, First(b)).mCursorIndex = First(b)
      /\ UpdateString(b, kept, First(b)).mRepeatAction = b.mRepeatAction
  BY <1>1, <1>3, <1>4, UpdateStringProperties
<1>8. Edited(b, DeleteSelectedText(b))
  BY <1>5, <1>6, <1>7 DEF Edited, kept
<1> QED
  BY <1>4, <1>5, <1>7, <1>8 DEF GoodEdit, kept

\* A key's action is an edit or none.
LEMMA ExecuteProperties ==
  ASSUME NEW b, InText(b), NEW action \in RepeatAction \cup {"None"}
  PROVE  /\ GoodEdit(b, Execute(b, action))
         /\ Execute(b, action).mRepeatAction = b.mRepeatAction
<1>1. /\ b \in Box /\ b.mString \in Seq(Chars)
      /\ Len(b.mString) <= mCharacterLimit /\ Len(b.mString) \in Nat
      /\ b.mCursorIndex \in Indices(b) /\ b.mCursorIndex \in 0 .. Len(b.mString)
  BY BoxText DEF InText, Indices
<1>2. GoodEdit(b, b)
  BY DEF GoodEdit
<1>3. ASSUME NEW index \in Indices(b)
      PROVE  /\ GoodEdit(b, SetCursorPosition(b, index))
             /\ SetCursorPosition(b, index).mRepeatAction = b.mRepeatAction
  BY <1>1, SetCursorPositionProperties DEF GoodEdit
<1>4. CASE action = "Backspace"
  <2>1. CASE HasHighlight(b)
    BY <1>4, <2>1, DeleteProperties DEF Execute, ExecuteBackspace
  <2>2. CASE ~HasHighlight(b) /\ b.mCursorIndex > 0
    <3> DEFINE before == b.mCursorIndex - 1
               kept == Cut(b.mString, before, b.mCursorIndex)
    <3>1. before \in Nat /\ b.mCursorIndex \in Nat /\ before <= b.mCursorIndex
          /\ b.mCursorIndex <= Len(b.mString)
      BY <1>1, <2>2
    <3>2. /\ kept \in Seq(Chars)
          /\ Len(kept) = Len(b.mString) - (b.mCursorIndex - before)
      BY <1>1, <3>1, CutProperties, Zenon
    <3>3. before \in 0 .. Len(kept) /\ Len(kept) <= mCharacterLimit
      BY <1>1, <3>1, <3>2, TextBoxAssumption
    <3>4. <<before, b.mCursorIndex>> \in CutRanges(b)
      BY <2>2, <3>1 DEF CutRanges
    <3>5. Execute(b, action) = UpdateString(b, kept, before)
      BY <1>4, <2>2 DEF Execute, ExecuteBackspace
    <3> HIDE DEF before, kept
    <3>6. /\ InText(UpdateString(b, kept, before))
          /\ ~HasHighlight(UpdateString(b, kept, before))
          /\ UpdateString(b, kept, before).mString = kept
          /\ UpdateString(b, kept, before).mCursorIndex = before
          /\ UpdateString(b, kept, before).mRepeatAction = b.mRepeatAction
      BY <1>1, <3>2, <3>3, UpdateStringProperties
    <3>7. Edited(b, Execute(b, action))
      BY <3>4, <3>5, <3>6 DEF Edited, kept
    <3> QED
      BY <3>5, <3>6, <3>7 DEF GoodEdit
  <2>3. CASE ~HasHighlight(b) /\ ~(b.mCursorIndex > 0)
    BY <1>2, <1>4, <2>3 DEF Execute, ExecuteBackspace
  <2> QED
    BY <2>1, <2>2, <2>3
<1>5. CASE action = "MoveLeft"
  <2>1. ~HasHighlight(b) /\ b.mCursorIndex > 0 => b.mCursorIndex - 1 \in Indices(b)
    BY <1>1 DEF Indices
  <2> QED
    BY <1>2, <1>3, <1>5, <2>1, HighlightProperties DEF Execute, ExecuteMoveLeft
<1>6. CASE action = "MoveRight"
  <2>1. b.mCursorIndex < Len(b.mString) => b.mCursorIndex + 1 \in Indices(b)
    BY <1>1 DEF Indices
  <2> QED
    BY <1>2, <1>3, <1>6, <2>1, HighlightProperties DEF Execute, ExecuteMoveRight
<1>7. CASE action = "None"
  BY <1>2, <1>7 DEF Execute
<1> QED
  BY <1>4, <1>5, <1>6, <1>7 DEF RepeatAction

\* Fields of no importance to text, cursor and selection.
LEMMA RepeatFieldsProperties ==
  ASSUME NEW b, InText(b), NEW action \in RepeatAction \cup {"None"}, NEW d \in BOOLEAN
  PROVE  LET new == [b EXCEPT !.mRepeatAction = action, !.mInInitialDelay = d]
         IN  /\ InText(new)
             /\ new.mRepeatAction = action
             /\ \A other : GoodEdit(new, other) => GoodEdit(b, other)
<1> DEFINE new == [b EXCEPT !.mRepeatAction = action, !.mInInitialDelay = d]
<1>1. /\ new \in Box
      /\ new.mString = b.mString /\ new.mCursorIndex = b.mCursorIndex
      /\ new.mSelectionStart = b.mSelectionStart
      /\ new.mSelectionEnd = b.mSelectionEnd
      /\ new.mShowCursor = b.mShowCursor
      /\ new.mRepeatAction = action
  BY DEF InText, Box
<1> HIDE DEF new
<1>2. (HasHighlight(new) <=> HasHighlight(b)) /\ Indices(new) = Indices(b)
  BY <1>1 DEF HasHighlight, Indices
<1>3. InText(new)
  BY <1>1, <1>2 DEF InText
<1>4. CutRanges(new) = CutRanges(b)
  BY <1>1, <1>2 DEF CutRanges, First, End
<1>5. \A other : GoodEdit(new, other) => GoodEdit(b, other)
  BY <1>1, <1>4 DEF GoodEdit, Edited
<1> QED
  BY <1>1, <1>3, <1>5 DEF new

\* A key press is an edit or none, and the key repeats.
LEMMA KeyPressProperties ==
  ASSUME NEW b, InText(b), NEW action \in RepeatAction
  PROVE  /\ GoodEdit(b, KeyPress(b, action))
         /\ KeyPress(b, action).mRepeatAction = action
<1> DEFINE new == [b EXCEPT !.mRepeatAction = action, !.mInInitialDelay = TRUE]
<1>1. /\ InText(new)
      /\ new.mRepeatAction = action
      /\ \A other : GoodEdit(new, other) => GoodEdit(b, other)
  BY RepeatFieldsProperties
<1>2. KeyPress(b, action) = Execute(new, action)
  BY DEF KeyPress
<1> HIDE DEF new
<1> QED
  BY <1>1, <1>2, ExecuteProperties

\* A released key does not repeat any more.
LEMMA KeyReleaseProperties ==
  ASSUME NEW b, InText(b), NEW key \in RepeatAction
  PROVE  /\ GoodEdit(b, KeyRelease(b, key))
         /\ KeyRelease(b, key).mString = b.mString
         /\ KeyRelease(b, key).mRepeatAction =
               IF b.mRepeatAction = key THEN "None" ELSE b.mRepeatAction
  BY DEF KeyRelease, GoodEdit, InText, Box, HasHighlight, Indices

\* A typed character is an edit, or none in a full box.
LEMMA EnterTextProperties ==
  ASSUME NEW b, InText(b), NEW ch \in Chars
  PROVE  /\ GoodEdit(b, EnterText(b, ch))
         /\ EnterText(b, ch).mRepeatAction = b.mRepeatAction
<1>1. CASE ~(Len(b.mString) < mCharacterLimit)
  BY <1>1 DEF EnterText, GoodEdit
<1>2. CASE Len(b.mString) < mCharacterLimit
  <2> DEFINE d == DeleteSelectedText(b)
             i == d.mCursorIndex
             text == Insert(d.mString, i, ch)
  <2>1. /\ d \in Box /\ d.mString \in Seq(Chars) /\ Len(d.mString) \in Nat
        /\ Len(d.mString) <= Len(b.mString)
        /\ i \in 0 .. Len(d.mString)
        /\ d.mRepeatAction = b.mRepeatAction
        /\ \E range \in CutRanges(b) :
              d.mString = Cut(b.mString, range[1], range[2]) /\ i = range[1]
    <3>1. CASE HasHighlight(b)
      <4>1. <<First(b), End(b)>> \in CutRanges(b)
        BY <3>1 DEF CutRanges
      <4>2. /\ GoodEdit(b, d) /\ d.mString = Cut(b.mString, First(b), End(b))
            /\ i = First(b) /\ d.mRepeatAction = b.mRepeatAction
            /\ First(b) \in 0 .. Len(d.mString)
            /\ Len(d.mString) < Len(b.mString)
        BY <3>1, DeleteProperties
      <4>3. Len(b.mString) \in Nat /\ d \in Box
        BY <4>2, BoxText DEF InText, GoodEdit
      <4>4. d.mString \in Seq(Chars) /\ Len(d.mString) \in Nat
        BY <4>3, BoxText
      <4> HIDE DEF d
      <4> QED
        BY <4>1, <4>2, <4>3, <4>4
    <3>2. CASE ~HasHighlight(b)
      <4>1. d = b
        BY <3>2 DEF DeleteSelectedText
      <4>2. /\ b \in Box /\ b.mString \in Seq(Chars) /\ Len(b.mString) \in Nat
            /\ b.mCursorIndex \in 0 .. Len(b.mString)
        BY BoxText DEF InText, Indices
      <4>3. <<b.mCursorIndex, b.mCursorIndex>> \in CutRanges(b)
        BY <3>2, <4>2 DEF CutRanges
      <4>4. Cut(b.mString, b.mCursorIndex, b.mCursorIndex) = b.mString
        <5> DEFINE whole == b.mString
        <5>1. /\ 1 \in 1 .. Len(whole) + 1
              /\ b.mCursorIndex \in 1 - 1 .. Len(whole)
              /\ Len(whole) \in b.mCursorIndex .. Len(whole)
          BY <4>2
        <5>2. Cut(whole, b.mCursorIndex, b.mCursorIndex) = SubSeq(whole, 1, Len(whole))
          BY <4>2, <5>1, ConcatAdjacentSubSeq, Zenon DEF Cut
        <5> QED
          BY <4>2, <5>2, SubSeqFull
      <4> HIDE DEF d
      <4> QED
        BY <4>1, <4>2, <4>3, <4>4
    <3> QED
      BY <3>1, <3>2
  <2> HIDE DEF d
  <2>2. Len(d.mString) + 1 <= mCharacterLimit /\ i + 1 \in 0 .. Len(d.mString) + 1
    BY <1>2, <2>1, TextBoxAssumption DEF InText
  <2>3. text \in Seq(Chars) /\ Len(text) = Len(d.mString) + 1
    BY <2>1, InsertProperties
  <2>4. EnterText(b, ch) = UpdateString(d, text, i + 1)
    BY <1>2 DEF EnterText, d
  <2>5. PICK range \in CutRanges(b) :
          d.mString = Cut(b.mString, range[1], range[2]) /\ i = range[1]
    BY <2>1
  <2>6. text = Insert(Cut(b.mString, range[1], range[2]), range[1], ch)
    BY <2>5
  <2> HIDE DEF text, i
  <2>7. /\ InText(UpdateString(d, text, i + 1))
        /\ ~HasHighlight(UpdateString(d, text, i + 1))
        /\ UpdateString(d, text, i + 1).mString = text
        /\ UpdateString(d, text, i + 1).mCursorIndex = i + 1
        /\ UpdateString(d, text, i + 1).mRepeatAction = d.mRepeatAction
    BY <2>1, <2>2, <2>3, UpdateStringProperties
  <2>8. Edited(b, EnterText(b, ch))
    BY <2>4, <2>5, <2>6, <2>7 DEF Edited
  <2> QED
    BY <2>1, <2>4, <2>7, <2>8 DEF GoodEdit
<1> QED
  BY <1>1, <1>2

\* Losing the focus ends selection and repetition.
LEMMA UnfocusProperties ==
  ASSUME NEW b, InText(b)
  PROVE  /\ GoodEdit(b, Unfocus(b))
         /\ Unfocus(b).mString = b.mString
         /\ Unfocus(b).mRepeatAction = "None"
  BY DEF Unfocus, GoodEdit, InText, Box, HasHighlight, Indices

\* An empty box.
LEMMA NewBoxProperties == InText(NewBox) /\ NewBox.mRepeatAction = "None"
  BY TextBoxAssumption DEF NewBox, InText, Box, HasHighlight, Indices

\* A frame's update blinks and repeats: an edit or none.
LEMMA UpdatedProperties ==
  ASSUME NEW b, InText(b), NEW pressed \in BOOLEAN, NEW new \in Updated(b, pressed)
  PROVE  /\ GoodEdit(b, new)
         /\ new.mRepeatAction = b.mRepeatAction
<1>1. GoodEdit(b, b)
  BY DEF GoodEdit
<1>2. CASE HasHighlight(b)
  BY <1>1, <1>2 DEF Updated
<1>3. CASE ~HasHighlight(b)
  <2>1. ASSUME NEW blinked \in Blinked(b)
        PROVE  /\ GoodEdit(b, blinked)
               /\ blinked.mRepeatAction = b.mRepeatAction
               /\ \A other : GoodEdit(blinked, other) => GoodEdit(b, other)
    <3>1. /\ blinked \in Box
          /\ blinked.mString = b.mString /\ blinked.mCursorIndex = b.mCursorIndex
          /\ blinked.mSelectionStart = b.mSelectionStart
          /\ blinked.mSelectionEnd = b.mSelectionEnd
          /\ blinked.mRepeatAction = b.mRepeatAction
      BY <2>1 DEF Blinked, InText, Box
    <3>2. ~HasHighlight(blinked) /\ Indices(blinked) = Indices(b)
      BY <1>3, <3>1 DEF HasHighlight, Indices
    <3>3. InText(blinked)
      BY <3>1, <3>2 DEF InText
    <3>4. CutRanges(blinked) = CutRanges(b)
      BY <1>3, <3>1, <3>2 DEF CutRanges
    <3> QED
      BY <3>1, <3>3, <3>4 DEF GoodEdit, Edited
  <2>2. ASSUME NEW blinked \in Blinked(b)
        PROVE  /\ GoodEdit(b, Repeated(blinked))
               /\ Repeated(blinked).mRepeatAction = b.mRepeatAction
    <3>1. InText(blinked) /\ blinked.mRepeatAction = b.mRepeatAction
      BY <2>1, <2>2 DEF GoodEdit
    <3>2. blinked.mRepeatAction \in RepeatAction \cup {"None"}
      BY <3>1 DEF InText, Box
    <3>3. CASE ~blinked.mInInitialDelay
      BY <2>1, <3>1, <3>2, <3>3, ExecuteProperties DEF Repeated
    <3>4. CASE blinked.mInInitialDelay
      <4>1. Repeated(blinked) = [blinked EXCEPT !.mInInitialDelay = FALSE]
        BY <3>4 DEF Repeated
      <4>2. /\ Repeated(blinked) \in Box
            /\ Repeated(blinked).mString = blinked.mString
            /\ Repeated(blinked).mCursorIndex = blinked.mCursorIndex
            /\ Repeated(blinked).mSelectionStart = blinked.mSelectionStart
            /\ Repeated(blinked).mSelectionEnd = blinked.mSelectionEnd
            /\ Repeated(blinked).mShowCursor = blinked.mShowCursor
            /\ Repeated(blinked).mRepeatAction = blinked.mRepeatAction
        BY <3>1, <4>1 DEF InText, Box
      <4>3. InText(Repeated(blinked))
        BY <3>1, <4>2 DEF InText, HasHighlight, Indices
      <4> QED
        BY <2>1, <3>1, <4>2, <4>3 DEF GoodEdit
    <3> QED
      BY <3>1, <3>3, <3>4 DEF InText, Box
  <2> QED
    BY <1>1, <1>3, <2>1, <2>2 DEF Updated
<1> QED
  BY <1>2, <1>3

-----------------------------------------------------------------------------
(* The inductive invariant.                                                *)

\* What ties hover and focus to the press: the pressed child is the hovered
\* one and no other has the focus; a dragged background hovers nothing; and
\* without either hovering is up to date, button down or not.
PressHoldsHover ==
    /\ mIsDraggingBackground => mHoveredChild = NoChild
    /\ mPressedChild # NoChild =>
          mHoveredChild = mPressedChild /\ mFocusedChild \in {mPressedChild, NoChild}
    /\ mPressedChild = NoChild /\ ~mIsDraggingBackground =>
          mHoveredChild \in {mouse, NoChild}

\* Children and flags, without the mouse cursor ...
HoverInv ==
    /\ {mHoveredChild, mPressedChild} \subseteq Target
    /\ mFocusedChild \in {TheBox, NoChild}
    /\ mIsDraggingBackground \in BOOLEAN
    /\ mIsDraggingBackground => mPressedChild = NoChild
    /\ mIsDraggingBackground \/ mPressedChild # NoChild => buttonDown
    /\ mouse \in Target
    /\ buttonDown \in BOOLEAN
    /\ FlagsAgree
    /\ PressHoldsHover
    /\ HoverFollowsMouse

\* ... the mouse cursor ...
CursorInv ==
    /\ {windowCursor, mCurrentMouseCursorType} \cup mLoadedCursors \subseteq CursorType
    /\ cursorOnClicks \in BOOLEAN
    /\ CursorTellsChild

\* ... and the text box.
BoxInv ==
    /\ InText(box)
    /\ held \subseteq RepeatAction
    /\ RepeatNeedsHeldKey

Inv == HoverInv /\ CursorInv /\ BoxInv /\ failed \in BOOLEAN

\* It is what the properties ask for, and more.
LEMMA InvImplies ==
  Inv => /\ TypeOK /\ FlagsAgree /\ HoverFollowsMouse /\ CursorTellsChild
         /\ RepeatNeedsHeldKey /\ SelectionInText
<1> USE DEF Inv, HoverInv, CursorInv, BoxInv
<1>1. Inv => SelectionInText /\ box \in Box
  BY DEF InText, SelectionInText
<1>2. Inv => isHovered \cup isPressed \cup isFocused \subseteq Children
  BY DEF FlagsAgree, Only, Target, Children
<1> QED
  BY <1>1, <1>2 DEF TypeOK

\* A screen loads cursors.
LEMMA LoadableTyped == \A loaded \in Loadable : loaded \subseteq CursorType
  BY DEF Loadable

\* A screen that sets the cursor, or has no reason to, knows the right one.
LEMMA CursorStep ==
  ASSUME CursorInv, AfterMove \/ AfterClick
  PROVE  CursorInv'
<1>1. getMouseCursorType' \in CursorType
  BY DEF getMouseCursorType, CursorOf, CursorType
<1> DEFINE cursorType == getMouseCursorType'
<1> HIDE DEF cursorType
<1>2. CASE setMouseCursor(cursorType) /\ mCurrentMouseCursorType' = cursorType
  <2>1. windowCursor' # mCurrentMouseCursorType' => mCurrentMouseCursorType' = "Arrow"
    BY <1>2 DEF setMouseCursor, cursors, CursorInv, CursorTellsChild
  <2>2. /\ {windowCursor', mCurrentMouseCursorType'} \cup mLoadedCursors' \subseteq CursorType
        /\ cursorOnClicks' \in BOOLEAN
    BY <1>1, <1>2 DEF setMouseCursor, cursors, CursorInv, cursorType
  <2>3. mCurrentMouseCursorType' \in mLoadedCursors' \cup {"Arrow"}
    BY <1>2 DEF setMouseCursor, cursors, CursorInv, CursorTellsChild
  <2> QED
    BY <1>2, <2>1, <2>2, <2>3 DEF CursorInv, CursorTellsChild, cursorType
<1>3. CASE ~cursorOnClicks /\ UNCHANGED cursors
  BY <1>3 DEF cursors, CursorTellsChild, CursorInv
<1>4. CASE cursorType \notin mLoadedCursors /\ UNCHANGED cursors
  BY <1>4 DEF cursors, CursorTellsChild, CursorInv, cursorType
<1>5. ASSUME setMouseCursor(cursorType)
      PROVE  \/ mCurrentMouseCursorType' = cursorType
             \/ cursorType \notin mLoadedCursors /\ UNCHANGED cursors
  BY <1>5 DEF setMouseCursor, cursors
<1> QED
  BY <1>2, <1>3, <1>4, <1>5 DEF AfterMove, AfterClick, cursorType

\* At first nothing is hovered, pressed or focused.
LEMMA InitHover == Init => HoverInv
  BY DEF Init, HoverInv, FlagsAgree, PressHoldsHover, HoverFollowsMouse, Target, Only

\* Presses.
LEMMA PressStep ==
  ASSUME HoverInv, PressChild \/ PressBackground
  PROVE  HoverInv'
<1> USE ContainerAssumption
    DEF HoverInv, FlagsAgree, PressHoldsHover, HoverFollowsMouse, Target, Children, Only
<1>1. CASE PressChild
  BY <1>1 DEF PressChild, TakeFocus
<1>2. CASE PressBackground
  BY <1>2 DEF PressBackground, TakeFocus
<1> QED
  BY <1>1, <1>2

\* Releases.
LEMMA ReleaseStep ==
  ASSUME HoverInv, ReleaseUnexpected \/ ReleaseFromBackground
                     \/ ReleaseOnChild \/ ReleaseElsewhere
  PROVE  HoverInv'
<1> USE ContainerAssumption
    DEF HoverInv, FlagsAgree, PressHoldsHover, HoverFollowsMouse, Target, Children, Only
<1>1. CASE ReleaseUnexpected
  BY <1>1 DEF ReleaseUnexpected, Release, container, flags
<1>2. CASE ReleaseFromBackground
  BY <1>2 DEF ReleaseFromBackground, Release
<1>3. CASE ReleaseOnChild
  BY <1>3 DEF ReleaseOnChild, Release, KeepsFocus
<1>4. CASE ReleaseElsewhere
  BY <1>4 DEF ReleaseElsewhere, Release
<1> QED
  BY <1>1, <1>2, <1>3, <1>4

\* Moves.
LEMMA MoveStep ==
  ASSUME HoverInv, NEW target \in Target,
         DragBackground(target) \/ DragChild(target) \/ Hover(target)
  PROVE  HoverInv'
<1> USE ContainerAssumption
    DEF HoverInv, FlagsAgree, PressHoldsHover, HoverFollowsMouse, Target, Children, Only,
        Move
<1>1. CASE DragBackground(target)
  BY <1>1 DEF DragBackground, container, flags
<1>2. CASE DragChild(target)
  BY <1>2 DEF DragChild, container, flags
<1>3. CASE Hover(target)
  BY <1>3 DEF Hover
<1> QED
  BY <1>1, <1>2, <1>3

\* Keys, updates, and a new screen.
LEMMA OtherStep ==
  ASSUME HoverInv, KeyEvent \/ Update \/ Replace
  PROVE  HoverInv'
<1> USE ContainerAssumption
    DEF HoverInv, FlagsAgree, PressHoldsHover, HoverFollowsMouse, Target, Children, Only
<1>1. CASE KeyEvent
  <2>1. CASE EnterReleased
    BY <2>1 DEF EnterReleased, Focused, input
  <2>2. CASE UNCHANGED <<container, flags, mouse, buttonDown>>
    BY <2>2 DEF container, flags
  <2> QED
    BY <1>1, <2>1, <2>2 DEF KeyEvent, KeyPressed, KeyReleased, TextEntered, input
<1>2. CASE Update
  BY <1>2 DEF Update, container, flags, input
<1>3. CASE Replace
  BY <1>3 DEF Replace, input
<1> QED
  BY <1>1, <1>2, <1>3

-----------------------------------------------------------------------------
(* The text box through the container's steps.                             *)

\* What a step may do with the text box while its screen stays.
BoxStep ==
    /\ GoodEdit(box, box')
    /\ box'.mString # box.mString => TheBox \in isFocused
    /\ RepeatNeedsHeldKey'

\* The focused child is the text box.
LEMMA FocusedIsBox ==
  ASSUME HoverInv
  PROVE  /\ Focused <=> TheBox \in isFocused
         /\ Focused => mFocusedChild = TheBox /\ isFocused = {TheBox}
         /\ ~Focused => isFocused = {}
  BY ContainerAssumption DEF HoverInv, FlagsAgree, Only, Focused, Children

\* Key events.
LEMMA KeyBoxStep ==
  ASSUME HoverInv, BoxInv, KeyEvent
  PROVE  BoxStep /\ held' \subseteq RepeatAction
<1> USE DEF BoxStep, BoxInv, RepeatNeedsHeldKey
<1>0. GoodEdit(box, box)
  BY DEF GoodEdit
<1>1. ASSUME NEW key \in RepeatAction, KeyPressed(key)
      PROVE  BoxStep /\ held' \subseteq RepeatAction
  BY <1>0, <1>1, FocusedIsBox, KeyPressProperties DEF KeyPressed, flags
<1>2. ASSUME NEW key \in RepeatAction, KeyReleased(key)
      PROVE  BoxStep /\ held' \subseteq RepeatAction
  BY <1>0, <1>2, FocusedIsBox, KeyReleaseProperties DEF KeyReleased, flags
<1>3. CASE EnterReleased
  BY <1>3, UnfocusProperties DEF EnterReleased, input
<1>4. ASSUME NEW ch \in Chars, TextEntered(ch)
      PROVE  BoxStep /\ held' \subseteq RepeatAction
  BY <1>4, FocusedIsBox, EnterTextProperties DEF TextEntered, flags, input
<1> QED
  BY <1>1, <1>2, <1>3, <1>4 DEF KeyEvent

\* Presses and releases.
LEMMA ClickBoxStep ==
  ASSUME HoverInv, BoxInv,
         \/ PressChild \/ PressBackground \/ ReleaseUnexpected
         \/ ReleaseFromBackground \/ ReleaseOnChild \/ ReleaseElsewhere
  PROVE  BoxStep /\ held' \subseteq RepeatAction
<1> USE DEF BoxStep, BoxInv, RepeatNeedsHeldKey
<1>0. GoodEdit(box, box) /\ box \in Box /\ Len(box.mString) <= mCharacterLimit
  BY DEF GoodEdit, InText
<1>1. ASSUME NEW index \in Indices(box)
      PROVE  /\ GoodEdit(box, SetCursorPosition(box, index))
             /\ SetCursorPosition(box, index).mString = box.mString
             /\ SetCursorPosition(box, index).mRepeatAction = box.mRepeatAction
             /\ GoodEdit(box, SetSelectionEnd(box, index))
             /\ SetSelectionEnd(box, index).mString = box.mString
             /\ SetSelectionEnd(box, index).mRepeatAction = box.mRepeatAction
  BY <1>0, SetCursorPositionProperties, SetSelectionEndProperties DEF GoodEdit
<1>2. CASE PressChild
  <2>1. CASE mouse = TheBox
    BY <1>1, <1>2, <2>1, FocusedIsBox DEF PressChild, TakeFocus
  <2>2. CASE mouse # TheBox
    BY <1>0, <1>2, <2>2, FocusedIsBox, UnfocusProperties DEF PressChild
  <2> QED
    BY <2>1, <2>2
<1>3. CASE PressBackground
  BY <1>0, <1>3, FocusedIsBox, UnfocusProperties DEF PressBackground
<1>4. CASE ReleaseUnexpected \/ ReleaseFromBackground \/ ReleaseElsewhere
  BY <1>0, <1>4 DEF ReleaseUnexpected, ReleaseFromBackground, ReleaseElsewhere,
                    Release, flags
<1>5. CASE ReleaseOnChild
  BY <1>0, <1>1, <1>5 DEF ReleaseOnChild, Release
<1> QED
  BY <1>2, <1>3, <1>4, <1>5

\* Moves and the frame's update.
LEMMA MoveBoxStep ==
  ASSUME HoverInv, BoxInv,
         \/ \E target \in Target :
               DragBackground(target) \/ DragChild(target) \/ Hover(target)
         \/ Update
  PROVE  BoxStep /\ held' \subseteq RepeatAction
<1> USE DEF BoxStep, BoxInv, RepeatNeedsHeldKey
<1>0. GoodEdit(box, box)
  BY DEF GoodEdit
<1>1. ASSUME NEW target \in Target, DragBackground(target) \/ Hover(target)
      PROVE  BoxStep /\ held' \subseteq RepeatAction
  BY <1>0, <1>1 DEF DragBackground, Hover, Move, flags
<1>2. ASSUME NEW target \in Target, DragChild(target)
      PROVE  BoxStep /\ held' \subseteq RepeatAction
  BY <1>0, <1>2, SetSelectionEndProperties DEF DragChild, Move, flags, GoodEdit
<1>3. CASE Update
  <2>1. (TheBox \in isPressed) \in BOOLEAN
    OBVIOUS
  <2>2. GoodEdit(box, box') /\ box'.mRepeatAction = box.mRepeatAction
    BY <1>3, <2>1, UpdatedProperties DEF Update
  <2> QED
    BY <1>3, <2>2 DEF Update, flags, input
<1> QED
  BY <1>1, <1>2, <1>3

-----------------------------------------------------------------------------
(* The theorems.                                                           *)

\* A new container satisfies the invariant.
LEMMA InvInit == Init => Inv
<1>1. Init => CursorInv
  <2> SUFFICES ASSUME Init PROVE CursorInv
    OBVIOUS
  <2>1. getMouseCursorType = "Arrow"
    BY DEF Init, getMouseCursorType
  <2> QED
    BY <2>1, LoadableTyped DEF Init, CursorInv, CursorTellsChild, CursorType
<1>2. Init => BoxInv
  BY NewBoxProperties DEF Init, BoxInv, RepeatNeedsHeldKey
<1> QED
  BY <1>1, <1>2, InitHover DEF Inv, Init

\* A new screen starts anew, but for the window's cursor.
LEMMA ReplaceStep ==
  ASSUME Inv, Replace
  PROVE  Inv'
<1>1. HoverInv'
  BY OtherStep DEF Inv
<1>2. getMouseCursorType' = "Arrow"
  BY DEF Replace, getMouseCursorType
<1>3. CursorInv'
  BY <1>2, LoadableTyped DEF Inv, CursorInv, Replace, CursorTellsChild, CursorType
<1>4. BoxInv'
  BY NewBoxProperties DEF Inv, BoxInv, Replace, input, RepeatNeedsHeldKey, InText
<1> QED
  BY <1>1, <1>3, <1>4 DEF Inv, Replace

\* A step on the same screen.
LEMMA ScreenStep ==
  ASSUME Inv, MouseEvent \/ ((KeyEvent \/ Update) /\ UNCHANGED cursors)
  PROVE  Inv' /\ BoxStep
<1>1. HoverInv'
  BY PressStep, ReleaseStep, MoveStep, OtherStep DEF Inv, MouseEvent
<1>2. BoxStep /\ held' \subseteq RepeatAction
  BY KeyBoxStep, ClickBoxStep, MoveBoxStep DEF Inv, MouseEvent
<1>3. CursorInv'
  <2>1. CASE AfterClick \/ AfterMove
    BY <2>1, CursorStep DEF Inv
  <2>2. ASSUME UNCHANGED cursors, ReleaseUnexpected \/ KeyEvent \/ Update
        PROVE  CursorInv'
    <3>1. UNCHANGED <<mHoveredChild, mPressedChild, isHovered, isPressed>>
      BY <2>2 DEF ReleaseUnexpected, KeyEvent, KeyPressed, KeyReleased,
                  EnterReleased, TextEntered, Update, container, flags
    <3>2. getMouseCursorType' = getMouseCursorType
      BY <3>1 DEF getMouseCursorType
    <3> QED
      BY <2>2, <3>2 DEF Inv, CursorInv, CursorTellsChild, cursors
  <2> QED
    BY <2>1, <2>2 DEF MouseEvent
<1>4. failed' \in BOOLEAN
  BY DEF Inv, MouseEvent, PressChild, PressBackground, ReleaseUnexpected,
         ReleaseFromBackground, ReleaseOnChild, ReleaseElsewhere, DragBackground,
         DragChild, Hover, Move, KeyEvent, KeyPressed, KeyReleased, EnterReleased,
         TextEntered, Update
<1>5. BoxInv'
  BY <1>2 DEF BoxStep, BoxInv, GoodEdit, InText
<1> QED
  BY <1>1, <1>2, <1>3, <1>4, <1>5 DEF Inv

\* One step per action; the lemmas above have the branches of handleEvent.
LEMMA InvStep == Inv /\ [Next]_vars => Inv'
<1> SUFFICES ASSUME Inv, [Next]_vars PROVE Inv'
  OBVIOUS
<1>1. CASE Next
  <2>1. MouseEvent \/ ((KeyEvent \/ Update) /\ UNCHANGED cursors) \/ Replace
    BY <1>1 DEF Next
  <2>2. CASE Replace
    BY <2>2, ReplaceStep
  <2>3. CASE MouseEvent \/ ((KeyEvent \/ Update) /\ UNCHANGED cursors)
    BY <2>3, ScreenStep
  <2> QED
    BY <2>1, <2>2, <2>3
<1>2. CASE UNCHANGED vars
  <2> USE <1>2 DEF vars, container, flags, input, cursors, Inv
  <2>1. HoverInv'
    BY DEF HoverInv, FlagsAgree, PressHoldsHover, HoverFollowsMouse
  <2>2. CursorInv'
    <3>1. getMouseCursorType' = getMouseCursorType
      BY DEF getMouseCursorType
    <3> QED
      BY <3>1 DEF CursorInv, CursorTellsChild
  <2>3. BoxInv'
    BY DEF BoxInv, RepeatNeedsHeldKey, InText
  <2> QED
    BY <2>1, <2>2, <2>3
<1> QED
  BY <1>1, <1>2

\* What hover, press, focus, the cursor and the text box keep among each other,
\* over every sequence of events, updates and replaced screens.
THEOREM InvAlways == Spec => []Inv
  BY InvInit, InvStep, PTL DEF Spec

\* The types, and that child and background are never both pressed.
THEOREM TypeCorrect == Spec => []TypeOK
  BY InvAlways, InvImplies, PTL

\* Container and children agree about hover, press and focus.
THEOREM ContainerAndChildrenAgree == Spec => []FlagsAgree
  BY InvAlways, InvImplies, PTL

\* No hover stays behind the mouse.
THEOREM NoHoverStaysBehind == Spec => []HoverFollowsMouse
  BY InvAlways, InvImplies, PTL

\* The mouse cursor tells what is under the mouse, if the screen could load the
\* cursor for it, and a screen notes no cursor that it has not set.
THEOREM CursorIsRight == Spec => []CursorTellsChild
  BY InvAlways, InvImplies, PTL

\* No key goes on repeating.
THEOREM NoKeyGoesOnRepeating == Spec => []RepeatNeedsHeldKey
  BY InvAlways, InvImplies, PTL

\* Erase and insert never leave the text, and no cursor blinks in a highlight.
THEOREM SelectionStaysInText == Spec => []SelectionInText
  BY InvAlways, InvImplies, PTL

\* The text changes by one edit at a time, at the highlight or the cursor, in the
\* focused box.
THEOREM EveryEditIsLocal == Spec => EditsAreLocal
<1> DEFINE Local ==
      box'.mString # box.mString /\ box' # NewBox =>
         /\ TheBox \in isFocused
         /\ ~HasHighlight(box')
         /\ \E range \in CutRanges(box) :
               LET kept == Cut(box.mString, range[1], range[2]) IN
               \/ box'.mString = kept /\ box'.mCursorIndex = range[1]
               \/ \E ch \in Chars :
                     /\ box'.mString = Insert(kept, range[1], ch)
                     /\ box'.mCursorIndex = range[1] + 1
<1>1. Inv /\ [Next]_vars => [Local]_vars
  <2> SUFFICES ASSUME Inv, Next PROVE Local
    OBVIOUS
  <2>1. CASE Replace
    BY <2>1 DEF Replace
  <2>2. CASE MouseEvent \/ ((KeyEvent \/ Update) /\ UNCHANGED cursors)
    BY <2>2, ScreenStep DEF BoxStep, GoodEdit, Edited
  <2> HIDE DEF Local
  <2> QED
    BY <2>1, <2>2 DEF Next
<1> QED
  BY <1>1, InvAlways, PTL DEF Spec, EditsAreLocal

=============================================================================
