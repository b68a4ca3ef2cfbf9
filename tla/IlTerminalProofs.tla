--------------------------- MODULE IlTerminalProofs ---------------------------
(***************************************************************************)
(* For every size of the buffer and whatever sizes the terminal takes: the *)
(* window stays in the buffer and the cursor in the window, so no byte,    *)
(* clear or resize makes the emulator read or write outside vbuf; and what *)
(* the terminal shows is the window of vbuf, although every escape         *)
(* sequence decides for itself what to redraw.                             *)
(***************************************************************************)
EXTENDS IlTerminal, TLAPS

\* The bounds, and the types of the cursor and the window before these hold.
Placed == ViewInBuffer /\ cur_row \in Int /\ cur_col \in Int /\ win_top \in Int /\ InBounds

\* The sizes a view may get.
LEMMA RangeOK ==
  ASSUME NEW n \in Nat, NEW last \in Nat, NEW default \in 1 .. last
  PROVE  InRange(n, last, default) \in 1 .. last
BY DEF InRange

\* C's % of a byte stays below its divisor.
LEMMA RemainderBelow ==
  ASSUME NEW n \in Nat, NEW m \in Nat \ {0}
  PROVE  n % m \in 0 .. m - 1
OBVIOUS

\* term_ensure_visible gives a window in the buffer that shows row r.
LEMMA VisibleShows ==
  ASSUME ViewInBuffer, NEW top \in 0 .. NBUF_ROWS - view_rows, NEW r \in Row
  PROVE  /\ Visible(top, r) \in 0 .. NBUF_ROWS - view_rows
         /\ r \in Visible(top, r) .. Visible(top, r) + view_rows - 1
BY SizeAssumption DEF ViewInBuffer, Visible, Row

\* The cursor is in the buffer.
LEMMA CursorInBuffer ==
  Placed => cur_row \in Row /\ cur_col \in VCol /\ win_top \in 0 .. NBUF_ROWS - view_rows
BY SizeAssumption DEF Placed, ViewInBuffer, InBounds, WindowInBuffer, CursorInWindow, Row, VCol

\* Redrawing leaves the cursor where it was asked for, in a window around it.
LEMMA RedrawOK ==
  ASSUME ViewInBuffer, UNCHANGED view,
         NEW buf, NEW d, NEW r \in Row, NEW c \in VCol,
         NEW top \in 0 .. NBUF_ROWS - view_rows,
         Redraw(buf, d, r, c, top)
  PROVE  Placed'
<1> DEFINE t == Visible(top, r)
<1>1. cur_row' = r /\ cur_col' = c /\ win_top' = t
  BY DEF Redraw
<1>2. t \in 0 .. NBUF_ROWS - view_rows /\ r \in t .. t + view_rows - 1
  BY VisibleShows
<1>3. view_rows' = view_rows /\ view_cols' = view_cols
  BY DEF view
<1> HIDE DEF t
<1> QED BY <1>1, <1>2, <1>3, SizeAssumption
     DEF Placed, ViewInBuffer, InBounds, WindowInBuffer, CursorInWindow, VCol, Row

\* So does moving the cursor without redrawing.
LEMMA MoveOK ==
  ASSUME Placed, UNCHANGED view, NEW r \in Row, NEW c \in VCol, Move(r, c)
  PROVE  Placed'
<1>1. win_top \in 0 .. NBUF_ROWS - view_rows
  BY CursorInBuffer
<1>2. CASE Redraw(vbuf, dirty, r, c, win_top)
  BY <1>1, <1>2, RedrawOK DEF Placed
<1>3. CASE Visible(win_top, r) = win_top /\ cur_row' = r /\ cur_col' = c /\ UNCHANGED text
  <2>1. r \in win_top .. win_top + view_rows - 1
    BY <1>1, <1>3, VisibleShows DEF Placed
  <2>2. win_top' = win_top /\ view_rows' = view_rows /\ view_cols' = view_cols
    BY <1>3 DEF text, view
  <2> QED BY <1>1, <1>3, <2>1, <2>2, SizeAssumption
       DEF Placed, ViewInBuffer, InBounds, WindowInBuffer, CursorInWindow, VCol, Row
<1> QED BY <1>2, <1>3 DEF Move

\* The rows and columns the cursor may go to from where it is.
LEMMA Destinations ==
  ASSUME Placed
  PROVE  /\ Below \in Row /\ 0 \in Row /\ 0 \in VCol /\ view_cols - 1 \in VCol
         /\ cur_row > 0 => cur_row - 1 \in Row
         /\ cur_row < NBUF_ROWS - 1 => cur_row + 1 \in Row
         /\ cur_col > 0 => cur_col - 1 \in VCol
         /\ cur_col + 1 < view_cols => cur_col + 1 \in VCol
         /\ 0 \in 0 .. NBUF_ROWS - view_rows
         /\ win_top > 0 => win_top - 1 \in 0 .. NBUF_ROWS - view_rows
         /\ win_top < NBUF_ROWS - view_rows => win_top + 1 \in 0 .. NBUF_ROWS - view_rows
BY CursorInBuffer, SizeAssumption DEF Placed, ViewInBuffer, Below, Row, VCol

-----------------------------------------------------------------------------
(***************************************************************************)
(* The bytes.                                                              *)
(***************************************************************************)

\* Text.
LEMMA PlainOK ==
  ASSUME Placed, NEW n, Plain(n)
  PROVE  Placed'
<1> USE CursorInBuffer, Destinations, RedrawOK
<1> UNCHANGED view
  BY DEF Plain
<1> ViewInBuffer
  BY DEF Placed
<1>1. CASE Return
  BY <1>1 DEF Return
<1>2. CASE LineFeed
  <2>1. cur_row < NBUF_ROWS - 1 => cur_row + 1 \in Row
    OBVIOUS
  <2> QED BY <1>2, <2>1 DEF LineFeed
<1>3. CASE Null
  BY <1>3 DEF Null
<1>4. CASE PrintChar(n)
  <2>1. CASE cur_col + 1 >= view_cols
    BY <1>4, <2>1 DEF PrintChar
  <2>2. CASE ~(cur_col + 1 >= view_cols)
    <3>1. cur_col + 1 \in VCol
      BY <2>2, SizeAssumption DEF ViewInBuffer, VCol
    <3> QED BY <1>4, <2>2, <3>1 DEF PrintChar
  <2> QED BY <2>1, <2>2
<1> QED BY <1>1, <1>2, <1>3, <1>4 DEF Plain

\* Cursor movements, erasing and rolling.
LEMMA MovementOK ==
  ASSUME Placed, UNCHANGED view, NEW n, Movement(n)
  PROVE  Placed'
<1> USE CursorInBuffer, Destinations
<1> ViewInBuffer
  BY DEF Placed
<1>1. CASE Up
  BY <1>1, MoveOK, SizeAssumption DEF Up, Row
<1>2. CASE Down
  BY <1>2, MoveOK DEF Down
<1>3. CASE Right
  <2>1. CASE cur_col + 1 < view_cols /\ Move(cur_row, cur_col + 1)
    BY <2>1, MoveOK
  <2>2. CASE Move(IF cur_row < NBUF_ROWS - 1 THEN cur_row + 1 ELSE 0, 0)
    <3>1. (IF cur_row < NBUF_ROWS - 1 THEN cur_row + 1 ELSE 0) \in Row
      OBVIOUS
    <3> QED BY <2>2, <3>1, MoveOK
  <2> QED BY <1>3, <2>1, <2>2 DEF Right
<1>4. CASE Left
  <2>1. CASE cur_col > 0 /\ Move(cur_row, cur_col - 1)
    BY <2>1, MoveOK
  <2>2. CASE cur_row > 0 /\ Move(cur_row - 1, view_cols - 1)
    BY <2>2, MoveOK
  <2>3. CASE Move(0, 0)
    BY <2>3, MoveOK
  <2> QED BY <1>4, <2>1, <2>2, <2>3 DEF Left
<1>5. CASE Home
  BY <1>5, MoveOK DEF Home
<1>6. CASE Erase
  BY <1>6, RedrawOK DEF Erase
<1>7. CASE ClearToEnd
  BY <1>7, RedrawOK DEF ClearToEnd
<1>8. CASE RollUp
  <2>1. (IF win_top < NBUF_ROWS - view_rows THEN win_top + 1 ELSE win_top)
          \in 0 .. NBUF_ROWS - view_rows
    OBVIOUS
  <2> QED BY <1>8, <2>1, RedrawOK DEF RollUp
<1>9. CASE RollDown
  <2>1. (IF win_top > 0 THEN win_top - 1 ELSE 0) \in 0 .. NBUF_ROWS - view_rows
    OBVIOUS
  <2> QED BY <1>9, <2>1, RedrawOK DEF RollDown
<1> QED BY <1>1, <1>2, <1>3, <1>4, <1>5, <1>6, <1>7, <1>8, <1>9 DEF Movement

\* A step that moves neither the cursor nor the window nor the view.
LEMMA StillOK ==
  ASSUME Placed, UNCHANGED <<cur_row, cur_col, win_top, view>>
  PROVE  Placed'
BY DEF Placed, ViewInBuffer, InBounds, WindowInBuffer, CursorInWindow, VCol, view

LEMMA EscapeOK ==
  ASSUME Placed, NEW n, Escape(n)
  PROVE  Placed'
<1>1. UNCHANGED view
  BY DEF Escape
<1>2. CASE Movement(n)
  BY <1>1, <1>2, MovementOK
<1>3. CASE Still
  BY <1>1, <1>3, StillOK DEF Still, text
<1> QED BY <1>2, <1>3 DEF Escape

\* The two bytes of ESC % are reduced to the view: the window has not moved
\* out of the buffer since, and the view may be another than when ESC % came.
LEMMA AddressOK ==
  ASSUME Placed, NEW n \in Coordinates, AddressColumn(n) \/ AddressRow(n)
  PROVE  Placed'
<1> n \in Nat /\ view_rows \in Nat \ {0} /\ view_cols \in Nat \ {0}
  BY ByteAssumption, SizeAssumption DEF Placed, ViewInBuffer, Char
<1>1. n % view_rows \in 0 .. view_rows - 1 /\ n % view_cols \in 0 .. view_cols - 1
  BY RemainderBelow
<1> DEFINE row == n % view_rows  col == n % view_cols
<1>2. row \in 0 .. view_rows - 1 /\ col \in 0 .. view_cols - 1
  BY <1>1
<1>3. win_top' = win_top /\ view_rows' = view_rows /\ view_cols' = view_cols
  BY DEF AddressColumn, AddressRow, text, view
<1>4. \/ cur_col' = col /\ cur_row' = cur_row
      \/ cur_row' = win_top + row /\ cur_col' = cur_col
  BY DEF AddressColumn, AddressRow
<1> HIDE DEF row, col
<1> QED BY <1>2, <1>3, <1>4
     DEF Placed, ViewInBuffer, InBounds, WindowInBuffer, CursorInWindow, VCol

-----------------------------------------------------------------------------
\* The top left of the buffer is a place for the cursor in every view.
LEMMA TopLeft ==
  ViewInBuffer /\ cur_row = 0 /\ cur_col = 0 /\ win_top = 0 => Placed
BY SizeAssumption
   DEF Placed, ViewInBuffer, InBounds, WindowInBuffer, CursorInWindow, VCol

\* A new view starts there.
LEMMA ResizeOK ==
  ASSUME NEW s \in Sizes, Resize(s[1], s[2])
  PROVE  Placed'
<1>1. s[1] \in Nat /\ s[2] \in Nat
  BY SizeAssumption
<1>2. view_rows' \in 1 .. NBUF_ROWS /\ view_cols' \in 1 .. NBUF_COLS
  BY <1>1, RangeOK, SizeAssumption DEF Resize, SetViewSize
<1>3. cur_row' = 0 /\ cur_col' = 0 /\ win_top' = 0
  BY DEF Resize
<1>4. ViewInBuffer'
  BY <1>2 DEF ViewInBuffer
<1>5. (ViewInBuffer /\ cur_row = 0 /\ cur_col = 0 /\ win_top = 0)' => Placed'
  BY TopLeft, PTL
<1> QED BY <1>3, <1>4, <1>5

LEMMA InitPlaced == Init => Placed
<1> SUFFICES ASSUME Init PROVE Placed
  OBVIOUS
<1>1. PICK s \in Sizes : /\ view_rows = InRange(s[1], NBUF_ROWS, DefRows)
                         /\ view_cols = InRange(s[2], NBUF_COLS, DefCols)
  BY DEF Init
<1>2. s[1] \in Nat /\ s[2] \in Nat
  BY SizeAssumption
<1>3. ViewInBuffer
  BY <1>1, <1>2, RangeOK, SizeAssumption DEF ViewInBuffer
<1>4. cur_row = 0 /\ cur_col = 0 /\ win_top = 0
  BY DEF Init
<1> QED BY <1>3, <1>4, TopLeft

LEMMA PlacedInductive == Placed /\ [Next]_vars => Placed'
<1> SUFFICES ASSUME Placed, [Next]_vars PROVE Placed'
  OBVIOUS
<1>1. CASE Esc
  BY <1>1, StillOK DEF Esc, text, view
<1>2. ASSUME NEW n \in Text, Plain(n) PROVE Placed'
  BY <1>2, PlainOK
<1>3. ASSUME NEW n \in Escapes, Escape(n) PROVE Placed'
  BY <1>3, EscapeOK
<1>4. ASSUME NEW n \in Coordinates, AddressColumn(n) \/ AddressRow(n) PROVE Placed'
  BY <1>4, AddressOK
<1>5. CASE ClrDisplay
  <2>1. ViewInBuffer /\ UNCHANGED view /\ Erase
    BY <1>5 DEF Placed, ClrDisplay
  <2> QED BY <2>1, Destinations, RedrawOK DEF Erase
<1>6. ASSUME NEW s \in Sizes, Resize(s[1], s[2]) PROVE Placed'
  BY <1>6, ResizeOK
<1>7. ASSUME NEW s \in Sizes, Shrink(s[1], s[2]) PROVE Placed'
  BY <1>7, StillOK DEF Shrink, text,
     Placed, ViewInBuffer, InBounds, WindowInBuffer, CursorInWindow, VCol
<1>8. CASE UNCHANGED vars
  BY <1>8, StillOK DEF vars, text
<1> QED BY <1>1, <1>2, <1>3, <1>4, <1>5, <1>6, <1>7, <1>8 DEF Next, DisplayStr

\* The window lies in the buffer and the cursor in the window, for every size
\* of the buffer: what is read and written lies in vbuf and dirty, also when
\* the terminal is resized in the middle of an escape sequence.
THEOREM TerminalInBounds == Spec => []InBounds
<1>1. Placed => InBounds
  BY DEF Placed
<1> QED BY <1>1, InitPlaced, PlacedInductive, PTL DEF Spec

-----------------------------------------------------------------------------
(***************************************************************************)
(* What is on the screen: the view is, character by character, the window  *)
(* of the buffer, although only the rows marked are drawn.                 *)
(***************************************************************************)
Contents == vbuf \in [Row -> [Col -> Char]] /\ dirty \in [Row -> BOOLEAN]

Shown == wtv = [i \in VRow |-> [j \in VCol |-> vbuf[win_top + i][j]]]

\* The marks of a redrawing of buf are enough: every row is marked, or the
\* window starts where it was and the rows that differ are marked.
Enough(buf, d, top) ==
  \/ \A x \in Row : d[x]
  \/ top = win_top /\ \A x \in Row : d[x] \/ buf[x] = vbuf[x]

LEMMA DrawnRows ==
  ASSUME ViewInBuffer, Shown,
         NEW buf \in [Row -> [Col -> Char]], NEW d \in [Row -> BOOLEAN],
         NEW r \in Row, NEW top \in 0 .. NBUF_ROWS - view_rows, Enough(buf, d, top)
  PROVE  Drawn(buf, Marked(d, top, r), Visible(top, r))
           = [i \in VRow |-> [j \in VCol |-> buf[Visible(top, r) + i][j]]]
<1> DEFINE t == Visible(top, r)
           m == Marked(d, top, r)
<1>1. t \in 0 .. NBUF_ROWS - view_rows
  BY VisibleShows
<1>2. \A i \in VRow : t + i \in Row
  BY <1>1, SizeAssumption DEF ViewInBuffer, VRow, Row
<1>3. Enough(buf, m, t)
  <2>1. CASE t # top
    BY <2>1 DEF Marked, AllDirty, Enough
  <2>2. CASE t = top
    BY <2>2 DEF Marked, Enough
  <2> QED BY <2>1, <2>2
<1> HIDE DEF t, m
<1>4. ASSUME NEW i \in VRow
      PROVE  (IF m[t + i] THEN [j \in VCol |-> buf[t + i][j]] ELSE wtv[i])
               = [j \in VCol |-> buf[t + i][j]]
  <2>1. CASE m[t + i]
    BY <2>1
  <2>2. CASE ~m[t + i]
    <3>1. t = win_top /\ buf[t + i] = vbuf[t + i]
      BY <1>2, <1>3, <2>2 DEF Enough
    <3>2. wtv[i] = [j \in VCol |-> vbuf[win_top + i][j]]
      BY DEF Shown
    <3> QED BY <2>2, <3>1, <3>2
  <2> QED BY <2>1, <2>2
<1>5. Drawn(buf, m, t) = [i \in VRow |-> [j \in VCol |-> buf[t + i][j]]]
  BY <1>4 DEF Drawn
<1> QED BY <1>5 DEF t, m

LEMMA RedrawShows ==
  ASSUME ViewInBuffer, Shown, UNCHANGED view,
         NEW buf \in [Row -> [Col -> Char]], NEW d \in [Row -> BOOLEAN],
         NEW r \in Row, NEW c, NEW top \in 0 .. NBUF_ROWS - view_rows,
         Enough(buf, d, top), Redraw(buf, d, r, c, top)
  PROVE  Contents' /\ Shown'
<1> DEFINE t == Visible(top, r)
           m == Marked(d, top, r)
<1>1. /\ vbuf' = buf /\ win_top' = t /\ wtv' = Drawn(buf, m, t)
      /\ dirty' = [i \in Row |-> m[i] /\ i \notin t .. t + view_rows - 1]
      /\ VRow' = VRow /\ VCol' = VCol
  BY DEF Redraw, view, VRow, VCol
<1>2. m \in [Row -> BOOLEAN]
  BY DEF Marked, AllDirty
<1>3. Drawn(buf, m, t) = [i \in VRow |-> [j \in VCol |-> buf[t + i][j]]]
  BY DrawnRows
<1> HIDE DEF t, m
<1> QED BY <1>1, <1>2, <1>3 DEF Contents, Shown

LEMMA MoveShows ==
  ASSUME Placed, Contents, Shown, UNCHANGED view, NEW r \in Row, NEW c, Move(r, c)
  PROVE  Contents' /\ Shown'
<1>1. ViewInBuffer /\ win_top \in 0 .. NBUF_ROWS - view_rows
  BY CursorInBuffer DEF Placed
<1>2. Enough(vbuf, dirty, win_top)
  BY DEF Enough
<1>3. CASE Redraw(vbuf, dirty, r, c, win_top)
  BY <1>1, <1>2, <1>3, RedrawShows DEF Contents
<1>4. CASE UNCHANGED text
  BY <1>4 DEF Contents, Shown, text, view, VRow, VCol
<1> QED BY <1>3, <1>4 DEF Move

\* A view of n rows and m columns of the blank buffer.
LEMMA Blank ==
  /\ BlankBuf \in [Row -> [Col -> Char]]
  /\ \A n \in 1 .. NBUF_ROWS, m \in 1 .. NBUF_COLS :
       [i \in 0 .. n - 1 |-> [j \in 0 .. m - 1 |-> BlankBuf[0 + i][j]]]
         = [i \in 0 .. n - 1 |-> [j \in 0 .. m - 1 |-> Space]]
<1>1. BlankBuf \in [Row -> [Col -> Char]]
  BY DEF BlankBuf, BlankLine, Space, Char
<1>2. ASSUME NEW n \in 1 .. NBUF_ROWS, NEW m \in 1 .. NBUF_COLS,
             NEW i \in 0 .. n - 1, NEW j \in 0 .. m - 1
      PROVE  BlankBuf[0 + i][j] = Space
  <2>1. 0 + i \in Row /\ j \in Col
    BY SizeAssumption DEF Row, Col
  <2> QED BY <2>1 DEF BlankBuf, BlankLine
<1> QED BY <1>1, <1>2

\* The buffers that are drawn.
LEMMA Buffers ==
  /\ BlankLine \in [Col -> Char]
  /\ AllDirty \in [Row -> BOOLEAN] /\ \A x \in Row : AllDirty[x]
<1>1. BlankLine \in [Col -> Char]
  BY DEF BlankLine, Space, Char
<1> QED BY <1>1 DEF AllDirty

\* The buffer moved up by one row.
ScrolledBuf == [r \in Row |-> IF r < NBUF_ROWS - 1 THEN vbuf[r + 1] ELSE BlankLine]

LEMMA ScrolledOK ==
  ASSUME Contents
  PROVE  ScrolledBuf \in [Row -> [Col -> Char]]
<1>1. \A r \in Row : r < NBUF_ROWS - 1 => r + 1 \in Row
  BY SizeAssumption DEF Row
<1> QED BY <1>1, Buffers DEF Contents, ScrolledBuf

LEMMA LineFeedShows ==
  ASSUME Placed, Contents, Shown, UNCHANGED view, LineFeed
  PROVE  Contents' /\ Shown'
<1>1. ViewInBuffer /\ win_top \in 0 .. NBUF_ROWS - view_rows /\ cur_row \in Row
  BY CursorInBuffer DEF Placed
<1>2. CASE cur_row < NBUF_ROWS - 1
  <2>1. Redraw(vbuf, dirty, cur_row + 1, cur_col, win_top) /\ cur_row + 1 \in Row
    BY <1>2, Destinations DEF LineFeed
  <2>2. Enough(vbuf, dirty, win_top)
    BY DEF Enough
  <2> QED BY <1>1, <2>1, <2>2, RedrawShows DEF Contents
<1>3. CASE ~(cur_row < NBUF_ROWS - 1)
  <2>1. Redraw(ScrolledBuf, AllDirty, cur_row, cur_col, win_top)
    BY <1>3 DEF LineFeed, ScrolledBuf
  <2>2. Enough(ScrolledBuf, AllDirty, win_top)
    BY Buffers DEF Enough
  <2> QED BY <1>1, <2>1, <2>2, ScrolledOK, Buffers, RedrawShows
<1> QED BY <1>2, <1>3

LEMMA PlainShows ==
  ASSUME Placed, Contents, Shown, NEW n \in Char, Plain(n)
  PROVE  Contents' /\ Shown'
<1>0. UNCHANGED view
  BY DEF Plain
<1>1. /\ ViewInBuffer /\ win_top \in 0 .. NBUF_ROWS - view_rows
      /\ cur_row \in Row /\ Below \in Row
  BY CursorInBuffer, Destinations DEF Placed
<1>2. CASE LineFeed
  BY <1>0, <1>2, LineFeedShows
<1>3. CASE Return \/ Null
  <2>1. Enough(vbuf, dirty, win_top)
    BY DEF Enough
  <2>2. PICK c : Redraw(vbuf, dirty, cur_row, c, win_top)
    BY <1>3 DEF Return, Null
  <2> QED BY <1>0, <1>1, <2>1, <2>2, RedrawShows DEF Contents
<1>4. CASE PrintChar(n)
  <2> DEFINE buf == [vbuf EXCEPT ![cur_row] = [@ EXCEPT ![cur_col] = n]]
             d   == [dirty EXCEPT ![cur_row] = TRUE]
  <2>1. buf \in [Row -> [Col -> Char]] /\ d \in [Row -> BOOLEAN]
    BY <1>1 DEF Contents
  <2>2. Enough(buf, d, win_top)
    BY <1>1 DEF Enough, Contents
  <2>3. \E r \in Row : \E c : Redraw(buf, d, r, c, win_top)
    BY <1>1, <1>4 DEF PrintChar
  <2> HIDE DEF buf, d
  <2> QED BY <1>0, <1>1, <2>1, <2>2, <2>3, RedrawShows
<1> QED BY <1>2, <1>3, <1>4 DEF Plain

LEMMA EraseShows ==
  ASSUME Placed, Contents, Shown, UNCHANGED view, Erase
  PROVE  Contents' /\ Shown'
<1>1. ViewInBuffer /\ 0 \in Row /\ 0 \in 0 .. NBUF_ROWS - view_rows
  BY Destinations DEF Placed
<1>2. Enough(BlankBuf, AllDirty, 0)
  BY Buffers DEF Enough
<1> QED BY <1>1, <1>2, Blank, Buffers, RedrawShows DEF Erase

LEMMA MovementShows ==
  ASSUME Placed, Contents, Shown, UNCHANGED view, NEW n, Movement(n)
  PROVE  Contents' /\ Shown'
<1>1. /\ ViewInBuffer /\ win_top \in 0 .. NBUF_ROWS - view_rows
      /\ cur_row \in Row /\ 0 \in Row /\ Below \in Row
  BY CursorInBuffer, Destinations DEF Placed
<1>2. CASE Up \/ Down \/ Home \/ Right \/ Left
  <2>1. \E r \in Row : \E c : Move(r, c)
    BY <1>1, <1>2, Destinations DEF Up, Down, Home, Right, Left
  <2> QED BY <2>1, MoveShows
<1>3. CASE Erase
  BY <1>3, EraseShows
<1>4. CASE RollUp \/ RollDown
  <2>1. \E top \in 0 .. NBUF_ROWS - view_rows :
          Redraw(vbuf, AllDirty, cur_row, cur_col, top)
    BY <1>1, <1>4, Destinations DEF RollUp, RollDown
  <2>2. \A top : Enough(vbuf, AllDirty, top)
    BY Buffers DEF Enough
  <2> QED BY <1>1, <2>1, <2>2, Buffers, RedrawShows DEF Contents
<1>5. CASE ClearToEnd
  <2> DEFINE line == [c \in Col |-> IF c \in cur_col .. view_cols - 1 THEN Space ELSE vbuf[cur_row][c]]
             buf == [r \in Row |-> IF r < cur_row THEN vbuf[r]
                                   ELSE IF r = cur_row THEN line ELSE BlankLine]
             d   == [r \in Row |-> dirty[r] \/ r >= cur_row]
  <2>1. Redraw(buf, d, cur_row, cur_col, win_top)
    <3>1. buf = [r \in Row |->
            IF r < cur_row THEN vbuf[r]
            ELSE IF r = cur_row
                 THEN [c \in Col |-> IF c \in cur_col .. view_cols - 1 THEN Space ELSE vbuf[r][c]]
                 ELSE BlankLine]
      OBVIOUS
    <3> QED BY <1>5, <3>1 DEF ClearToEnd
  <2>2. line \in [Col -> Char]
    BY <1>1 DEF Contents, Space, Char
  <2> HIDE DEF line
  <2>3. buf \in [Row -> [Col -> Char]] /\ d \in [Row -> BOOLEAN]
    BY <2>2, Buffers DEF Contents
  <2>4. \A x \in Row : d[x] \/ buf[x] = vbuf[x]
    <3>1. \A x \in Row : x >= cur_row \/ x < cur_row
      BY <1>1 DEF Row
    <3> QED BY <3>1
  <2> HIDE DEF buf, d
  <2>5. Enough(buf, d, win_top)
    BY <2>4 DEF Enough
  <2> QED BY <1>1, <2>1, <2>3, <2>5, RedrawShows
<1> QED BY <1>2, <1>3, <1>4, <1>5 DEF Movement

LEMMA InitShows == Init => Contents /\ Shown
<1> SUFFICES ASSUME Init PROVE Contents /\ Shown
  OBVIOUS
<1>1. /\ view_rows \in 1 .. NBUF_ROWS /\ view_cols \in 1 .. NBUF_COLS
  BY InitPlaced DEF Placed, ViewInBuffer
<1>2. /\ vbuf = BlankBuf /\ win_top = 0
      /\ dirty = [i \in Row |-> i >= view_rows]
      /\ wtv = [i \in 0 .. view_rows - 1 |-> [j \in 0 .. view_cols - 1 |-> Space]]
  BY DEF Init, VRow, VCol
<1>3. Contents
  <2>0. \A n : [i \in Row |-> i >= n] \in [Row -> BOOLEAN]
    OBVIOUS
  <2>1. dirty \in [Row -> BOOLEAN]
    BY <1>2, <2>0, Zenon
  <2> QED BY <1>2, <2>1, Blank DEF Contents
<1>4. [i \in 0 .. view_rows - 1 |-> [j \in 0 .. view_cols - 1 |-> BlankBuf[0 + i][j]]]
        = [i \in 0 .. view_rows - 1 |-> [j \in 0 .. view_cols - 1 |-> Space]]
  BY <1>1, Blank
<1>5. Shown
  BY <1>2, <1>4 DEF Shown, VRow, VCol
<1> QED BY <1>3, <1>5

LEMMA ResizeShows ==
  ASSUME NEW s \in Sizes, Resize(s[1], s[2])
  PROVE  Contents' /\ Shown'
<1>1. /\ view_rows' \in 1 .. NBUF_ROWS /\ view_cols' \in 1 .. NBUF_COLS
  BY ResizeOK DEF Placed, ViewInBuffer
<1>2. /\ vbuf' = BlankBuf /\ win_top' = 0
      /\ dirty' = [i \in Row |-> i >= view_rows']
      /\ wtv' = [i \in 0 .. view_rows' - 1 |-> [j \in 0 .. view_cols' - 1 |-> Space]]
  BY DEF Resize
<1>3. Contents'
  <2>0. \A n : [i \in Row |-> i >= n] \in [Row -> BOOLEAN]
    OBVIOUS
  <2>1. dirty' \in [Row -> BOOLEAN]
    BY <1>2, <2>0, Zenon
  <2> QED BY <1>2, <2>1, Blank DEF Contents
<1>4. [i \in 0 .. view_rows' - 1 |-> [j \in 0 .. view_cols' - 1 |-> BlankBuf[0 + i][j]]]
        = [i \in 0 .. view_rows' - 1 |-> [j \in 0 .. view_cols' - 1 |-> Space]]
  BY <1>1, Blank
<1>5. Shown'
  BY <1>2, <1>4 DEF Shown, VRow, VCol
<1> QED BY <1>3, <1>5

ScreenInv == Placed /\ Contents /\ Shown

LEMMA ScreenInductive == ScreenInv /\ [Next]_vars => ScreenInv'
<1> SUFFICES ASSUME ScreenInv, [Next]_vars PROVE Contents' /\ Shown'
  BY PlacedInductive DEF ScreenInv
<1> USE DEF ScreenInv
<1>0. ASSUME UNCHANGED text, view_rows' = view_rows, view_cols' = view_cols
      PROVE  Contents' /\ Shown'
  BY <1>0 DEF Contents, Shown, text, VRow, VCol
<1>1. CASE Esc
  BY <1>0, <1>1 DEF Esc, view
<1>2. ASSUME NEW n \in Text, Plain(n) PROVE Contents' /\ Shown'
  BY <1>2, PlainShows, ByteAssumption
<1>3. ASSUME NEW n \in Escapes, Escape(n) PROVE Contents' /\ Shown'
  <2>1. UNCHANGED view
    BY <1>3 DEF Escape
  <2>2. CASE Movement(n)
    BY <2>1, <2>2, MovementShows
  <2>3. CASE Still
    BY <1>0, <2>1, <2>3 DEF Still, view
  <2> QED BY <1>3, <2>2, <2>3 DEF Escape
<1>4. ASSUME NEW n \in Coordinates, AddressColumn(n) \/ AddressRow(n)
      PROVE  Contents' /\ Shown'
  BY <1>0, <1>4 DEF AddressColumn, AddressRow, view
<1>5. CASE ClrDisplay
  BY <1>5, EraseShows DEF ClrDisplay
<1>6. ASSUME NEW s \in Sizes, Resize(s[1], s[2]) PROVE Contents' /\ Shown'
  BY <1>6, ResizeShows
<1>7. ASSUME NEW s \in Sizes, Shrink(s[1], s[2]) PROVE Contents' /\ Shown'
  BY <1>0, <1>7 DEF Shrink
<1>8. CASE UNCHANGED vars
  BY <1>0, <1>8 DEF vars, view
<1> QED BY <1>1, <1>2, <1>3, <1>4, <1>5, <1>6, <1>7, <1>8 DEF Next, DisplayStr

LEMMA ScreenHolds == Spec => []ScreenInv
BY InitPlaced, InitShows, ScreenInductive, PTL DEF Spec, ScreenInv

\* ildisp.c, term_refresh(): the rows marked dirty are enough.  After every
\* byte, clear and resize the screen shows the window of the buffer, for every
\* size of the buffer and of the view.
THEOREM ScreenIsCurrent == Spec => []ScreenCurrent
<1>1. ScreenInv => ScreenCurrent
  BY DEF ScreenInv, Shown, ScreenCurrent
<1> QED BY <1>1, ScreenHolds, PTL

\* ildisp.c:351-361: a line feed leaves every row the user saw in its place,
\* or moves all of them up by one, whether it moves the cursor, the window or
\* the whole buffer.
THEOREM LineFeedsScroll == Spec => LineFeedScrolls
<1> DEFINE Scrolled == ~fesc /\ faddr = 0 /\ LineFeed =>
             \E k \in {0, 1} : \A i \in 0 .. view_rows - 1 - k : wtv'[i] = wtv[i + k]
<1>1. ScreenInv /\ [Next]_vars => [Scrolled]_vars
  <2> SUFFICES ASSUME ScreenInv, Next, ~fesc, faddr = 0, LineFeed
               PROVE  \E k \in {0, 1} : \A i \in 0 .. view_rows - 1 - k : wtv'[i] = wtv[i + k]
    OBVIOUS
  <2>0. Placed /\ Contents /\ Shown
    BY DEF ScreenInv
  <2>1. /\ view_rows \in 1 .. NBUF_ROWS /\ win_top \in 0 .. NBUF_ROWS - view_rows
        /\ cur_row \in win_top .. win_top + view_rows - 1 /\ cur_row \in Row
        /\ NBUF_ROWS \in Nat /\ ViewInBuffer
    BY <2>0, CursorInBuffer, SizeAssumption
    DEF Placed, InBounds, CursorInWindow, ViewInBuffer
  <2>2. \A i \in VRow : wtv[i] = [j \in VCol |-> vbuf[win_top + i][j]]
    BY <2>0 DEF Shown
  \* The cursor moves down, the window with it where it has to.
  <2>3. CASE cur_row < NBUF_ROWS - 1
    <3> DEFINE r == cur_row + 1
               t == Visible(win_top, r)
    <3>1. r \in Row /\ Redraw(vbuf, dirty, r, cur_col, win_top)
      BY <2>1, <2>3, SizeAssumption DEF LineFeed, Row
    <3>2. wtv' = [i \in VRow |-> [j \in VCol |-> vbuf[t + i][j]]]
      <4>1. Enough(vbuf, dirty, win_top)
        BY DEF Enough
      <4>2. Drawn(vbuf, Marked(dirty, win_top, r), t)
              = [i \in VRow |-> [j \in VCol |-> vbuf[t + i][j]]]
        <5>1. /\ ViewInBuffer /\ Shown /\ r \in Row /\ win_top \in 0 .. NBUF_ROWS - view_rows
              /\ vbuf \in [Row -> [Col -> Char]] /\ dirty \in [Row -> BOOLEAN]
          BY <2>0, <2>1, <3>1, Zenon DEF Contents
        <5> HIDE DEF r
        <5> QED BY <4>1, <5>1, DrawnRows
      <4> QED BY <3>1, <4>2 DEF Redraw
    <3>3. t = win_top \/ t = win_top + 1
      BY <2>1 DEF Visible
    <3> HIDE DEF t
    <3>4. CASE t = win_top
      <4>1. \A i \in 0 .. view_rows - 1 - 0 : i \in VRow /\ i + 0 = i
        BY <2>1 DEF VRow
      <4>2. \A i \in 0 .. view_rows - 1 - 0 : wtv'[i] = wtv[i + 0]
        BY <2>2, <3>2, <3>4, <4>1
      <4> QED BY <4>2
    <3>5. CASE t = win_top + 1
      <4>1. \A i \in 0 .. view_rows - 1 - 1 :
              i \in VRow /\ i + 1 \in VRow /\ (win_top + 1) + i = win_top + (i + 1)
        BY <2>1 DEF VRow
      <4>2. \A i \in 0 .. view_rows - 1 - 1 : wtv'[i] = wtv[i + 1]
        BY <2>2, <3>2, <3>5, <4>1
      <4> QED BY <4>2
    <3> QED BY <3>3, <3>4, <3>5
  \* The buffer moves up under the window.
  <2>4. CASE ~(cur_row < NBUF_ROWS - 1)
    <3>1. Redraw(ScrolledBuf, AllDirty, cur_row, cur_col, win_top)
      BY <2>4 DEF LineFeed, ScrolledBuf
    <3>2. Visible(win_top, cur_row) = win_top
      BY <2>1 DEF Visible
    <3>3. wtv' = [i \in VRow |-> [j \in VCol |-> ScrolledBuf[win_top + i][j]]]
      <4>1. Enough(ScrolledBuf, AllDirty, win_top)
        BY Buffers DEF Enough
      <4>2. Drawn(ScrolledBuf, Marked(AllDirty, win_top, cur_row), win_top)
              = [i \in VRow |-> [j \in VCol |-> ScrolledBuf[win_top + i][j]]]
        BY <2>0, <2>1, <3>2, <4>1, DrawnRows, Buffers, ScrolledOK
      <4> QED BY <3>1, <3>2, <4>2 DEF Redraw
    <3>4. \A i \in 0 .. view_rows - 1 - 1 :
            /\ i \in VRow /\ i + 1 \in VRow
            /\ win_top + i \in Row /\ win_top + i < NBUF_ROWS - 1
            /\ (win_top + i) + 1 = win_top + (i + 1)
      BY <2>1 DEF VRow, Row
    <3>5. \A i \in 0 .. view_rows - 1 - 1 : wtv'[i] = wtv[i + 1]
      BY <2>2, <3>3, <3>4 DEF ScrolledBuf
    <3> QED BY <3>5
  <2> QED BY <2>3, <2>4
<1>2. [][Next]_vars /\ []ScreenInv => [][Scrolled]_vars
  BY <1>1, PTL
<1> QED BY <1>2, ScreenHolds DEF Spec, LineFeedScrolls
=============================================================================
