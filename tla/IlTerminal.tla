----------------------------- MODULE IlTerminal -----------------------------
(***************************************************************************)
(* The terminal emulator of the display (ildisp.c): bytes from the loop    *)
(* write into a buffer of NBUF_ROWS rows, a window of which is on the      *)
(* screen.  Only rows marked dirty are redrawn, some cursor movements      *)
(* redraw nothing, and escape sequences are taken byte by byte, while the  *)
(* user may resize the terminal (handle_resize, ilmain.c) between any two. *)
(*                                                                         *)
(* Every action is a whole call of DisplayStr, ClrDisplay or handle_resize *)
(* with the redrawing at its end.                                          *)
(***************************************************************************)
EXTENDS Integers

CONSTANTS NBUF_ROWS, NBUF_COLS, \* the buffer
          DefRows, DefCols,     \* the view when the size asked for is out of range
          MinRows, MinCols,     \* the smallest view handle_resize accepts
          Sizes,                \* the sizes <<rows, cols>> the user resizes to
          Text,                 \* the bytes sent as text ...
          Escapes,              \* ... after ESC ...
          Coordinates           \* ... and after ESC %

VARIABLES vbuf,     \* row -> column -> character
          dirty,    \* row -> must be redrawn
          view_rows, view_cols,
          cur_row, cur_col,  \* the cursor in the buffer
          win_top,           \* the first row on the screen
          fesc,     \* an escape byte comes next
          faddr,    \* 1: the column byte comes next, 2: the row byte
          modes,    \* cursor_insert and cursor_hidden
          wtv,      \* the ncurses window: row -> column -> character
          wcur,     \* the cursor the user sees, in the window
          small     \* the terminal is too small to be drawn on

text  == <<vbuf, dirty, wtv, win_top>>
view  == <<view_rows, view_cols, small>>
parse == <<fesc, faddr>>
vars  == <<text, view, cur_row, cur_col, parse, modes, wcur>>

Row  == 0 .. NBUF_ROWS - 1
Col  == 0 .. NBUF_COLS - 1
VRow == 0 .. view_rows - 1
VCol == 0 .. view_cols - 1
Char == 0 .. 255

ASSUME SizeAssumption ==
  /\ NBUF_ROWS \in Nat /\ NBUF_COLS \in Nat
  /\ DefRows \in 1 .. NBUF_ROWS /\ DefCols \in 1 .. NBUF_COLS
  /\ MinRows \in Nat \ {0} /\ MinCols \in Nat \ {0}
  /\ Sizes \subseteq Nat \X Nat

ASSUME ByteAssumption ==
  /\ Text \subseteq Char /\ Escapes \subseteq Char /\ Coordinates \subseteq Char

Space == 32
BlankLine == [c \in Col |-> Space]
BlankBuf  == [r \in Row |-> BlankLine]
AllDirty  == [r \in Row |-> TRUE]

-----------------------------------------------------------------------------
(***************************************************************************)
(* Redrawing                                                               *)
(***************************************************************************)

\* term_ensure_visible: where the window must start to show row r.
Visible(top, r) ==
  IF r < top THEN r
  ELSE IF r >= top + view_rows THEN r - view_rows + 1 ELSE top

\* Mutant: moving the window marks nothing.
MarkedInPlace(d, top, r) == d

Marked(d, top, r) == IF Visible(top, r) # top THEN AllDirty ELSE d

\* The ncurses window after the rows marked in d are drawn from buf.
Drawn(buf, d, top) ==
  [i \in VRow |-> IF d[top + i] THEN [j \in VCol |-> buf[top + i][j]] ELSE wtv[i]]

\* The end of most calls, with the buffer at buf, d marked and the cursor at
\* <<r, c>>: bring the cursor into the window, redraw, put the cursor.
Redraw(buf, d, r, c, top) ==
  LET t == Visible(top, r)
      m == Marked(d, top, r)
  IN  /\ vbuf' = buf /\ cur_row' = r /\ cur_col' = c /\ win_top' = t
      /\ wtv' = Drawn(buf, m, t)
      /\ dirty' = [i \in Row |-> m[i] /\ i \notin t .. t + view_rows - 1]
      /\ wcur' = <<r - t, c>>

\* cursor_update: redraw only if the window has to move.
Move(r, c) ==
  \/ /\ Visible(win_top, r) = win_top
     /\ cur_row' = r /\ cur_col' = c /\ wcur' = <<r - win_top, c>>
     /\ UNCHANGED text
  \/ /\ Visible(win_top, r) # win_top
     /\ Redraw(vbuf, dirty, r, c, win_top)

Below == IF cur_row < NBUF_ROWS - 1 THEN cur_row + 1 ELSE cur_row

-----------------------------------------------------------------------------
(***************************************************************************)
(* Text                                                                    *)
(***************************************************************************)

\* term_write_char
PrintChar(ch) ==
  LET buf == [vbuf EXCEPT ![cur_row] = [@ EXCEPT ![cur_col] = ch]]
      d   == [dirty EXCEPT ![cur_row] = TRUE]
  IN  IF cur_col + 1 >= view_cols
      THEN Redraw(buf, d, Below, 0, win_top)
      ELSE Redraw(buf, d, cur_row, cur_col + 1, win_top)

Return == Redraw(vbuf, dirty, cur_row, 0, win_top)

\* Mutant: the buffer scrolls but only its last row is marked.
LineFeedLastRow ==
  IF cur_row < NBUF_ROWS - 1
  THEN Redraw(vbuf, dirty, cur_row + 1, cur_col, win_top)
  ELSE Redraw([r \in Row |-> IF r < NBUF_ROWS - 1 THEN vbuf[r + 1] ELSE BlankLine],
              [dirty EXCEPT ![NBUF_ROWS - 1] = TRUE], cur_row, cur_col, win_top)

\* On the last row the whole buffer scrolls up.
LineFeed ==
  IF cur_row < NBUF_ROWS - 1
  THEN Redraw(vbuf, dirty, cur_row + 1, cur_col, win_top)
  ELSE Redraw([r \in Row |-> IF r < NBUF_ROWS - 1 THEN vbuf[r + 1] ELSE BlankLine],
              AllDirty, cur_row, cur_col, win_top)

Null == Redraw(vbuf, dirty, cur_row, cur_col, win_top)

Plain(n) ==
  /\ ~fesc /\ faddr = 0
  /\ \/ n = 13 /\ Return
     \/ n = 10 /\ LineFeed
     \/ n = 0 /\ Null
     \/ n \notin {0, 10, 13, 27} /\ PrintChar(n)
  /\ UNCHANGED <<parse, modes, view>>

Esc ==
  /\ ~fesc /\ faddr = 0
  /\ fesc' = TRUE
  /\ UNCHANGED <<text, view, cur_row, cur_col, faddr, modes, wcur>>

-----------------------------------------------------------------------------
(***************************************************************************)
(* Escape sequences; the byte is the name of the letter sent.              *)
(***************************************************************************)
Up   == Move(IF cur_row > 0 THEN cur_row - 1 ELSE 0, cur_col)
Down == Move(Below, cur_col)
Home == Move(0, 0)

Right ==
  \/ cur_col + 1 < view_cols /\ Move(cur_row, cur_col + 1)
  \/ cur_col + 1 >= view_cols /\ Move(IF cur_row < NBUF_ROWS - 1 THEN cur_row + 1 ELSE 0, 0)

Left ==
  \/ cur_col > 0 /\ Move(cur_row, cur_col - 1)
  \/ cur_col = 0 /\ cur_row > 0 /\ Move(cur_row - 1, view_cols - 1)
  \/ cur_col = 0 /\ cur_row = 0 /\ Move(0, 0)

Erase == Redraw(BlankBuf, AllDirty, 0, 0, 0)

ClearToEnd ==
  Redraw([r \in Row |->
            IF r < cur_row THEN vbuf[r]
            ELSE IF r = cur_row
                 THEN [c \in Col |-> IF c \in cur_col .. view_cols - 1 THEN Space ELSE vbuf[r][c]]
                 ELSE BlankLine],
         [r \in Row |-> dirty[r] \/ r >= cur_row],
         cur_row, cur_col, win_top)

RollUp ==
  Redraw(vbuf, AllDirty, cur_row, cur_col,
         IF win_top < NBUF_ROWS - view_rows THEN win_top + 1 ELSE win_top)

RollDown ==
  Redraw(vbuf, AllDirty, cur_row, cur_col, IF win_top > 0 THEN win_top - 1 ELSE 0)

Still == UNCHANGED <<text, cur_row, cur_col, wcur>>

Movement(n) ==
  \/ n = 65 /\ Up
  \/ n = 66 /\ Down
  \/ n = 67 /\ Right
  \/ n = 68 /\ Left
  \/ n = 72 /\ Home
  \/ n = 69 /\ Erase
  \/ n = 74 /\ ClearToEnd
  \/ n = 83 /\ RollUp
  \/ n = 84 /\ RollDown

Mode(n) ==
  \/ n = 81 /\ modes' = [modes EXCEPT !.insert = TRUE]
  \/ n = 82 /\ modes' = [modes EXCEPT !.insert = FALSE]
  \/ n = 60 /\ modes' = [modes EXCEPT !.hidden = TRUE]
  \/ n = 62 /\ modes' = [modes EXCEPT !.hidden = FALSE]

Escape(n) ==
  /\ fesc /\ faddr = 0
  /\ fesc' = FALSE
  /\ \/ Movement(n) /\ UNCHANGED <<modes, faddr>>
     \/ Mode(n) /\ Still /\ UNCHANGED faddr
     \/ n = 37 /\ faddr' = 1 /\ Still /\ UNCHANGED modes
     \/ /\ n \notin {65, 66, 67, 68, 72, 69, 74, 83, 84, 81, 82, 60, 62, 37}
        /\ Still /\ UNCHANGED <<modes, faddr>>
  /\ UNCHANGED view

\* The two bytes of ESC %: nothing is redrawn, nor the cursor put.
AddressColumn(n) ==
  /\ faddr = 1
  /\ cur_col' = n % view_cols /\ faddr' = 2
  /\ UNCHANGED <<text, view, cur_row, fesc, modes, wcur>>

\* Mutant: the row is counted from the top of the buffer.
AddressRowInBuffer(n) ==
  /\ faddr = 2
  /\ cur_row' = n % NBUF_ROWS /\ faddr' = 0
  /\ UNCHANGED <<text, view, cur_col, fesc, modes, wcur>>

AddressRow(n) ==
  /\ faddr = 2
  /\ cur_row' = win_top + (n % view_rows) /\ faddr' = 0
  /\ UNCHANGED <<text, view, cur_col, fesc, modes, wcur>>

-----------------------------------------------------------------------------
(***************************************************************************)
(* The rest of the display and the main loop                               *)
(***************************************************************************)

\* DisplayStr
DisplayStr ==
  \/ Esc
  \/ \E n \in Text : Plain(n)
  \/ \E n \in Escapes : Escape(n)
  \/ \E n \in Coordinates : AddressColumn(n) \/ AddressRow(n)

\* DCL or SDC: on_clear.  A sequence under way stays under way.
ClrDisplay == Erase /\ UNCHANGED <<view, parse, modes>>

InRange(n, last, default) == IF n \in 1 .. last THEN n ELSE default

SetViewSize(rows, cols) ==
  /\ view_rows' = InRange(rows, NBUF_ROWS, DefRows)
  /\ view_cols' = InRange(cols, NBUF_COLS, DefCols)

\* handle_resize with a window that is large enough: everything starts anew
\* but the parser and the modes.
Resize(rows, cols) ==
  /\ rows >= MinRows /\ cols >= MinCols
  /\ SetViewSize(rows, cols)
  /\ vbuf' = BlankBuf /\ cur_row' = 0 /\ cur_col' = 0 /\ win_top' = 0
  /\ wtv' = [i \in 0 .. view_rows' - 1 |-> [j \in 0 .. view_cols' - 1 |-> Space]]
  /\ dirty' = [i \in Row |-> i >= view_rows']
  /\ wcur' = <<0, 0>> /\ small' = FALSE
  /\ UNCHANGED <<parse, modes>>

\* ... and with one that is not: a message, and the old view stays.
Shrink(rows, cols) ==
  /\ rows < MinRows \/ cols < MinCols
  /\ small' = TRUE
  /\ UNCHANGED <<text, view_rows, view_cols, cur_row, cur_col, parse, modes, wcur>>

\* main has set the view to the terminal it found; then init_ildisplay, and a
\* first refresh_display.
Init ==
  /\ \E s \in Sizes :
       /\ s[1] >= MinRows /\ s[2] >= MinCols
       /\ view_rows = InRange(s[1], NBUF_ROWS, DefRows)
       /\ view_cols = InRange(s[2], NBUF_COLS, DefCols)
  /\ vbuf = BlankBuf /\ dirty = [i \in Row |-> i >= view_rows]
  /\ cur_row = 0 /\ cur_col = 0 /\ win_top = 0
  /\ fesc = FALSE /\ faddr = 0
  /\ modes = [insert |-> FALSE, hidden |-> FALSE]
  /\ wtv = [i \in VRow |-> [j \in VCol |-> Space]]
  /\ wcur = <<0, 0>> /\ small = FALSE

Next ==
  \/ DisplayStr \/ ClrDisplay
  \/ \E s \in Sizes : Resize(s[1], s[2]) \/ Shrink(s[1], s[2])

Spec == Init /\ [][Next]_vars

-----------------------------------------------------------------------------
(***************************************************************************)
(* Properties                                                              *)
(***************************************************************************)

\* Nothing outside vbuf and dirty is read or written: between two bytes the
\* view is no larger than the buffer, the window lies in the buffer and the
\* cursor in the window, after resizing in the middle of an escape sequence too
\* (ildisp.c:98-100, 109, 142-147, 176, 239).
ViewInBuffer   == view_rows \in 1 .. NBUF_ROWS /\ view_cols \in 1 .. NBUF_COLS
WindowInBuffer == win_top \in 0 .. NBUF_ROWS - view_rows
CursorInWindow == cur_row \in win_top .. win_top + view_rows - 1 /\ cur_col \in VCol
InBounds == ViewInBuffer /\ WindowInBuffer /\ CursorInWindow

\* The dirty marks are enough: the screen shows the window of the buffer.
ScreenCurrent ==
  \A i \in VRow, j \in VCol : wtv[i][j] = vbuf[win_top + i][j]

\* What the user saw before a line feed he sees after it, in its place or
\* one row up (ildisp.c:351-361 with 192-201 and 133-166).
LineFeedScrolls ==
  [][~fesc /\ faddr = 0 /\ LineFeed =>
       \E k \in {0, 1} : \A i \in 0 .. view_rows - 1 - k :
          wtv'[i] = wtv[i + k]]_vars
=============================================================================
