------------------------------ MODULE TtyWindow ------------------------------
(***************************************************************************)
(* The text of the tty window (gui/tty_window.c, tty.c): the buffer, the   *)
(* cursor, and the parts of the window it asks to have painted again.      *)
(* Texts come from tty_puts, single characters from the keyboard, and a    *)
(* held mouse button moves a red box.  Places are cells of one character.  *)
(***************************************************************************)
EXTENDS Shapes, Sequences, FiniteSets, SequencesExt

CONSTANTS
    TtywWidth, TtywHeight,  \* TTYW_WIDTH and TTYW_HEIGHT
    Chars,                  \* characters that are shown
    MaxPuts,                \* bound: characters of one text
    MaxText                 \* bound: characters written in all

ASSUME TtyAssumption == {TtywWidth, TtywHeight} \subseteq Nat \ {0}
ASSUME TextAssumption == {MaxPuts, MaxText} \subseteq Nat

VARIABLES
    buffer,   \* the rows of the buffer
    cursor,   \* cursor_x and cursor_y
    box,      \* rp
    damage,   \* win_invalidated of the window
    shown,    \* what the last paintings left in each cell
    text      \* history: everything written

vars == <<buffer, cursor, box, damage, shown, text>>

Newline == "newline"
Blank == "blank"
Rows == 0 .. TtywHeight - 1
Columns == 0 .. TtywWidth - 1
Cells == Columns \X Rows
Outside == <<-1, -1>>

L(begin, end) == [begin |-> begin, end |-> end]

LinesUnion(a, b) ==
    IF b.begin = b.end THEN a
    ELSE IF a.begin = a.end THEN b
    ELSE L(MinI(a.begin, b.begin), MaxI(a.end, b.end))

\* window_invalidate with NULL, and with a rectangle
All == R(0, 0, TtywWidth, TtywHeight)
LinesRect(l) == R(0, l.begin, TtywWidth, l.end - l.begin)

\* t has the buffer, the cursor, and the damage and the lines so far
Scroll(t) ==
    [t EXCEPT !.buffer = [y \in Rows |-> IF y + 1 \in Rows THEN @[y + 1]
                                         ELSE [x \in Columns |-> Blank]],
              !.cursor = IF @[2] > 0 THEN <<@[1], @[2] - 1>> ELSE <<0, 0>>,
              !.damage = All]

NewLineLines(y) == L(y, y + 1)  \* the line that was left forgotten (a fault)
LeftLines(y) == L(y - 1, y + 1)

\* newline
NewLine(t) ==
    LET y == t.cursor[2] + 1
        next == [t EXCEPT !.cursor = <<0, y>>]
    IN IF y >= TtywHeight
       THEN [Scroll(next) EXCEPT !.lines = LinesUnion(@, L(0, TtywHeight))]
       ELSE [next EXCEPT !.lines = LinesUnion(@, LeftLines(y))]

WrapLate(x) == x > TtywWidth  \* one column beyond the end (a fault)
Wraps(x) == x >= TtywWidth

WriteOne(t, ch) ==
    LET x == t.cursor[1]
        y == t.cursor[2]
        put == [t EXCEPT !.buffer[y] = [c \in Columns |-> IF c = x THEN ch ELSE @[c]],
                         !.cursor = <<x + 1, y>>]
    IN IF ch = Newline THEN NewLine(t)
       ELSE IF Wraps(x + 1) THEN NewLine(put)
       ELSE [put EXCEPT !.lines = LinesUnion(@, L(y, y + 1))]

\* write, and invalidate_lines at its end
Write(str) ==
    LET n == Len(str)
        t[i \in 0 .. n] ==
            IF i = 0 THEN [buffer |-> buffer, cursor |-> cursor, damage |-> damage, lines |-> L(0, 0)]
            ELSE WriteOne(t[i - 1], str[i])
    IN /\ Len(text) + n <= MaxText
       /\ buffer' = t[n].buffer
       /\ cursor' = t[n].cursor
       /\ damage' = RectUnion(t[n].damage, LinesRect(t[n].lines))
       /\ text' = text \o str
       /\ UNCHANGED <<box, shown>>

TtyPuts == \E n \in 0 .. MaxPuts : \E str \in [1 .. n -> Chars \union {Newline}] : Write(str)

\* WM_CHAR
WmChar == \E ch \in Chars \union {Newline} : Write(<<ch>>)

\* WM_MOUSE with the left button held
WmMouse ==
    \E c \in Cells :
      /\ box' = c
      /\ damage' = RectUnion(damage, R(c[1], c[2], 1, 1))
      /\ UNCHANGED <<buffer, cursor, shown, text>>

Content(c) == [ch |-> buffer[c[2]][c[1]], cursor |-> c = cursor, box |-> c = box]

\* gui_draw_all and WM_PAINT: the damaged cells are painted
WmPaint ==
    /\ damage # R(0, 0, 0, 0)
    /\ shown' = [c \in Cells |-> IF RectContains(damage, c[1], c[2]) THEN Content(c)
                                 ELSE shown[c]]
    /\ damage' = R(0, 0, 0, 0)
    /\ UNCHANGED <<buffer, cursor, box, text>>

\* tty_window_init leaves the cursor as it was in memory; kmain's frame lies
\* in the stack's .bss, where nothing has been written before
Init ==
    /\ buffer = [y \in Rows |-> [x \in Columns |-> Blank]]
    /\ cursor = <<0, 0>>
    /\ box = Outside
    /\ damage = All
    /\ shown = [c \in Cells |-> [ch |-> Blank, cursor |-> FALSE, box |-> FALSE]]
    /\ text = <<>>

Next == TtyPuts \/ WmChar \/ WmMouse \/ WmPaint

Spec == Init /\ [][Next]_vars

-----------------------------------------------------------------------------
\* Every variable has its type: the cursor is always on a cell of the buffer.
TypeOK ==
    /\ buffer \in [Rows -> [Columns -> Chars \union {Blank}]]
    /\ cursor \in Cells /\ box \in Cells \union {Outside}
    /\ damage \in Rect
    /\ DOMAIN shown = Cells
    /\ Len(text) <= MaxText

\* a character written on paper without end, of which p has the lines
OnPaper(p, ch) ==
    IF ch = Newline THEN Append(p, <<>>)
    ELSE LET line == Append(Last(p), ch)
             q == [p EXCEPT ![Len(p)] = line]
         IN IF Len(line) = TtywWidth THEN Append(q, <<>>) ELSE q

\* the lines of all that was written
Paper == LET p[i \in 0 .. Len(text)] == IF i = 0 THEN << <<>> >> ELSE OnPaper(p[i - 1], text[i])
         IN p[Len(text)]

\* The buffer has the last lines of all that was written, the cursor is
\* behind the last character, and nothing is written outside the buffer,
\* wherever texts were broken, wrapped or scrolled.  (write_one, newline and
\* scroll.)
LastLines ==
    LET p == Paper
        n == Len(p)
        top == MaxI(n - TtywHeight, 0)
    IN /\ cursor = <<Len(Last(p)), n - top - 1>>
       /\ TypeOK
       /\ \A c \in Cells :
            LET i == top + c[2] + 1
            IN buffer[c[2]][c[1]] = IF i <= n /\ c[1] + 1 <= Len(p[i])
                                    THEN p[i][c[1] + 1] ELSE Blank

\* Every cell that does not show its character, the cursor or its absence is
\* in the area that is going to be painted, and so is the box that is not
\* shown yet.  (A text may wrap and scroll more than once before its lines
\* are reported; the cells the box has left are not among them.)
ChangesPainted ==
    \A c \in Cells :
        \/ RectContains(damage, c[1], c[2])
        \/ /\ shown[c].ch = Content(c).ch /\ shown[c].cursor = Content(c).cursor
           /\ Content(c).box => shown[c].box
=============================================================================
