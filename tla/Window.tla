------------------------------- MODULE Window -------------------------------
(***************************************************************************)
(* The window manager of src/kernel/src/gui: the z-order, the rectangles   *)
(* that must be painted again, dragging with the mouse, and what           *)
(* gui_draw_all leaves on the screen (window.c, shapes.c, graphic.c,       *)
(* evt.c).  Everything here runs in the kernel's only thread: interrupt    *)
(* handlers only queue messages, so each message and each drawing is one   *)
(* step.                                                                   *)
(*                                                                         *)
(* A pixel is what is painted there: the desktop, a place of a window, the *)
(* mouse pointer, and whether the outline of a drag inverts it.  Window 1  *)
(* is the one with a window procedure (the tty window); it shows its text, *)
(* which is one bit at one place of its client area, and above it the red  *)
(* box, which follows the mouse while the left button is held.             *)
(***************************************************************************)
EXTENDS Shapes, Integers, Sequences, SequencesExt, TLC

CONSTANTS
    Width, Height,  \* scr_size
    Border,         \* CLIENT_X0, the width of the borders
    Title,          \* TITLE_HEIGHT
    Mouse,          \* MOUSE_WIDTH and MOUSE_HEIGHT, one number for both
    Radius,         \* BOX_RADIUS, the width of the red box
    Start,          \* the scr_rect of each window at the first drawing
    Moves,          \* the movements the mouse can report
    MaxBatch        \* bound: messages between two drawings

ASSUME ScreenAssumption == Width \in Nat \ {0} /\ Height \in Nat \ {0}
ASSUME FrameAssumption == Border \in Nat /\ Title \in Nat /\ Mouse \in Nat /\ Radius \in Nat
ASSUME MouseAssumption == Moves \subseteq Int \X Int /\ MaxBatch \in Nat
ASSUME StartAssumption == Start \in Seq(Rect) /\ Start # <<>>

Windows == DOMAIN Start
Nobody == 0
Buttons == {"left", "right"}

VARIABLES
    list,       \* window_list, the front window last
    rect,       \* scr_rect of each window
    own,        \* win_invalidated of each window, in its own coordinates
    gi,         \* global_invalidated
    mouse,      \* mouse_pos
    prev,       \* the buttons held at the last message (evt.c)
    moving,     \* the windows with moving set
    capture,    \* mouse_capturing
    sizing,     \* sizing, sizing_rect and sizing_pt
    focused,    \* focused
    data,       \* the text window 1 would show
    box,        \* rp, the point of its client area the red box is left of
    back,       \* the back buffer
    front,      \* the frame buffer
    smeared,    \* history: pixels painted over by something below them
    batch       \* messages since the last drawing

vars == <<list, rect, own, gi, mouse, prev, moving, capture, sizing, focused,
          data, box, back, front, smeared, batch>>

-----------------------------------------------------------------------------
(* What is painted where                                                   *)

Pixels == (0 .. Width - 1) \X (0 .. Height - 1)
Screen == R(0, 0, Width, Height)

\* graphic_set_clipping: rt and the part of the frame buffer that belongs to
\* the area off, both in the coordinates of that area
Clipping(off, rt) ==
    LET ow == MinI(off.w, Width - off.x)
        oh == MinI(off.h, Height - off.y)
        x == -MinI(0, off.x)
        y == -MinI(0, off.y)
    IN RectIntersect(rt, R(x, y, MaxI(ow - x, 0), MaxI(oh - y, 0)))

\* the pixels that drawing over the whole of the area off reaches
Painted(off, rt) ==
    LET c == Clipping(off, rt)
    IN {p \in Pixels : RectContains(c, p[1] - off.x, p[2] - off.y)}

ClientRect(r) == R(Border, Border + Title,
                   MaxI(r.w - 2 * Border, 0), MaxI(r.h - 2 * Border - Title, 0))
TitleRect(r) == R(Border, Border, r.w - 2 * Border, Title)

\* the pointer can get at the title bar of a window with rectangle r
OnTitle(r, x, y) == RectContains(TitleRect(r), x - r.x, y - r.y)
HasHandle(r) == \E x \in 0 .. Width, y \in 0 .. Height : OnTitle(r, x, y)

\* the windows of kmain begin on the screen
ASSUME OnScreenAssumption == \A w \in Windows : HasHandle(Start[w])

\* in window 1: its client area, the place of it that shows the text, and the
\* red box for the point b, which reaches over the edge of the client area
Client == ClientRect(Start[1])
Cell == R(Client.x, Client.y, 1, 1)
Spot(b) == R(Client.x + b.x - Radius, Client.y + b.y - Radius, Radius, Radius)

\* what WM_PAINT leaves at the place (x, y) of window 1: the box is painted
\* above the text, and nothing outside the client area
Red == 2
Ink(x, y) ==
    IF RectContains(Client, x, y) /\ RectContains(Spot(box), x, y) THEN Red
    ELSE IF RectContains(Cell, x, y) THEN data ELSE 0

\* the place of window w that is at p, with the ink i
Place(w, p, i) == <<w, p[1] - rect[w].x, p[2] - rect[w].y, i>>
Face(w, p) == Place(w, p, IF w = 1 THEN Ink(p[1] - rect[1].x, p[2] - rect[1].y) ELSE 0)

Desktop == <<0, 0, 0, 0>>

Covers(w, p) == RectContains(rect[w], p[1], p[2])

\* the window of S that is drawn last
Topmost(S) == list[CHOOSE i \in DOMAIN list :
                       list[i] \in S /\ \A j \in DOMAIN list : list[j] \in S => j <= i]

Pointer == R(mouse.x, mouse.y, Mouse, Mouse)

\* graphic_draw_rect_xor, thickness one
OnOutline(p) ==
    /\ sizing.on
    /\ RectContains(sizing.rect, p[1], p[2])
    /\ ~RectContains(R(sizing.rect.x + 1, sizing.rect.y + 1,
                       sizing.rect.w - 2, sizing.rect.h - 2), p[1], p[2])

\* what a user should see at p
Expected(p) ==
    IF RectContains(Pointer, p[1], p[2]) THEN <<"mouse">>
    ELSE LET S == {w \in Windows : Covers(w, p)}
         IN <<IF S = {} THEN Desktop ELSE Face(Topmost(S), p), OnOutline(p)>>

-----------------------------------------------------------------------------
(* gui_draw_all                                                            *)

\* what the loop over draw_list makes of win_invalidated
Damage(w) ==
    LET s == RectIntersect(rect[w], gi)
    IN RectUnion(own[w], R(s.x - rect[w].x, s.y - rect[w].y, s.w, s.h))

ToScreen(w, r) == R(r.x + rect[w].x, r.y + rect[w].y, r.w, r.h)

\* the areas to copy to the frame buffer
Union(inv) ==
    LET u[i \in 0 .. Len(list)] ==
            IF i = 0 THEN inv ELSE RectUnion(u[i - 1], ToScreen(list[i], Damage(list[i])))
    IN u[Len(list)]

BackAfter ==
    LET inGi == Painted(Screen, gi)
        by == [w \in Windows |-> Painted(rect[w], Damage(w))]
    IN [p \in Pixels |->
          LET S == {w \in Windows : p \in by[w]}
              base == IF S = {} THEN Desktop ELSE Face(Topmost(S), p)
          IN IF p \in inGi
             THEN IF RectContains(Pointer, p[1], p[2]) THEN <<"mouse">>
                  ELSE <<base, OnOutline(p)>>
             ELSE IF S = {} THEN back[p] ELSE <<base, FALSE>>]

\* graphic_bitblt over r, to the whole frame buffer
Bitblt(to, from, r) ==
    LET S == Painted(Screen, r) IN [p \in Pixels |-> IF p \in S THEN from[p] ELSE to[p]]

\* outside gi nothing above the window that is painted is painted again
SmearedAfter ==
    LET inGi == Painted(Screen, gi)
        by == [w \in Windows |-> Painted(rect[w], Damage(w))]
        Over(p) == LET S == {w \in Windows : p \in by[w]}
                   IN IF S = {} THEN p \in smeared
                      ELSE \/ Topmost({w \in Windows : Covers(w, p)}) \notin S
                           \/ OnOutline(p)
                           \/ RectContains(Pointer, p[1], p[2])
    IN {p \in Pixels \ inGi : Over(p)}

DrawAll ==
    /\ batch > 0 \/ gi # Empty
    /\ back' = BackAfter
    /\ front' = Bitblt(front, back', Union(gi))
    /\ smeared' = SmearedAfter
    /\ own' = [w \in Windows |-> Empty]
    /\ gi' = Empty
    /\ batch' = 0
    /\ UNCHANGED <<list, rect, mouse, prev, moving, capture, sizing, focused, data, box>>

-----------------------------------------------------------------------------
(* gui_on_mouse                                                            *)

ClampBelow(v, len) == IF v < 0 THEN 0 ELSE v      \* no upper limit (a fault)
Clamp(v, len) == IF v < 0 THEN 0 ELSE IF v >= len THEN len ELSE v

Whole(w) == R(0, 0, rect[w].w, rect[w].h)

UnderPointer(x, y) ==  \* the target if captures were ignored (a fault)
    LET S == {w \in Windows : RectContains(rect[w], x, y)}
    IN IF S = {} THEN Nobody ELSE Topmost(S)

\* the window a message at (x, y) is for
Target(x, y) ==
    IF capture # Nobody THEN capture
    ELSE LET S == {w \in Windows : RectContains(rect[w], x, y)}
         IN IF S = {} THEN Nobody ELSE Topmost(S)

\* linkedlist_remove and linkedlist_push_back in move_to_front
ToFront(w) ==
    LET k == CHOOSE i \in DOMAIN list : list[i] = w
    IN [i \in DOMAIN list |-> IF i < k THEN list[i]
                              ELSE IF i < Len(list) THEN list[i + 1] ELSE w]

\* a press on a window brings it to the front; on the title it starts a drag
Press(t, x, y, down, inv) ==
    LET w == IF t = Nobody \/ down = {} THEN Nobody ELSE t
        drag == /\ w # Nobody /\ "left" \in down
                /\ ~RectContains(ClientRect(rect[t]), x - rect[t].x, y - rect[t].y)
                /\ OnTitle(rect[t], x, y)
    IN /\ IF w = Nobody THEN UNCHANGED <<focused, list>>
                        ELSE /\ focused' = w
                             /\ list' = ToFront(w)
       /\ IF drag THEN /\ moving' = moving \union {w}
                       /\ capture' = w
                       /\ sizing' = [on |-> TRUE, rect |-> rect[w], x |-> x, y |-> y]
                       /\ gi' = RectUnion(inv, rect[w])
                  ELSE UNCHANGED <<moving, capture, sizing>> /\ gi' = inv
       /\ UNCHANGED rect

\* what on_moving paints again: where the outline was, and where it is
NewOutline(to) == to  \* the old one forgotten (a fault)
Outline(to) == RectUnion(sizing.rect, to)

\* on_moving
Drag(t, x, y, up, inv) ==
    LET to == [rect[t] EXCEPT !.x = @ + x - sizing.x, !.y = @ + y - sizing.y]
    IN /\ IF "left" \in up
          THEN /\ rect' = [rect EXCEPT ![t] = to]
               /\ moving' = moving \ {t}
               /\ capture' = Nobody
               /\ sizing' = [sizing EXCEPT !.on = FALSE, !.rect = to]
               /\ gi' = RectUnion(inv, RectUnion(Outline(to), rect[t]))
          ELSE /\ sizing' = [sizing EXCEPT !.rect = to]
               /\ gi' = RectUnion(inv, Outline(to))
               /\ UNCHANGED <<rect, moving, capture>>
       /\ UNCHANGED <<list, focused>>

\* WM_CHAR: the tty window shows another text, and asks for that place or, when
\* the text scrolls, for all of itself to be painted again
Changes(all) ==
    /\ data' = 1 - data
    /\ own' = [own EXCEPT ![1] = IF all THEN Whole(1) ELSE RectUnion(@, Cell)]

\* WM_MOUSE with the left button held: only the new place of the box is asked
\* to be painted
MoveBox(own0, x, y) ==
    /\ box' = [x |-> x - Client.x, y |-> y - Client.y]
    /\ own' = [own0 EXCEPT ![1] = RectUnion(@, Spot(box'))]

\* window_sendmsg_mouse; inv is what gui_mouse_move made of gi
SendmsgMouse(x, y, held, inv) ==
    LET t == Target(x, y)
        down == held \ prev
        raised == IF t \notin moving /\ t # Nobody /\ down # {}
                  THEN [own EXCEPT ![t] = Whole(t)] ELSE own
    IN /\ IF t \in moving THEN Drag(t, x, y, prev \ held, inv)
                          ELSE Press(t, x, y, down, inv)
       \* WM_MOUSE comes only in the client area, and the tty window takes it
       /\ IF /\ t = 1 /\ t \notin moving /\ "left" \in held
             /\ RectContains(ClientRect(rect[t]), x - rect[t].x, y - rect[t].y)
          THEN MoveBox(raised, x - rect[1].x, y - rect[1].y)
          ELSE own' = raised /\ UNCHANGED box

\* gui_mouse_move: the pointer is painted again even where it stays
MouseMove(x, y) ==
    /\ mouse' = [x |-> x, y |-> y]
    /\ \E held \in SUBSET Buttons :
         /\ prev' = held
         /\ SendmsgMouse(x, y, held, RectUnion(gi, RectUnion(Pointer, R(x, y, Mouse, Mouse))))

GuiOnMouse(d) ==
    /\ batch < MaxBatch
    /\ batch' = batch + 1
    /\ MouseMove(Clamp(mouse.x + d[1], Width), Clamp(mouse.y + d[2], Height))
    /\ UNCHANGED <<data, back, front, smeared>>

\* WM_CHAR to the focused window; a new line at the bottom scrolls
GuiOnKeyboard(all) ==
    /\ batch < MaxBatch
    /\ batch' = batch + 1
    /\ IF focused = 1 THEN Changes(all) ELSE UNCHANGED <<data, own>>
    /\ UNCHANGED <<list, rect, gi, mouse, prev, moving, capture, sizing, focused,
                   box, back, front, smeared>>

Init ==
    /\ list = [i \in DOMAIN Start |-> i]
    /\ rect = Start
    \* window_new fills in its default size, whatever size is set later
    /\ own = [w \in Windows |-> Screen]
    /\ gi = Screen
    /\ mouse = [x |-> Width \div 2, y |-> Height \div 2]
    /\ prev = {} /\ moving = {} /\ capture = Nobody
    /\ sizing = [on |-> FALSE, rect |-> Empty, x |-> 0, y |-> 0]
    /\ focused = 1
    /\ data = 0
    /\ box = [x |-> -2 * Radius, y |-> -2 * Radius]
    /\ back = [p \in Pixels |-> <<"noise">>]
    /\ front = [p \in Pixels |-> <<"noise">>]
    /\ smeared = {}
    /\ batch = 0

Next == \/ DrawAll
        \/ \E d \in Moves : GuiOnMouse(d)
        \/ \E all \in BOOLEAN : GuiOnKeyboard(all)

Spec == Init /\ [][Next]_vars

-----------------------------------------------------------------------------
TypeOK ==
    /\ list \in [Windows -> Windows] /\ ToSet(list) = Windows
    /\ rect \in [Windows -> Rect] /\ own \in [Windows -> Rect] /\ gi \in Rect
    /\ mouse \in [x : 0 .. Width, y : 0 .. Height]
    /\ prev \subseteq Buttons /\ moving \subseteq Windows
    /\ capture \in Windows \union {Nobody} /\ focused \in Windows
    /\ sizing \in [on : BOOLEAN, rect : Rect, x : Int, y : Int]
    /\ data \in {0, 1} /\ box \in [x : Int, y : Int] /\ smeared \subseteq Pixels
    /\ batch \in 0 .. MaxBatch

\* the pixels the next drawing paints right
Pending(p) ==
    \/ p \in Painted(Screen, gi)
    \/ LET S == {w \in Windows : Covers(w, p)}
       IN S # {} /\ p \in Painted(rect[Topmost(S)], own[Topmost(S)])

\* p shows the red box where it has been, and all else that it should
Trail(p) ==
    /\ Covers(1, p) /\ 1 = Topmost({w \in Windows : Covers(w, p)})
    /\ ~RectContains(Pointer, p[1], p[2])
    /\ front[p] = <<Place(1, p, Red), OnOutline(p)>>

\* p shows its place of window 1, which was painted over what covers it
Smear(p) ==
    /\ p \in smeared /\ Covers(1, p)
    /\ \E i \in {0, 1, Red} : front[p] = <<Place(1, p, i), FALSE>>

\* Every pixel that does not show what it should is in an area the next
\* gui_draw_all paints, save for two things that only the tty window does: it
\* leaves the red box where it has been until something else paints that place,
\* and it is painted over what covers it.  Nothing else is ever left: the other
\* windows ask for painting only when they are in front, at a press that also
\* moves the pointer.  (Damage of drags, raises, pointer, text and the new place
\* of the box that is recorded, and used up by gui_draw_all.)
ScreenOK ==
    /\ TypeOK
    /\ \A p \in Pixels : front[p] = Expected(p) \/ Pending(p) \/ Trail(p) \/ Smear(p)

\* A drag has one window, one outline and a held button: mouse_capturing,
\* sizing and moving agree, the left button is down, the window is in front,
\* sizing_pt is a place of its title bar, and the outline is the window's
\* rectangle moved as far as the pointer.
DragOK ==
    /\ sizing.on <=> capture # Nobody
    /\ moving = {capture} \ {Nobody}
    /\ sizing.on => /\ "left" \in prev
                    /\ capture = Last(list) /\ focused = capture
                    /\ sizing.x \in 0 .. Width /\ sizing.y \in 0 .. Height
                    /\ OnTitle(rect[capture], sizing.x, sizing.y)
                    /\ sizing.rect = [rect[capture] EXCEPT !.x = @ + mouse.x - sizing.x,
                                                           !.y = @ + mouse.y - sizing.y]

\* Wherever windows are dropped, the pointer can get at a place of every
\* title bar: no drag loses a window beyond the edge of the screen.
Reachable == \A w \in Windows : HasHandle(rect[w])
=============================================================================
