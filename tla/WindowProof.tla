---------------------------- MODULE WindowProof ----------------------------
(***************************************************************************)
(* Proofs about Window, for every screen, every frame, any windows and any *)
(* movements of the mouse.                                                 *)
(***************************************************************************)
EXTENDS Window, FiniteSets, SequenceTheorems, FiniteSetTheorems,
        WellFoundedInduction, TLAPS

-----------------------------------------------------------------------------
(* Rectangles *)

LEMMA RIsRect ==
  ASSUME NEW x \in Int, NEW y \in Int, NEW w \in Int, NEW h \in Int
  PROVE  /\ R(x, y, w, h) \in Rect
         /\ R(x, y, w, h).x = x /\ R(x, y, w, h).y = y
         /\ R(x, y, w, h).w = w /\ R(x, y, w, h).h = h
BY DEF R, Rect

LEMMA MinMaxType ==
  ASSUME NEW a \in Int, NEW b \in Int
  PROVE  MinI(a, b) \in Int /\ MaxI(a, b) \in Int
BY DEF MinI, MaxI

LEMMA IntersectType ==
  ASSUME NEW r \in Rect, NEW s \in Rect
  PROVE  RectIntersect(r, s) \in Rect
BY DEF RectIntersect, R, Rect, MinI, MaxI

LEMMA UnionType ==
  ASSUME NEW r \in Rect, NEW s \in Rect
  PROVE  RectUnion(r, s) \in Rect
BY DEF RectUnion, R, Rect, MinI, MaxI

\* rect_intersect is the intersection of the two sets of pixels.
LEMMA IntersectExact ==
  ASSUME NEW r \in Rect, NEW s \in Rect, NEW x \in Int, NEW y \in Int
  PROVE  RectContains(RectIntersect(r, s), x, y)
           <=> RectContains(r, x, y) /\ RectContains(s, x, y)
BY DEF RectIntersect, RectContains, R, Rect, MinI, MaxI

\* rect_union loses no pixel of either: damage once recorded stays recorded.
LEMMA UnionCovers ==
  ASSUME NEW r \in Rect, NEW s \in Rect, NEW x \in Int, NEW y \in Int,
         RectContains(r, x, y) \/ RectContains(s, x, y)
  PROVE  RectContains(RectUnion(r, s), x, y)
BY DEF RectUnion, RectContains, R, Rect, MinI, MaxI

\* graphic_set_clipping: a place of the area off that graphic_draw_pixel and
\* graphic_fill_rect let through is one of rt, of the area and of the frame
\* buffer, and each such place is let through, wherever the area lies.
\* Nothing is written beyond the frame buffer, nothing visible is left out.
THEOREM ClippingExact ==
  ASSUME NEW off \in Rect, NEW rt \in Rect, NEW x \in Int, NEW y \in Int
  PROVE  RectContains(Clipping(off, rt), x, y)
           <=> /\ RectContains(rt, x, y)
               /\ RectContains(R(0, 0, off.w, off.h), x, y)
               /\ <<x + off.x, y + off.y>> \in Pixels
<1> DEFINE ow == MinI(off.w, Width - off.x)
           oh == MinI(off.h, Height - off.y)
           vx == -MinI(0, off.x)
           vy == -MinI(0, off.y)
           visible == R(vx, vy, MaxI(ow - vx, 0), MaxI(oh - vy, 0))
<1>1. Width \in Int /\ Height \in Int /\ off.x \in Int /\ off.y \in Int
      /\ off.w \in Int /\ off.h \in Int
  BY ScreenAssumption DEF Rect
<1>2. ow \in Int /\ oh \in Int /\ vx \in Int /\ vy \in Int
  BY <1>1 DEF MinI
<1>3. MaxI(ow - vx, 0) \in Int /\ MaxI(oh - vy, 0) \in Int
  BY <1>1 DEF MinI, MaxI
<1>4. visible \in Rect
  BY <1>2, <1>3, RIsRect
<1>5. RectContains(Clipping(off, rt), x, y)
        <=> RectContains(rt, x, y) /\ RectContains(visible, x, y)
  BY <1>4, IntersectExact DEF Clipping
<1>6. RectContains(visible, x, y)
        <=> vx <= x /\ x < vx + MaxI(ow - vx, 0) /\ vy <= y /\ y < vy + MaxI(oh - vy, 0)
  BY DEF R, RectContains
<1>7. vx <= x /\ x < vx + MaxI(ow - vx, 0)
        <=> 0 <= x /\ x < off.w /\ x + off.x \in 0 .. Width - 1
  BY <1>1 DEF MinI, MaxI
<1>8. vy <= y /\ y < vy + MaxI(oh - vy, 0)
        <=> 0 <= y /\ y < off.h /\ y + off.y \in 0 .. Height - 1
  BY <1>1 DEF MinI, MaxI
<1>9. RectContains(R(0, 0, off.w, off.h), x, y)
        <=> 0 <= x /\ x < off.w /\ 0 <= y /\ y < off.h
  BY <1>1 DEF R, RectContains
<1>10. <<x + off.x, y + off.y>> \in Pixels
         <=> x + off.x \in 0 .. Width - 1 /\ y + off.y \in 0 .. Height - 1
  BY DEF Pixels
<1> QED
  BY <1>5, <1>6, <1>7, <1>8, <1>9, <1>10

-----------------------------------------------------------------------------
(* The list of windows *)

LEMMA WindowsRange ==
  /\ Len(Start) \in Nat \ {0}
  /\ Windows = 1 .. Len(Start)
  /\ 1 \in Windows /\ Nobody \notin Windows
  /\ Start \in [Windows -> Rect]
<1>1. Len(Start) \in Nat /\ DOMAIN Start = 1 .. Len(Start) /\ Start \in [1 .. Len(Start) -> Rect]
  BY StartAssumption, LenProperties
<1>2. Len(Start) # 0
  BY StartAssumption, EmptySeq
<1> QED
  BY <1>1, <1>2 DEF Windows, Nobody

\* An order of the windows is a sequence as long as Start.
LEMMA OrderIsSeq ==
  ASSUME NEW f \in [Windows -> Windows]
  PROVE  /\ Len(f) = Len(Start)
         /\ DOMAIN f = Windows
         /\ Last(f) = f[Len(Start)]
<1> DEFINE n == Len(Start)
<1>1. n \in Nat /\ Windows = 1 .. n
  BY WindowsRange
<1>2. f \in Seq(Windows)
  BY <1>1, SeqDef
<1>3. Len(f) \in Nat /\ DOMAIN f = 1 .. Len(f) /\ DOMAIN f = 1 .. n
  BY <1>1, <1>2, LenProperties
<1>4. Len(f) = n
  BY <1>1, <1>3
<1> QED
  BY <1>1, <1>4 DEF Last

\* Some numbers have a least one, which stands for an induction: of the
\* counterexamples of a statement about numbers there would be a first.
LEMMA Least ==
  ASSUME NEW T, T \subseteq Nat, T # {}
  PROVE  \E m \in T : \A k \in T : m <= k
<1> DEFINE R0 == OpToRel(<, Nat)
<1>1. IsWellFoundedOn(R0, Nat)
  BY NatLessThanWellFounded
<1>2. \A a, b \in Nat : a < b => <<a, b>> \in R0
  BY DEF OpToRel
<1> HIDE DEF R0
<1>3. PICK m \in T : \A k \in T : ~(<<k, m>> \in R0)
  BY <1>1, WFMin
<1>4. \A k \in T : ~(k < m)
  BY <1>2, <1>3
<1> QED
  BY <1>3, <1>4

\* Of some windows one is drawn last.
LEMMA TopmostIn ==
  ASSUME list \in [Windows -> Windows], ToSet(list) = Windows,
         NEW S, S \subseteq Windows, S # {}
  PROVE  \E i \in Windows : /\ list[i] \in S /\ Topmost(S) = list[i]
                            /\ \A j \in Windows : list[j] \in S => j <= i
<1> DEFINE n == Len(Start)
           T == {k \in Nat : n - k \in Windows /\ list[n - k] \in S}
           top == CHOOSE i \in DOMAIN list :
                     list[i] \in S /\ \A j \in DOMAIN list : list[j] \in S => j <= i
<1>1. n \in Nat /\ Windows = 1 .. n /\ DOMAIN list = Windows
  BY WindowsRange
<1>2. PICK j \in Windows : list[j] \in S
  BY <1>1 DEF ToSet
<1>3. n - j \in T
  BY <1>1, <1>2
<1>4. PICK k \in T : \A m \in T : k <= m
  <2>1. T \subseteq Nat
    OBVIOUS
  <2> HIDE DEF T
  <2> QED
    BY <1>3, <2>1, Least
<1>5. \A i \in Windows : list[i] \in S => i <= n - k
  <2> SUFFICES ASSUME NEW i \in Windows, list[i] \in S PROVE i <= n - k
    OBVIOUS
  <2>1. n - i \in Nat /\ n - (n - i) = i
    BY <1>1
  <2>2. n - i \in T
    BY <2>1
  <2>3. k <= n - i
    <3> HIDE DEF T
    <3> QED
      BY <1>4, <2>2
  <2> QED
    BY <1>1, <2>1, <2>3
<1>6. n - k \in Windows /\ list[n - k] \in S
  BY <1>4
<1>7. top \in Windows /\ list[top] \in S /\ \A l \in Windows : list[l] \in S => l <= top
  BY <1>1, <1>5, <1>6
<1>8. Topmost(S) = list[top]
  BY DEF Topmost
<1> QED
  BY <1>7, <1>8

\* move_to_front keeps every window in the list, and puts w last.
LEMMA ToFrontOK ==
  ASSUME list \in [Windows -> Windows], ToSet(list) = Windows, NEW w \in Windows
  PROVE  /\ ToFront(w) \in [Windows -> Windows]
         /\ ToSet(ToFront(w)) = Windows
         /\ Last(ToFront(w)) = w
<1> DEFINE n == Len(Start)
           k == CHOOSE i \in DOMAIN list : list[i] = w
           f == [i \in DOMAIN list |-> IF i < k THEN list[i]
                                       ELSE IF i < n THEN list[i + 1] ELSE w]
<1>1. n \in Nat \ {0} /\ Windows = 1 .. n /\ DOMAIN list = Windows /\ Len(list) = n
  BY WindowsRange, OrderIsSeq
<1>2. k \in DOMAIN list /\ list[k] = w
  BY DEF ToSet
<1>3. ToFront(w) = f
  BY <1>1 DEF ToFront
<1> HIDE DEF k
<1>4. f \in [Windows -> Windows]
  BY <1>1, <1>2
<1>5. f[n] = w
  BY <1>1, <1>2
<1>6. ASSUME NEW v \in Windows PROVE \E i \in Windows : f[i] = v
  <2>1. PICK j \in Windows : list[j] = v
    BY <1>1 DEF ToSet
  <2>2. CASE j < k
    BY <1>1, <2>1, <2>2
  <2>3. CASE j = k
    BY <1>1, <1>2, <1>5, <2>1, <2>3
  <2>4. CASE j > k
    <3>1. j - 1 \in Windows /\ ~(j - 1 < k) /\ j - 1 < n /\ (j - 1) + 1 = j
      BY <1>1, <1>2, <2>4
    <3>2. f[j - 1] = list[j]
      BY <1>1, <3>1
    <3> QED
      BY <2>1, <3>1, <3>2
  <2> QED
    BY <1>1, <1>2, <2>2, <2>3, <2>4
<1>7. ToSet(f) = Windows
  <2>1. DOMAIN f = Windows /\ \A i \in Windows : f[i] \in Windows
    BY <1>1, <1>4
  <2> HIDE DEF f
  <2> QED
    BY <1>6, <2>1 DEF ToSet
<1>8. Last(f) = w
  BY <1>4, <1>5, OrderIsSeq
<1> QED
  BY <1>3, <1>4, <1>7, <1>8

-----------------------------------------------------------------------------
(* The inductive invariant *)

\* Reachable holds of a dropped window because DragOK keeps sizing_pt, the
\* place the window was taken at, on its title bar.
IInv == TypeOK /\ DragOK /\ Reachable

LEMMA ScreenInt ==
  /\ Width \in Nat /\ Height \in Nat /\ Screen \in Rect /\ Empty \in Rect
BY ScreenAssumption DEF Screen, Empty, R, Rect

LEMMA InitIInv == Init => IInv
<1> SUFFICES ASSUME Init PROVE IInv
  OBVIOUS
<1> USE DEF Init
<1>1. list \in [Windows -> Windows] /\ ToSet(list) = Windows
  BY DEF Windows, ToSet
<1>2. rect \in [Windows -> Rect] /\ focused \in Windows
  BY WindowsRange
<1>3. own \in [Windows -> Rect] /\ gi \in Rect /\ sizing \in [on : BOOLEAN, rect : Rect, x : Int, y : Int]
  BY ScreenInt
<1>4. mouse \in [x : 0 .. Width, y : 0 .. Height]
  BY ScreenInt
<1>5. capture \in Windows \union {Nobody} /\ moving \subseteq Windows /\ prev \subseteq Buttons
      /\ data \in {0, 1} /\ smeared \subseteq Pixels /\ box \in [x : Int, y : Int]
  BY FrameAssumption
<1>6. batch \in 0 .. MaxBatch
  BY MouseAssumption
<1>7. TypeOK
  BY <1>1, <1>2, <1>3, <1>4, <1>5, <1>6 DEF TypeOK
<1>8. DragOK
  BY DEF DragOK
<1>9. Reachable
  BY OnScreenAssumption DEF Reachable
<1> QED
  BY <1>7, <1>8, <1>9 DEF IInv

\* Drawing consumes damage and touches nothing the invariant speaks of.
LEMMA DrawAllIInv == IInv /\ DrawAll => IInv'
<1> SUFFICES ASSUME IInv, DrawAll PROVE IInv'
  OBVIOUS
<1> USE DEF IInv, DrawAll
<1>1. own' \in [Windows -> Rect] /\ gi' \in Rect
  BY ScreenInt
<1>2. smeared' \subseteq Pixels
  BY DEF SmearedAfter
<1>3. batch' \in 0 .. MaxBatch
  BY MouseAssumption
<1>4. TypeOK'
  BY <1>1, <1>2, <1>3 DEF TypeOK
<1>5. DragOK' /\ Reachable'
  BY DEF DragOK, Reachable
<1> QED
  BY <1>4, <1>5

LEMMA ClientType == Client \in Rect /\ Cell \in Rect
<1>1. Start[1] \in Rect
  BY WindowsRange
<1>2. Client \in Rect
  BY <1>1, FrameAssumption DEF Client, ClientRect, R, Rect, MaxI
<1> QED
  BY <1>2 DEF Cell, R, Rect

LEMMA SpotType == \A b \in [x : Int, y : Int] : Spot(b) \in Rect
BY ClientType, FrameAssumption DEF Spot, R, Rect

LEMMA ChangesType ==
  ASSUME rect \in [Windows -> Rect], data \in {0, 1}, own \in [Windows -> Rect],
         NEW all \in BOOLEAN, Changes(all)
  PROVE  own' \in [Windows -> Rect] /\ data' \in {0, 1}
<1>1. 1 \in Windows /\ rect[1] \in Rect /\ own[1] \in Rect
  BY WindowsRange
<1>2. Whole(1) \in Rect
  BY <1>1 DEF Whole, R, Rect
<1>3. RectUnion(own[1], Cell) \in Rect
  BY <1>1, ClientType, UnionType
<1>4. own' \in [Windows -> Rect]
  BY <1>2, <1>3 DEF Changes
<1>5. data' \in {0, 1}
  BY DEF Changes
<1> QED
  BY <1>4, <1>5

LEMMA MoveBoxType ==
  ASSUME NEW own0 \in [Windows -> Rect], NEW x \in Int, NEW y \in Int, MoveBox(own0, x, y)
  PROVE  own' \in [Windows -> Rect] /\ box' \in [x : Int, y : Int]
<1>1. own0[1] \in Rect
  BY WindowsRange
<1>2. box' \in [x : Int, y : Int]
  BY ClientType DEF MoveBox, Rect
<1>3. RectUnion(own0[1], Spot(box')) \in Rect
  BY <1>1, <1>2, SpotType, UnionType
<1>4. own' \in [Windows -> Rect]
  BY <1>3 DEF MoveBox
<1> QED
  BY <1>2, <1>4

\* A key changes what the tty window shows, no window and no drag.
LEMMA KeyboardIInv ==
  ASSUME IInv, NEW all \in BOOLEAN, GuiOnKeyboard(all)
  PROVE  IInv'
<1> USE DEF IInv, GuiOnKeyboard
<1>1. own' \in [Windows -> Rect] /\ data' \in {0, 1}
  BY ChangesType DEF TypeOK
<1>2. batch' \in 0 .. MaxBatch
  BY MouseAssumption DEF TypeOK
<1>3. TypeOK'
  BY <1>1, <1>2 DEF TypeOK
<1>4. DragOK' /\ Reachable'
  BY DEF DragOK, Reachable
<1> QED
  BY <1>3, <1>4

-----------------------------------------------------------------------------
(* A mouse message *)

LEMMA TargetIn ==
  ASSUME TypeOK, DragOK, NEW x \in Int, NEW y \in Int
  PROVE  /\ Target(x, y) \in Windows \union {Nobody}
         /\ Target(x, y) \in moving <=> capture # Nobody
         /\ capture # Nobody => Target(x, y) = capture
<1> DEFINE S == {w \in Windows : RectContains(rect[w], x, y)}
<1>1. CASE capture # Nobody
  BY <1>1 DEF Target, TypeOK, DragOK
<1>2. CASE capture = Nobody
  <2>1. moving = {}
    BY <1>2 DEF DragOK
  <2>2. CASE S = {}
    BY <1>2, <2>1, <2>2 DEF Target
  <2>3. CASE S # {}
    <3>1. Topmost(S) \in S
      BY <2>3, TopmostIn DEF TypeOK
    <3>2. Target(x, y) = Topmost(S)
      BY <1>2, <2>3 DEF Target
    <3> QED
      BY <1>2, <2>1, <3>1, <3>2
  <2> QED
    BY <2>2, <2>3
<1> QED
  BY <1>1, <1>2

\* A press that begins no drag may bring a window to the front, a press on a
\* title bar takes that window, which is then in front.
LEMMA PressStep ==
  ASSUME IInv, capture = Nobody,
         NEW x \in 0 .. Width, NEW y \in 0 .. Height, NEW held \in SUBSET Buttons,
         NEW inv \in Rect, NEW t \in Windows \union {Nobody},
         mouse' = [x |-> x, y |-> y], prev' = held,
         Press(t, x, y, held \ prev, inv)
  PROVE  /\ list' \in [Windows -> Windows] /\ ToSet(list') = Windows
         /\ focused' \in Windows /\ rect' = rect /\ moving' \subseteq Windows
         /\ capture' \in Windows \union {Nobody} /\ gi' \in Rect
         /\ sizing' \in [on : BOOLEAN, rect : Rect, x : Int, y : Int]
         /\ DragOK'
<1> DEFINE down == held \ prev
           w == IF t = Nobody \/ down = {} THEN Nobody ELSE t
           drag == /\ w # Nobody /\ "left" \in down
                   /\ ~RectContains(ClientRect(rect[t]), x - rect[t].x, y - rect[t].y)
                   /\ OnTitle(rect[t], x, y)
<1> USE DEF IInv
<1>1. rect' = rect
  BY DEF Press
<1>2. IF w = Nobody THEN focused' = focused /\ list' = list
                    ELSE focused' = w /\ list' = ToFront(w)
  BY DEF Press
<1>3. /\ drag => /\ moving' = moving \union {w} /\ capture' = w
                 /\ sizing' = [on |-> TRUE, rect |-> rect[w], x |-> x, y |-> y]
                 /\ gi' = RectUnion(inv, rect[w])
      /\ ~drag => /\ moving' = moving /\ capture' = capture /\ sizing' = sizing
                  /\ gi' = inv
  BY DEF Press
<1>4. w = Nobody \/ (w \in Windows /\ w = t)
  OBVIOUS
<1>5. drag => w \in Windows /\ w = t /\ "left" \in held /\ OnTitle(rect[w], x, y)
  OBVIOUS
<1>6. moving = {} /\ ~sizing.on
  BY DEF DragOK, TypeOK
<1> HIDE DEF drag, w
<1>7. list' \in [Windows -> Windows] /\ ToSet(list') = Windows /\ focused' \in Windows
  BY <1>2, <1>4, ToFrontOK DEF TypeOK
<1>8. CASE drag
  <2>1. w \in Windows /\ rect[w] \in Rect /\ w # Nobody
    BY <1>5, <1>8, WindowsRange DEF TypeOK
  <2>2. capture' = Last(list') /\ focused' = capture'
    BY <1>2, <1>3, <1>8, <2>1, ToFrontOK DEF TypeOK
  <2>3. x \in Int /\ y \in Int
    BY ScreenInt
  <2>4. sizing' \in [on : BOOLEAN, rect : Rect, x : Int, y : Int]
    <3>1. [on |-> TRUE, rect |-> rect[w], x |-> x, y |-> y]
            \in [on : BOOLEAN, rect : Rect, x : Int, y : Int]
      BY <2>1, <2>3
    <3> QED
      BY <1>3, <1>8, <3>1
  <2>5. sizing'.on /\ sizing'.x = x /\ sizing'.y = y /\ sizing'.rect = rect[w]
    BY <1>3, <1>8
  <2>6. [rect'[capture'] EXCEPT !.x = @ + mouse'.x - sizing'.x,
                                !.y = @ + mouse'.y - sizing'.y] = rect[w]
    <3>1. rect[w].x + x - x = rect[w].x /\ rect[w].y + y - y = rect[w].y
      BY <2>1, <2>3 DEF Rect
    <3>2. rect'[capture'] = rect[w] /\ mouse'.x = x /\ mouse'.y = y
      BY <1>1, <1>3, <1>8
    <3> QED
      BY <2>1, <2>5, <3>1, <3>2 DEF Rect
  <2>7. moving' = {capture'} \ {Nobody}
    BY <1>3, <1>6, <1>8, <2>1
  <2>9. OnTitle(rect'[capture'], x, y)
    BY <1>1, <1>3, <1>5, <1>8
  <2>10. DragOK'
    BY <1>3, <1>5, <1>8, <2>1, <2>2, <2>5, <2>6, <2>7, <2>9 DEF DragOK, OnTitle, TitleRect
  <2>11. gi' \in Rect
    BY <1>3, <1>8, <2>1, UnionType
  <2> QED
    BY <1>1, <1>3, <1>6, <1>7, <1>8, <2>1, <2>4, <2>10, <2>11
<1>9. CASE ~drag
  <2>1. DragOK'
    BY <1>3, <1>6, <1>9 DEF DragOK
  <2> QED
    BY <1>1, <1>3, <1>6, <1>7, <1>9, <2>1 DEF TypeOK
<1> QED
  BY <1>8, <1>9

\* Moving a rectangle and the pointer by the same amount keeps the pointer's
\* place on the title bar.
LEMMA TitleMoves ==
  ASSUME NEW r \in Rect, NEW x \in Int, NEW y \in Int, NEW sx \in Int, NEW sy \in Int,
         OnTitle(r, sx, sy)
  PROVE  LET to == [r EXCEPT !.x = @ + x - sx, !.y = @ + y - sy]
         IN to \in Rect /\ OnTitle(to, x, y)
<1> DEFINE to == [r EXCEPT !.x = @ + x - sx, !.y = @ + y - sy]
<1>1. /\ to \in Rect /\ to.x = r.x + x - sx /\ to.y = r.y + y - sy
      /\ to.w = r.w /\ to.h = r.h
  <2> DEFINE a == r.x + x - sx
             b == r.y + y - sy
  <2>1. a \in Int /\ b \in Int
    BY DEF Rect
  <2>2. to = [r EXCEPT !.x = a, !.y = b]
    BY DEF Rect
  <2> HIDE DEF to, a, b
  <2>3. to \in Rect /\ to.x = a /\ to.y = b /\ to.w = r.w /\ to.h = r.h
    BY <2>1, <2>2 DEF Rect
  <2> QED
    BY <2>3 DEF a, b
<1>2. TitleRect(to) = TitleRect(r)
  BY <1>1 DEF TitleRect
<1> HIDE DEF to
<1>3. r.x \in Int /\ r.y \in Int
  BY DEF Rect
<1>4. x - to.x = sx - r.x /\ y - to.y = sy - r.y
  BY <1>1, <1>3
<1>5. OnTitle(to, x, y)
  BY <1>2, <1>4 DEF OnTitle
<1> QED
  BY <1>1, <1>5 DEF to

\* The outline follows the pointer while the button is held; where it is let
\* go the window is put, with the pointer on its title bar.
LEMMA DragStep ==
  ASSUME IInv, capture # Nobody,
         NEW x \in 0 .. Width, NEW y \in 0 .. Height, NEW held \in SUBSET Buttons,
         NEW inv \in Rect,
         mouse' = [x |-> x, y |-> y], prev' = held,
         Drag(capture, x, y, prev \ held, inv)
  PROVE  /\ list' = list /\ focused' = focused /\ rect' \in [Windows -> Rect]
         /\ moving' \subseteq Windows
         /\ capture' \in Windows \union {Nobody} /\ gi' \in Rect
         /\ sizing' \in [on : BOOLEAN, rect : Rect, x : Int, y : Int]
         /\ DragOK' /\ Reachable'
<1> DEFINE r == rect[capture]
           to == [r EXCEPT !.x = @ + x - sizing.x, !.y = @ + y - sizing.y]
<1> USE DEF IInv
<1>1. capture \in Windows /\ r \in Rect /\ x \in Int /\ y \in Int
      /\ sizing.x \in Int /\ sizing.y \in Int /\ sizing.rect \in Rect
  BY ScreenInt DEF TypeOK
<1>2. sizing.on /\ "left" \in prev /\ moving = {capture} /\ OnTitle(r, sizing.x, sizing.y)
  BY DEF DragOK
<1>3. to \in Rect /\ OnTitle(to, x, y)
  BY <1>1, <1>2, TitleMoves
<1>4. list' = list /\ focused' = focused
  BY DEF Drag
<1> HIDE DEF r
<1>5. CASE "left" \in prev \ held
  <2>1. /\ rect' = [rect EXCEPT ![capture] = to] /\ moving' = {} /\ capture' = Nobody
        /\ sizing' = [sizing EXCEPT !.on = FALSE, !.rect = to]
        /\ gi' = RectUnion(inv, RectUnion(Outline(to), r))
    BY <1>2, <1>5 DEF Drag, r
  <2> HIDE DEF to
  <2>2. rect' \in [Windows -> Rect] /\ sizing' \in [on : BOOLEAN, rect : Rect, x : Int, y : Int]
    BY <1>1, <1>3, <2>1 DEF TypeOK
  <2>3. gi' \in Rect
    <3>1. RectUnion(Outline(to), r) \in Rect
      BY <1>1, <1>3, UnionType DEF Outline
    <3> QED
      BY <2>1, <3>1, UnionType
  <2>4. sizing'.on = FALSE
    BY <2>1, <1>1 DEF TypeOK
  <2>5. DragOK'
    BY <2>1, <2>4 DEF DragOK
  <2>6. HasHandle(to)
    BY <1>3 DEF HasHandle
  <2>7. Reachable'
    <3> SUFFICES ASSUME NEW v \in Windows PROVE HasHandle(rect'[v])
      BY DEF Reachable, HasHandle, OnTitle
    <3>1. rect'[v] = IF v = capture THEN to ELSE rect[v]
      BY <1>1, <2>1 DEF TypeOK
    <3> QED
      BY <2>6, <3>1 DEF Reachable
  <2> QED
    BY <1>4, <2>1, <2>2, <2>3, <2>5, <2>7
<1>6. CASE ~("left" \in prev \ held)
  <2>1. /\ rect' = rect /\ moving' = moving /\ capture' = capture
        /\ sizing' = [sizing EXCEPT !.rect = to] /\ gi' = RectUnion(inv, Outline(to))
    BY <1>6 DEF Drag, r
  <2>2. sizing' \in [on : BOOLEAN, rect : Rect, x : Int, y : Int] /\ sizing'.on
        /\ sizing'.x = sizing.x /\ sizing'.y = sizing.y /\ sizing'.rect = to
    <3> HIDE DEF to
    <3> QED
      BY <1>1, <1>2, <1>3, <2>1 DEF TypeOK
  <2>3. gi' \in Rect
    <3> HIDE DEF to
    <3> QED
      BY <1>1, <1>3, <2>1, UnionType DEF Outline
  <2>4. "left" \in prev'
    BY <1>2, <1>6
  <2>5. sizing'.rect = [rect'[capture'] EXCEPT !.x = @ + mouse'.x - sizing'.x,
                                               !.y = @ + mouse'.y - sizing'.y]
    BY <2>1, <2>2 DEF r
  <2>6. DragOK'
    BY <1>4, <2>1, <2>2, <2>4, <2>5 DEF DragOK, OnTitle
  <2>7. Reachable'
    BY <2>1 DEF Reachable
  <2> QED
    BY <1>1, <1>4, <2>1, <2>2, <2>3, <2>6, <2>7 DEF TypeOK
<1> QED
  BY <1>5, <1>6

\* A message of the mouse, wherever the pointer came to be.
LEMMA SendmsgMouseIInv ==
  ASSUME IInv,
         NEW x \in 0 .. Width, NEW y \in 0 .. Height, NEW held \in SUBSET Buttons,
         NEW inv \in Rect,
         mouse' = [x |-> x, y |-> y], prev' = held, batch' \in 0 .. MaxBatch,
         UNCHANGED <<data, smeared>>,
         SendmsgMouse(x, y, held, inv)
  PROVE  IInv'
<1> DEFINE t == Target(x, y)
           down == held \ prev
           raised == IF t \notin moving /\ t # Nobody /\ down # {}
                     THEN [own EXCEPT ![t] = Whole(t)] ELSE own
           click == /\ t = 1 /\ t \notin moving /\ "left" \in held
                    /\ RectContains(ClientRect(rect[t]), x - rect[t].x, y - rect[t].y)
<1> USE DEF IInv
<1>1. x \in Int /\ y \in Int
  BY ScreenInt
<1>2. t \in Windows \union {Nobody} /\ (t \in moving <=> capture # Nobody)
      /\ (capture # Nobody => t = capture)
  BY <1>1, TargetIn
<1>3. /\ IF t \in moving THEN Drag(t, x, y, prev \ held, inv) ELSE Press(t, x, y, down, inv)
      /\ IF click THEN MoveBox(raised, x - rect[1].x, y - rect[1].y)
                  ELSE own' = raised /\ UNCHANGED box
  BY DEF SendmsgMouse
<1> HIDE DEF t, click
<1>4. /\ list' \in [Windows -> Windows] /\ ToSet(list') = Windows
      /\ focused' \in Windows /\ rect' \in [Windows -> Rect] /\ moving' \subseteq Windows
      /\ capture' \in Windows \union {Nobody} /\ gi' \in Rect
      /\ sizing' \in [on : BOOLEAN, rect : Rect, x : Int, y : Int]
      /\ DragOK' /\ Reachable'
  <2>1. CASE capture # Nobody
    <3>1. Drag(capture, x, y, prev \ held, inv)
      BY <1>2, <1>3, <2>1
    <3> QED
      BY <2>1, <3>1, DragStep DEF TypeOK
  <2>2. CASE capture = Nobody
    <3>1. Press(t, x, y, held \ prev, inv)
      BY <1>2, <1>3, <2>2
    <3>2. Reachable'
      BY <1>2, <2>2, <3>1, PressStep DEF Reachable
    <3> QED
      BY <1>2, <2>2, <3>1, <3>2, PressStep DEF TypeOK
  <2> QED
    BY <2>1, <2>2
<1>5. raised \in [Windows -> Rect]
  <2>1. CASE t = Nobody
    BY <2>1 DEF TypeOK
  <2>2. CASE t # Nobody
    <3>1. t \in Windows /\ rect[t] \in Rect
      BY <1>2, <2>2 DEF TypeOK
    <3>2. Whole(t) \in Rect
      BY <3>1 DEF Whole, R, Rect
    <3> QED
      BY <3>1, <3>2 DEF TypeOK
  <2> QED
    BY <2>1, <2>2
<1> HIDE DEF raised
<1>6. own' \in [Windows -> Rect] /\ box' \in [x : Int, y : Int]
  <2>1. CASE click
    <3>1. x - rect[1].x \in Int /\ y - rect[1].y \in Int
      <4>1. rect[1] \in Rect
        BY WindowsRange DEF TypeOK
      <4> QED
        BY <1>1, <4>1 DEF Rect
    <3> QED
      BY <1>3, <1>5, <2>1, <3>1, MoveBoxType
  <2>2. CASE ~click
    BY <1>3, <1>5, <2>2 DEF TypeOK
  <2> QED
    BY <2>1, <2>2
<1>7. mouse' \in [x : 0 .. Width, y : 0 .. Height] /\ prev' \subseteq Buttons
  OBVIOUS
<1>8. TypeOK'
  BY <1>4, <1>6, <1>7 DEF TypeOK
<1> QED
  BY <1>4, <1>8

LEMMA ClampRange == \A v \in Int, len \in Nat : Clamp(v, len) \in 0 .. len
BY DEF Clamp

LEMMA GuiOnMouseIInv ==
  ASSUME IInv, NEW d \in Moves, GuiOnMouse(d)
  PROVE  IInv'
<1> DEFINE x == Clamp(mouse.x + d[1], Width)
           y == Clamp(mouse.y + d[2], Height)
           inv == RectUnion(gi, RectUnion(Pointer, R(x, y, Mouse, Mouse)))
<1> USE DEF IInv
<1>1. d[1] \in Int /\ d[2] \in Int /\ mouse.x \in Int /\ mouse.y \in Int
  BY MouseAssumption, ScreenInt DEF TypeOK
<1>2. x \in 0 .. Width /\ y \in 0 .. Height
  <2>1. mouse.x + d[1] \in Int /\ mouse.y + d[2] \in Int
    BY <1>1
  <2> QED
    BY <2>1, ScreenInt, ClampRange
<1>3. batch' \in 0 .. MaxBatch /\ smeared' = smeared /\ data' = data
  BY MouseAssumption DEF GuiOnMouse, TypeOK
<1>4. MouseMove(x, y)
  BY DEF GuiOnMouse
<1> HIDE DEF x, y
<1>5. inv \in Rect
  <2>1. Pointer \in Rect /\ R(x, y, Mouse, Mouse) \in Rect
    BY <1>1, <1>2, ScreenInt, FrameAssumption DEF Pointer, R, Rect
  <2>2. RectUnion(Pointer, R(x, y, Mouse, Mouse)) \in Rect
    BY <2>1, UnionType
  <2> QED
    BY <2>2, UnionType DEF TypeOK
<1>6. PICK held \in SUBSET Buttons :
        mouse' = [x |-> x, y |-> y] /\ prev' = held /\ SendmsgMouse(x, y, held, inv)
  BY <1>4 DEF MouseMove
<1> QED
  BY <1>2, <1>3, <1>5, <1>6, SendmsgMouseIInv

\* The window manager keeps IInv, whatever the mouse and the keyboard send.
THEOREM Inductive == Spec => []IInv
<1>1. Init => IInv
  BY InitIInv
<1>2. IInv /\ [Next]_vars => IInv'
  <2> SUFFICES ASSUME IInv, [Next]_vars PROVE IInv'
    OBVIOUS
  <2>1. CASE DrawAll
    BY <2>1, DrawAllIInv
  <2>2. CASE \E d \in Moves : GuiOnMouse(d)
    BY <2>2, GuiOnMouseIInv
  <2>3. CASE \E all \in BOOLEAN : GuiOnKeyboard(all)
    BY <2>3, KeyboardIInv
  <2>4. CASE UNCHANGED vars
    BY <2>4 DEF vars, IInv, TypeOK, DragOK, Reachable
  <2> QED
    BY <2>1, <2>2, <2>3, <2>4 DEF Next
<1> QED
  BY <1>1, <1>2, PTL DEF Spec

\* A drag has one window, one outline and a held button, and the pointer
\* stays at the place of the title bar it was taken at (on_nc_mouse,
\* on_moving, mouse_capturing).
THEOREM DragSafe == Spec => []DragOK
<1>1. IInv => DragOK
  BY DEF IInv
<1> QED
  BY <1>1, Inductive, PTL

\* However windows are dragged, over whatever edge, none is lost: the pointer
\* can get at the title bar of each (gui_mouse_move's clamping, on_moving).
THEOREM NoWindowLost == Spec => []Reachable
<1>1. IInv => Reachable
  BY DEF IInv
<1> QED
  BY <1>1, Inductive, PTL
-----------------------------------------------------------------------------
(* What gui_draw_all paints *)

\* Drawing the screen over r reaches the pixels of r.
LEMMA PaintedScreen ==
  ASSUME NEW r \in Rect, NEW p \in Pixels
  PROVE  p \in Painted(Screen, r) <=> RectContains(r, p[1], p[2])
<1>1. p[1] \in Int /\ p[2] \in Int /\ p = <<p[1], p[2]>>
      /\ 0 <= p[1] /\ p[1] < Width /\ 0 <= p[2] /\ p[2] < Height
  BY ScreenInt DEF Pixels
<1>2. /\ Screen.x = 0 /\ Screen.y = 0 /\ Screen.w = Width /\ Screen.h = Height
      /\ Screen \in Rect
  BY ScreenInt DEF Screen, R
<1>3. p[1] - Screen.x = p[1] /\ p[2] - Screen.y = p[2]
      /\ p[1] + Screen.x = p[1] /\ p[2] + Screen.y = p[2]
  BY <1>1, <1>2
<1>4. RectContains(R(0, 0, Screen.w, Screen.h), p[1], p[2])
  <2>1. R(0, 0, Screen.w, Screen.h) = R(0, 0, Width, Height)
    BY <1>2
  <2>2. RectContains(R(0, 0, Width, Height), p[1], p[2])
    BY <1>1, ScreenInt DEF RectContains, R
  <2> QED
    BY <2>1, <2>2
<1>5. RectContains(Clipping(Screen, r), p[1], p[2]) <=> RectContains(r, p[1], p[2])
  BY <1>1, <1>2, <1>3, <1>4, ClippingExact
<1> QED
  BY <1>3, <1>5 DEF Painted

\* Drawing a window over r reaches the pixels of r that are in the window.
LEMMA PaintedOn ==
  ASSUME NEW off \in Rect, NEW r \in Rect, NEW p \in Pixels
  PROVE  p \in Painted(off, r) <=> /\ RectContains(r, p[1] - off.x, p[2] - off.y)
                                   /\ RectContains(off, p[1], p[2])
<1> DEFINE x == p[1] - off.x
           y == p[2] - off.y
<1>1. p[1] \in Int /\ p[2] \in Int /\ p = <<p[1], p[2]>>
      /\ off.x \in Int /\ off.y \in Int /\ off.w \in Int /\ off.h \in Int
  BY ScreenInt DEF Pixels, Rect
<1>2. x \in Int /\ y \in Int /\ x + off.x = p[1] /\ y + off.y = p[2]
  BY <1>1
<1>3. RectContains(R(0, 0, off.w, off.h), x, y) <=> RectContains(off, p[1], p[2])
  BY <1>1 DEF RectContains, R
<1> HIDE DEF x, y
<1>4. RectContains(Clipping(off, r), x, y) <=> RectContains(r, x, y) /\ RectContains(off, p[1], p[2])
  BY <1>1, <1>2, <1>3, ClippingExact
<1> QED
  BY <1>4 DEF Painted, x, y

\* The function by which Union runs over the list exists.
LEMMA UnionsExist ==
  ASSUME NEW n \in Nat, NEW g, NEW inv \in Rect, \A i \in 1 .. n : g[i] \in Rect
  PROVE  \E u \in [0 .. n -> Rect] :
            \A i \in 0 .. n : u[i] = IF i = 0 THEN inv ELSE RectUnion(u[i - 1], g[i])
<1> DEFINE Is(u, m) == \A i \in 0 .. m : u[i] = IF i = 0 THEN inv ELSE RectUnion(u[i - 1], g[i])
           Has(m) == \E u \in [0 .. m -> Rect] : Is(u, m)
           T == {m \in 0 .. n : ~Has(m)}
<1>1. CASE T = {}
  <2>1. n \in 0 .. n
    OBVIOUS
  <2> HIDE DEF Has
  <2>2. Has(n)
    BY <1>1, <2>1
  <2> QED
    BY <2>2 DEF Has
<1>2. CASE T # {}
  <2>1. T \subseteq Nat
    OBVIOUS
  <2> HIDE DEF T
  <2>2. PICK m \in T : \A k \in T : m <= k
    BY <1>2, <2>1, Least
  <2>3. m \in 0 .. n /\ ~Has(m)
    BY DEF T
  <2> HIDE DEF Has
  <2>4. CASE m = 0
    <3> DEFINE u == [i \in 0 .. 0 |-> inv]
    <3>1. Is(u, 0) /\ u \in [0 .. 0 -> Rect]
      OBVIOUS
    <3> QED
      BY <2>3, <2>4, <3>1 DEF Has
  <2>5. CASE m # 0
    <3>1. m - 1 \in 0 .. n /\ m - 1 \notin T /\ m \in 1 .. n
      BY <2>2, <2>3, <2>5
    <3>2. Has(m - 1)
      BY <3>1 DEF T
    <3>3. PICK v \in [0 .. m - 1 -> Rect] : Is(v, m - 1)
      BY <3>2 DEF Has
    <3> DEFINE u == [i \in 0 .. m |-> IF i = m THEN RectUnion(v[m - 1], g[m]) ELSE v[i]]
    <3>4. Is(u, m)
      <4> SUFFICES ASSUME NEW i \in 0 .. m
                   PROVE  u[i] = IF i = 0 THEN inv ELSE RectUnion(u[i - 1], g[i])
        OBVIOUS
      <4>1. CASE i = m
        <5>1. i - 1 \in 0 .. m /\ i - 1 # m
          BY <2>3, <2>5, <4>1
        <5>2. u[i - 1] = v[i - 1]
          BY <5>1
        <5> QED
          BY <2>5, <4>1, <5>2
      <4>2. CASE i # m
        <5>1. i \in 0 .. m - 1
          BY <2>3, <4>2
        <5>2. v[i] = IF i = 0 THEN inv ELSE RectUnion(v[i - 1], g[i])
          BY <3>3, <5>1
        <5>3. i # 0 => i - 1 \in 0 .. m /\ i - 1 # m
          BY <2>3, <5>1
        <5> QED
          BY <4>2, <5>2, <5>3
      <4> QED
        BY <4>1, <4>2
    <3>5. u \in [0 .. m -> Rect]
      <4>1. v[m - 1] \in Rect /\ g[m] \in Rect
        BY <3>1
      <4>2. RectUnion(v[m - 1], g[m]) \in Rect
        BY <4>1, UnionType
      <4>3. \A i \in 0 .. m : i # m => i \in 0 .. m - 1
        BY <3>1
      <4> QED
        BY <4>2, <4>3
    <3> HIDE DEF u
    <3> QED
      BY <2>3, <3>4, <3>5 DEF Has
  <2> QED
    BY <2>4, <2>5
<1> QED
  BY <1>1, <1>2

\* The loop over draw_list gathers every rectangle.
LEMMA UnionsCover ==
  ASSUME NEW n \in Nat, NEW g, NEW inv \in Rect, \A i \in 1 .. n : g[i] \in Rect,
         NEW u, \A i \in 0 .. n : u[i] = IF i = 0 THEN inv ELSE RectUnion(u[i - 1], g[i]),
         NEW x \in Int, NEW y \in Int
  PROVE  /\ u[n] \in Rect
         /\ RectContains(inv, x, y) => RectContains(u[n], x, y)
         /\ \A i \in 1 .. n : RectContains(g[i], x, y) => RectContains(u[n], x, y)
<1> DEFINE Ok(m) == /\ u[m] \in Rect
                    /\ RectContains(inv, x, y) => RectContains(u[m], x, y)
                    /\ \A i \in 1 .. m : RectContains(g[i], x, y) => RectContains(u[m], x, y)
           T == {m \in 0 .. n : ~Ok(m)}
<1>0. u[0] = inv /\ \A m \in 1 .. n : u[m] = RectUnion(u[m - 1], g[m])
  OBVIOUS
<1>1. CASE T = {}
  <2>1. n \in 0 .. n
    OBVIOUS
  <2> HIDE DEF Ok
  <2>2. Ok(n)
    BY <1>1, <2>1
  <2> QED
    BY <2>2 DEF Ok
<1>2. CASE T # {}
  <2>1. T \subseteq Nat
    OBVIOUS
  <2> HIDE DEF T
  <2>2. PICK m \in T : \A k \in T : m <= k
    BY <1>2, <2>1, Least
  <2>3. m \in 0 .. n /\ ~Ok(m)
    BY DEF T
  <2>4. CASE m = 0
    BY <1>0, <2>3, <2>4
  <2>5. CASE m # 0
    <3>1. m - 1 \in 0 .. n /\ m - 1 \notin T /\ m \in 1 .. n
      BY <2>2, <2>3, <2>5
    <3>2. Ok(m - 1)
      BY <3>1 DEF T
    <3>3. u[m] = RectUnion(u[m - 1], g[m]) /\ g[m] \in Rect /\ u[m - 1] \in Rect
      BY <1>0, <3>1, <3>2
    <3>4. u[m] \in Rect
      BY <3>3, UnionType
    <3>5. RectContains(u[m - 1], x, y) \/ RectContains(g[m], x, y) => RectContains(u[m], x, y)
      BY <3>3, UnionCovers
    <3>6. \A i \in 1 .. m : i = m \/ i \in 1 .. m - 1
      BY <3>1
    <3> QED
      BY <2>3, <3>2, <3>4, <3>5, <3>6
  <2> QED
    BY <2>4, <2>5
<1> QED
  BY <1>1, <1>2

LEMMA DamageType ==
  ASSUME TypeOK, NEW w \in Windows
  PROVE  Damage(w) \in Rect /\ ToScreen(w, Damage(w)) \in Rect
<1> DEFINE s == RectIntersect(rect[w], gi)
<1>1. s \in Rect /\ rect[w] \in Rect /\ own[w] \in Rect
  BY IntersectType DEF TypeOK
<1>2. R(s.x - rect[w].x, s.y - rect[w].y, s.w, s.h) \in Rect
  BY <1>1 DEF Rect, R
<1>3. Damage(w) \in Rect
  BY <1>1, <1>2, UnionType DEF Damage
<1> QED
  BY <1>1, <1>3 DEF ToScreen, Rect, R

\* What gui_draw_all copies to the frame buffer holds what it has painted.
LEMMA UnionOfAll ==
  ASSUME TypeOK, NEW x \in Int, NEW y \in Int
  PROVE  /\ Union(gi) \in Rect
         /\ RectContains(gi, x, y) => RectContains(Union(gi), x, y)
         /\ \A w \in Windows : RectContains(ToScreen(w, Damage(w)), x, y)
                                 => RectContains(Union(gi), x, y)
<1> DEFINE n == Len(list)
           G(i) == ToScreen(list[i], Damage(list[i]))
           g == [i \in 1 .. n |-> G(i)]
           u == CHOOSE u : u = [i \in 0 .. n |-> IF i = 0 THEN gi ELSE RectUnion(u[i - 1], G(i))]
<1>1. n \in Nat /\ Windows = 1 .. n /\ gi \in Rect
  BY WindowsRange, OrderIsSeq DEF TypeOK
<1>2. Union(gi) = u[n]
  BY DEF Union
<1>3. \A i \in 1 .. n : list[i] \in Windows /\ G(i) \in Rect
  BY <1>1, DamageType DEF TypeOK
<1>4. \A w \in Windows : \E i \in 1 .. n : list[i] = w
  BY <1>1 DEF TypeOK, ToSet
<1> HIDE DEF n
<1>5. \A i \in 1 .. n : g[i] = G(i)
  OBVIOUS
<1> HIDE DEF G, g
<1>6. PICK v \in [0 .. n -> Rect] :
        \A i \in 0 .. n : v[i] = IF i = 0 THEN gi ELSE RectUnion(v[i - 1], g[i])
  <2>1. \A i \in 1 .. n : g[i] \in Rect
    BY <1>3, <1>5
  <2> DEFINE inv == gi
  <2>2. inv \in Rect /\ n \in Nat
    BY <1>1
  <2> HIDE DEF inv
  <2>3. \E q \in [0 .. n -> Rect] :
            \A i \in 0 .. n : q[i] = IF i = 0 THEN inv ELSE RectUnion(q[i - 1], g[i])
    BY <2>1, <2>2, UnionsExist
  <2> QED
    BY <2>3 DEF inv
<1>7. \A i \in 0 .. n : v[i] = IF i = 0 THEN gi ELSE RectUnion(v[i - 1], G(i))
  <2> SUFFICES ASSUME NEW i \in 0 .. n, i # 0 PROVE RectUnion(v[i - 1], g[i]) = RectUnion(v[i - 1], G(i))
    BY <1>6
  <2>1. i \in 1 .. n
    BY <1>1
  <2> QED
    BY <1>5, <2>1
<1>8. v = [i \in 0 .. n |-> IF i = 0 THEN gi ELSE RectUnion(v[i - 1], G(i))]
  BY <1>6, <1>7
<1>9. u = [i \in 0 .. n |-> IF i = 0 THEN gi ELSE RectUnion(u[i - 1], G(i))]
  BY <1>8
<1> HIDE DEF u
<1>10. /\ u[n] \in Rect
       /\ RectContains(gi, x, y) => RectContains(u[n], x, y)
       /\ \A i \in 1 .. n : RectContains(g[i], x, y) => RectContains(u[n], x, y)
  <2>1. \A i \in 1 .. n : g[i] \in Rect
    BY <1>3, <1>5
  <2>2. \A i \in 0 .. n : u[i] = IF i = 0 THEN gi ELSE RectUnion(u[i - 1], g[i])
    BY <1>1, <1>5, <1>9
  <2> QED
    BY <1>1, <2>1, <2>2, UnionsCover
<1>11. ASSUME NEW w \in Windows, RectContains(ToScreen(w, Damage(w)), x, y)
       PROVE  RectContains(u[n], x, y)
  <2>1. PICK i \in 1 .. n : list[i] = w
    BY <1>4
  <2>2. g[i] = ToScreen(w, Damage(w))
    BY <1>5, <2>1 DEF G
  <2> QED
    BY <1>10, <1>11, <2>2
<1> QED
  BY <1>2, <1>10, <1>11

\* All of a window is what it covers, in its own coordinates.
LEMMA WholeCovers ==
  ASSUME TypeOK, NEW w \in Windows, NEW x \in Int, NEW y \in Int
  PROVE  /\ Whole(w) \in Rect
         /\ RectContains(Whole(w), x - rect[w].x, y - rect[w].y) <=> RectContains(rect[w], x, y)
<1>1. rect[w] \in Rect
  BY DEF TypeOK
<1>2. /\ rect[w].x \in Int /\ rect[w].y \in Int /\ rect[w].w \in Int /\ rect[w].h \in Int
  BY <1>1 DEF Rect
<1>3. /\ Whole(w).x = 0 /\ Whole(w).y = 0 /\ Whole(w).w = rect[w].w /\ Whole(w).h = rect[w].h
      /\ Whole(w) \in Rect
  BY <1>2 DEF Whole, R, Rect
<1> QED
  BY <1>2, <1>3 DEF RectContains

LEMMA PixelInt == \A p \in Pixels : p[1] \in Int /\ p[2] \in Int
BY ScreenInt DEF Pixels

\* A window is painted where its own damage is, and where the damage of the
\* screen is; one without damage of its own is painted nowhere else.
LEMMA PaintedByDamage ==
  ASSUME TypeOK, NEW w \in Windows, NEW p \in Pixels
  PROVE  /\ p \in Painted(rect[w], own[w]) => p \in Painted(rect[w], Damage(w))
         /\ Covers(w, p) /\ RectContains(gi, p[1], p[2]) => p \in Painted(rect[w], Damage(w))
         /\ p \in Painted(rect[w], Damage(w))
              => Covers(w, p) /\ RectContains(ToScreen(w, Damage(w)), p[1], p[2])
         /\ p \in Painted(rect[w], Damage(w)) /\ own[w] = Empty => RectContains(gi, p[1], p[2])
<1> DEFINE s == RectIntersect(rect[w], gi)
           d == R(s.x - rect[w].x, s.y - rect[w].y, s.w, s.h)
           x == p[1] - rect[w].x
           y == p[2] - rect[w].y
<1>1. p[1] \in Int /\ p[2] \in Int
  BY PixelInt
<1>2. s \in Rect /\ rect[w] \in Rect /\ own[w] \in Rect /\ gi \in Rect
  BY IntersectType DEF TypeOK
<1>3. RectContains(s, p[1], p[2]) <=> Covers(w, p) /\ RectContains(gi, p[1], p[2])
  BY <1>1, <1>2, IntersectExact DEF Covers
<1>4. d \in Rect
  BY <1>2 DEF Rect, R
<1>5. Damage(w) = RectUnion(own[w], d) /\ Damage(w) \in Rect
  BY <1>2, <1>4, UnionType DEF Damage
<1>6. x \in Int /\ y \in Int
  BY <1>1, <1>2 DEF Rect
<1>7. RectContains(d, x, y) <=> RectContains(s, p[1], p[2])
  <2> HIDE DEF s
  <2> QED
    BY <1>1, <1>2 DEF RectContains, R, Rect
<1>8. RectContains(ToScreen(w, Damage(w)), p[1], p[2]) <=> RectContains(Damage(w), x, y)
  <2> DEFINE r == Damage(w)
  <2> HIDE DEF r
  <2>1. r \in Rect
    BY <1>5 DEF r
  <2>2. RectContains(ToScreen(w, r), p[1], p[2]) <=> RectContains(r, x, y)
    BY <1>1, <1>2, <2>1 DEF RectContains, R, Rect, ToScreen
  <2> QED
    BY <2>2 DEF r
<1>9. p \in Painted(rect[w], own[w]) <=> RectContains(own[w], x, y) /\ Covers(w, p)
  BY <1>2, PaintedOn DEF Covers
<1>10. p \in Painted(rect[w], Damage(w)) <=> RectContains(Damage(w), x, y) /\ Covers(w, p)
  BY <1>2, <1>5, PaintedOn DEF Covers
<1>11. own[w] = Empty /\ RectContains(Damage(w), x, y) => RectContains(d, x, y)
  <2> HIDE DEF d, x, y
  <2>1. RectContains(RectUnion(Empty, d), x, y) => RectContains(d, x, y)
    BY <1>4, <1>6 DEF RectUnion, RectContains, Rect, R, Empty
  <2> QED
    BY <1>5, <2>1
<1> HIDE DEF s, d, x, y
<1>12. RectContains(own[w], x, y) \/ RectContains(d, x, y) => RectContains(Damage(w), x, y)
  BY <1>2, <1>4, <1>5, <1>6, UnionCovers
<1> QED
  BY <1>3, <1>7, <1>8, <1>9, <1>10, <1>11, <1>12

\* A window is topmost if nothing later in the list is.
LEMMA TopmostIs ==
  ASSUME TypeOK, NEW S, NEW i \in Windows, list[i] \in S,
         \A j \in Windows : list[j] \in S => j <= i
  PROVE  Topmost(S) = list[i]
<1>1. DOMAIN list = Windows /\ Windows \subseteq Int
  BY WindowsRange DEF TypeOK
<1>2. \A k \in Windows : (list[k] \in S /\ \A j \in Windows : list[j] \in S => j <= k) => k = i
  BY <1>1
<1> QED
  BY <1>1, <1>2 DEF Topmost

LEMMA TopmostAt ==
  ASSUME TypeOK, NEW S, S \subseteq Windows, S # {}
  PROVE  \E i \in Windows : /\ list[i] \in S /\ Topmost(S) = list[i]
                            /\ \A j \in Windows : list[j] \in S => j <= i
BY TopmostIn DEF TypeOK

-----------------------------------------------------------------------------
(* The inductive invariant of the screen *)

InGi(p) == RectContains(gi, p[1], p[2])
OnPointer(p) == RectContains(Pointer, p[1], p[2])
Covering(p) == {w \in Windows : Covers(w, p)}

\* all of a window is to be painted
Full(w) == \A x, y \in Int : RectContains(Whole(w), x, y) => RectContains(own[w], x, y)

\* Before the first drawing all of the screen is damaged.  From then on a
\* window other than the tty window has damage only if a press raised it:
\* then it and what was raised later is painted whole, and the pointer and
\* the outline are painted again.
AllStale == \A p \in Pixels : InGi(p)
RaisedOnly == \A w \in Windows \ {1} : own[w] \in {Empty, Whole(w)}
RaisedAbove == \A i, j \in Windows : i < j /\ list[i] # 1 /\ own[list[i]] # Empty => Full(list[j])
RaisedMoved == (\E w \in Windows \ {1} : own[w] # Empty)
                 => \A p \in Pixels : OnPointer(p) \/ OnOutline(p) => InGi(p)
DamageOK == AllStale \/ (RaisedOnly /\ RaisedAbove /\ RaisedMoved)

\* a pixel is right, will be painted, or is one of the two things the tty
\* window leaves
PixelOK(p) == front[p] = Expected(p) \/ Pending(p) \/ Trail(p) \/ Smear(p)

\* What holds of the screen after every step.  The frame buffer is a copy of
\* the back buffer: Union of gui_draw_all holds whatever was painted.
SInv == IInv /\ front = back /\ DamageOK /\ \A p \in Pixels : PixelOK(p)

\* the window seen at p, and whether its own damage has p painted
Top(p) == Topmost(Covering(p))
TopDamaged(p) == Covering(p) # {} /\ p \in Painted(rect[Top(p)], own[Top(p)])

PendingMeans == \A p \in Pixels : Pending(p) <=> InGi(p) \/ TopDamaged(p)

LEMMA PendingIs == TypeOK => PendingMeans
BY PaintedScreen DEF PendingMeans, Pending, InGi, Covering, Top, TopDamaged, TypeOK

ExpectedMeans ==
  \A p \in Pixels :
     Expected(p) = IF OnPointer(p) THEN <<"mouse">>
                   ELSE <<IF Covering(p) = {} THEN Desktop ELSE Face(Top(p), p), OnOutline(p)>>

LEMMA ExpectedIs == ExpectedMeans
BY DEF ExpectedMeans, Expected, OnPointer, Covering, Top

\* At first all of the screen is damaged.
LEMMA InitSInv == Init => SInv
<1> SUFFICES ASSUME Init PROVE SInv
  OBVIOUS
<1>1. IInv
  BY InitIInv
<1>2. front = back
  BY DEF Init
<1>3. ASSUME NEW p \in Pixels PROVE InGi(p)
  BY ScreenInt DEF Init, InGi, Pixels, Screen, R, RectContains
<1>4. \A p \in Pixels : PixelOK(p)
  BY <1>1, <1>3, PendingIs DEF PixelOK, IInv, PendingMeans
<1> QED
  BY <1>1, <1>2, <1>3, <1>4 DEF SInv, DamageOK, AllStale

PaintedAt(p) == {w \in Windows : p \in Painted(rect[w], Damage(w))}

\* A window is painted only where it is; in the damage of the screen each is.
LEMMA PaintedWithin ==
  ASSUME TypeOK, NEW p \in Pixels
  PROVE  /\ PaintedAt(p) \subseteq Covering(p)
         /\ InGi(p) => PaintedAt(p) = Covering(p)
BY PaintedByDamage DEF PaintedAt, Covering, InGi

\* Everything painted is copied to the frame buffer.
LEMMA DrawAllSame ==
  ASSUME TypeOK, front = back, DrawAll
  PROVE  front' = back'
<1>1. back' = [p \in Pixels |-> back'[p]]
  BY DEF DrawAll, BackAfter
<1>2. front' = [p \in Pixels |-> IF p \in Painted(Screen, Union(gi)) THEN back'[p] ELSE front[p]]
  BY DEF DrawAll, Bitblt
<1>3. ASSUME NEW p \in Pixels, p \notin Painted(Screen, Union(gi)) PROVE back'[p] = back[p]
  <2>1. p[1] \in Int /\ p[2] \in Int
    BY PixelInt
  <2>2. Union(gi) \in Rect /\ ~RectContains(Union(gi), p[1], p[2])
    BY <1>3, <2>1, UnionOfAll, PaintedScreen
  <2>3. ~RectContains(gi, p[1], p[2])
    BY <2>1, <2>2, UnionOfAll
  <2>4. p \notin Painted(Screen, gi)
    BY <2>3, PaintedScreen DEF TypeOK
  <2>5. ASSUME NEW w \in Windows PROVE p \notin Painted(rect[w], Damage(w))
    BY <2>1, <2>2, UnionOfAll, PaintedByDamage
  <2>6. {w \in Windows : p \in [v \in Windows |-> Painted(rect[v], Damage(v))][w]} = {}
    BY <2>5
  <2> QED
    BY <2>4, <2>6 DEF DrawAll, BackAfter
<1> QED
  BY <1>1, <1>2, <1>3

\* What gui_draw_all leaves at a pixel, and whether a window below painted it.
LEMMA DrawAllAt ==
  ASSUME TypeOK, DrawAll, NEW p \in Pixels
  PROVE  /\ InGi(p) => back'[p] = Expected(p)
         /\ ~InGi(p) /\ PaintedAt(p) = {} => back'[p] = back[p] /\ (p \in smeared' <=> p \in smeared)
         /\ ~InGi(p) /\ PaintedAt(p) # {} =>
               /\ back'[p] = <<Face(Topmost(PaintedAt(p)), p), FALSE>>
               /\ p \in smeared' <=> \/ Topmost(Covering(p)) \notin PaintedAt(p)
                                     \/ OnOutline(p)
                                     \/ OnPointer(p)
<1> DEFINE by == [w \in Windows |-> Painted(rect[w], Damage(w))]
           S == {w \in Windows : p \in by[w]}
           base == IF S = {} THEN Desktop ELSE Face(Topmost(S), p)
<1>1. S = PaintedAt(p)
  BY DEF PaintedAt
<1>2. p \in Painted(Screen, gi) <=> InGi(p)
  BY PaintedScreen DEF TypeOK, InGi
<1>3. back'[p] = IF p \in Painted(Screen, gi)
                 THEN IF RectContains(Pointer, p[1], p[2]) THEN <<"mouse">>
                      ELSE <<base, OnOutline(p)>>
                 ELSE IF S = {} THEN back[p] ELSE <<base, FALSE>>
  BY DEF DrawAll, BackAfter
<1>4. p \in smeared' <=> /\ p \notin Painted(Screen, gi)
                         /\ IF S = {} THEN p \in smeared
                            ELSE \/ Topmost({w \in Windows : Covers(w, p)}) \notin S
                                 \/ OnOutline(p)
                                 \/ RectContains(Pointer, p[1], p[2])
  BY DEF DrawAll, SmearedAfter
<1> HIDE DEF S
<1>5. ASSUME InGi(p) PROVE back'[p] = Expected(p)
  <2>1. PaintedAt(p) = Covering(p)
    BY <1>5, PaintedWithin
  <2>2. CASE OnPointer(p)
    BY <1>2, <1>3, <1>5, <2>2 DEF OnPointer, Expected
  <2>3. CASE ~OnPointer(p)
    <3>1. back'[p] = <<base, OnOutline(p)>>
      BY <1>2, <1>3, <1>5, <2>3 DEF OnPointer
    <3> QED
      BY <1>1, <2>1, <2>3, <3>1, ExpectedIs DEF Top, ExpectedMeans
  <2> QED
    BY <2>2, <2>3
<1>6. ASSUME ~InGi(p), PaintedAt(p) = {}
      PROVE  back'[p] = back[p] /\ (p \in smeared' <=> p \in smeared)
  BY <1>1, <1>2, <1>3, <1>4, <1>6
<1>7. ASSUME ~InGi(p), PaintedAt(p) # {}
      PROVE  /\ back'[p] = <<Face(Topmost(PaintedAt(p)), p), FALSE>>
             /\ p \in smeared' <=> \/ Topmost(Covering(p)) \notin PaintedAt(p)
                                   \/ OnOutline(p)
                                   \/ OnPointer(p)
  BY <1>1, <1>2, <1>3, <1>4, <1>7 DEF OnPointer, Covering
<1> QED
  BY <1>5, <1>6, <1>7

\* Outside the damage of the screen only the tty window paints over what is
\* above it: where another window is painted, what is above it is painted too.
LEMMA OnlyTtySmears ==
  ASSUME TypeOK, DamageOK, NEW p \in Pixels, ~InGi(p),
         NEW w \in Windows, w \in PaintedAt(p), w # 1
  PROVE  /\ Topmost(Covering(p)) \in PaintedAt(p)
         /\ ~OnOutline(p) /\ ~OnPointer(p)
<1>1. RaisedOnly /\ RaisedAbove /\ RaisedMoved
  BY DEF DamageOK, AllStale
<1>2. w \in PaintedAt(p)
  OBVIOUS
<1>3. Covers(w, p) /\ p \in Painted(rect[w], Damage(w)) /\ w # 1
  BY <1>2, PaintedByDamage DEF PaintedAt
<1>4. own[w] # Empty
  BY <1>3, PaintedByDamage DEF InGi
<1>5. ~OnOutline(p) /\ ~OnPointer(p)
  BY <1>1, <1>3, <1>4 DEF RaisedMoved
<1>6. PICK j \in Windows : /\ list[j] \in Covering(p) /\ Topmost(Covering(p)) = list[j]
                           /\ \A k \in Windows : list[k] \in Covering(p) => k <= j
  <2>1. w \in Covering(p) /\ Covering(p) \subseteq Windows
    BY <1>3 DEF Covering
  <2> QED
    BY <2>1, TopmostAt
<1>7. PICK i \in Windows : list[i] = w
  BY DEF TypeOK, ToSet
<1>8. i <= j
  BY <1>3, <1>6, <1>7 DEF Covering
<1>9. CASE i = j
  BY <1>2, <1>5, <1>6, <1>7, <1>9
<1>10. CASE i # j
  <2>1. i < j
    BY <1>8, <1>10, WindowsRange
  <2>2. Full(list[j])
    BY <1>1, <1>3, <1>4, <1>7, <2>1 DEF RaisedAbove
  <2>3. list[j] \in Windows /\ Covers(list[j], p)
    BY <1>6 DEF Covering
  <2>4. p[1] - rect[list[j]].x \in Int /\ p[2] - rect[list[j]].y \in Int
        /\ p[1] \in Int /\ p[2] \in Int
    BY <2>3, PixelInt DEF TypeOK, Rect
  <2>5. RectContains(Whole(list[j]), p[1] - rect[list[j]].x, p[2] - rect[list[j]].y)
    BY <2>3, <2>4, WholeCovers DEF Covers
  <2>6. RectContains(own[list[j]], p[1] - rect[list[j]].x, p[2] - rect[list[j]].y)
    BY <2>2, <2>4, <2>5 DEF Full
  <2>7. p \in Painted(rect[list[j]], own[list[j]])
    BY <2>3, <2>6, PaintedOn DEF TypeOK, Covers
  <2> QED
    BY <1>5, <1>6, <2>3, <2>7, PaintedByDamage DEF PaintedAt
<1> QED
  BY <1>5, <1>9, <1>10

\* A drawing uses the damage up and paints what it told of.
LEMMA DrawAllSInv == SInv /\ DrawAll => SInv'
<1> SUFFICES ASSUME SInv, DrawAll PROVE SInv'
  OBVIOUS
<1>1. IInv /\ TypeOK /\ front = back /\ DamageOK /\ \A p \in Pixels : PixelOK(p)
  BY DEF SInv, IInv
<1>2. IInv'
  BY <1>1, DrawAllIInv
<1>3. front' = back'
  BY <1>1, DrawAllSame
<1>4. DamageOK'
  <2>1. \A w \in Windows : own'[w] = Empty
    BY DEF DrawAll
  <2>2. list' = list
    BY DEF DrawAll
  <2>3. \A i \in Windows : list[i] \in Windows
    BY <1>1 DEF TypeOK
  <2> QED
    BY <2>1, <2>2, <2>3 DEF DamageOK, RaisedOnly, RaisedAbove, RaisedMoved
<1>5. ASSUME NEW p \in Pixels PROVE PixelOK(p)'
  <2>1. /\ Expected(p)' = Expected(p) /\ (Covers(1, p)' <=> Covers(1, p))
        /\ Topmost({w \in Windows : Covers(w, p)})' = Topmost({w \in Windows : Covers(w, p)})
        /\ Pointer' = Pointer /\ OnOutline(p)' = OnOutline(p)
        /\ \A i : Place(1, p, i)' = Place(1, p, i)
    BY DEF DrawAll, Expected, Pointer, Covers, OnOutline, Topmost, Face, Place, Ink
  <2>2. CASE InGi(p)
    BY <1>1, <1>3, <2>1, <2>2, DrawAllAt DEF PixelOK
  <2>3. CASE ~InGi(p) /\ PaintedAt(p) = {}
    <3>1. front'[p] = front[p] /\ (p \in smeared' <=> p \in smeared)
      BY <1>1, <1>3, <2>3, DrawAllAt
    <3>2. ~Pending(p)
      <4>1. ASSUME Covering(p) # {} PROVE p \notin Painted(rect[Top(p)], own[Top(p)])
        <5>1. Top(p) \in Windows
          BY <1>1, <4>1, TopmostAt DEF Covering, Top
        <5> QED
          BY <1>1, <2>3, <5>1, PaintedByDamage DEF PaintedAt
      <4> QED
        BY <1>1, <2>3, <4>1, PendingIs DEF TopDamaged, PendingMeans
    <3>3. CASE Trail(p)
      BY <2>1, <3>1, <3>3 DEF PixelOK, Trail
    <3>4. CASE Smear(p)
      BY <2>1, <3>1, <3>4 DEF PixelOK, Smear
    <3>5. CASE front[p] = Expected(p)
      BY <2>1, <3>1, <3>5 DEF PixelOK
    <3> QED
      BY <1>1, <3>2, <3>3, <3>4, <3>5 DEF PixelOK
  <2>4. CASE ~InGi(p) /\ PaintedAt(p) # {}
    <3>1. front'[p] = <<Face(Topmost(PaintedAt(p)), p), FALSE>>
      BY <1>1, <1>3, <2>4, DrawAllAt
    <3>2. p \in smeared' <=> \/ Topmost(Covering(p)) \notin PaintedAt(p)
                             \/ OnOutline(p)
                             \/ OnPointer(p)
      BY <1>1, <2>4, DrawAllAt
    <3>3. CASE p \in smeared'
      <4>1. \A w \in PaintedAt(p) : w = 1
        BY <1>1, <2>4, <3>2, <3>3, OnlyTtySmears DEF PaintedAt
      <4>2. 1 \in PaintedAt(p) /\ PaintedAt(p) \subseteq Windows /\ PaintedAt(p) \subseteq Covering(p)
        BY <1>1, <2>4, <4>1, PaintedWithin DEF PaintedAt
      <4>3. Topmost(PaintedAt(p)) = 1
        BY <1>1, <2>4, <4>1, <4>2, TopmostAt
      <4>4. Face(1, p) = Place(1, p, Ink(p[1] - rect[1].x, p[2] - rect[1].y))
        BY DEF Face
      <4>5. Ink(p[1] - rect[1].x, p[2] - rect[1].y) \in {0, 1, Red}
        BY <1>1 DEF Ink, TypeOK
      <4>6. PICK i \in {0, 1, Red} : front'[p] = <<Place(1, p, i), FALSE>>
        BY <3>1, <4>3, <4>4, <4>5
      <4>7. Smear(p)'
        BY <2>1, <3>3, <4>2, <4>6 DEF Smear, Covering
      <4> QED
        BY <4>7 DEF PixelOK
    <3>4. CASE p \notin smeared'
      <4>1. Topmost(Covering(p)) \in PaintedAt(p) /\ ~OnOutline(p) /\ ~OnPointer(p)
        BY <3>2, <3>4
      <4>2. PaintedAt(p) \subseteq Covering(p) /\ Covering(p) \subseteq Windows
        BY <1>1, PaintedWithin DEF Covering
      <4>3. PICK j \in Windows : /\ list[j] \in Covering(p) /\ Topmost(Covering(p)) = list[j]
                                 /\ \A k \in Windows : list[k] \in Covering(p) => k <= j
        BY <1>1, <4>1, <4>2, TopmostAt
      <4>4. Topmost(PaintedAt(p)) = list[j]
        BY <1>1, <4>1, <4>2, <4>3, TopmostIs
      <4>5. Expected(p) = <<Face(list[j], p), OnOutline(p)>>
        BY <4>1, <4>3, ExpectedIs DEF Top, ExpectedMeans
      <4>6. OnOutline(p) = FALSE
        BY <4>1 DEF OnOutline
      <4> QED
        BY <2>1, <3>1, <4>4, <4>5, <4>6 DEF PixelOK
    <3> QED
      BY <3>3, <3>4
  <2> QED
    BY <2>2, <2>3, <2>4
<1> QED
  BY <1>2, <1>3, <1>4, <1>5 DEF SInv

-----------------------------------------------------------------------------
(* Messages *)

\* the damage of a window, as far as it can be seen, is not forgotten
Kept(w) == \A x, y \in Int : RectContains(Whole(w), x, y) /\ RectContains(own[w], x, y)
                               => RectContains(own[w], x, y)'

\* The window seen at p is at p.
LEMMA TopIn ==
  ASSUME TypeOK, NEW p \in Pixels, Covering(p) # {}
  PROVE  Top(p) \in Windows /\ Covers(Top(p), p)
<1>1. Covering(p) \subseteq Windows
  BY DEF Covering
<1>2. Top(p) \in Covering(p)
  BY <1>1, TopmostAt DEF Top
<1> QED
  BY <1>1, <1>2 DEF Covering

\* what is seen at p, the window u, is the same as before, or the red box left it
SameSeen(u, p) == \/ Face(u, p)' = Face(u, p)
                  \/ u = 1 /\ Face(1, p) = Place(1, p, Red)

\* A pixel is still right, pending or left over after a message if it is in the
\* damage of the screen, or if what is seen there is damaged or the same.
LEMMA PixelKept ==
  ASSUME SInv, TypeOK', NEW p \in Pixels, UNCHANGED <<front, smeared>>,
         InGi(p) => InGi(p)',
         ~InGi(p)' =>
            /\ OnPointer(p)' <=> OnPointer(p)
            /\ OnOutline(p)' = OnOutline(p)
            /\ Covering(p)' = Covering(p)
            /\ \A w \in Covering(p) : rect'[w] = rect[w]
            /\ Covering(p) # {} =>
                  \/ TopDamaged(p)'
                  \/ /\ Top(p)' = Top(p) /\ SameSeen(Top(p), p)
                     /\ TopDamaged(p) => TopDamaged(p)'
  PROVE  PixelOK(p)'
<1>1. TypeOK /\ PixelOK(p)
  BY DEF SInv, IInv
<1>2. Pending(p) <=> InGi(p) \/ TopDamaged(p)
  BY <1>1, PendingIs DEF PendingMeans
<1>3. Pending(p)' <=> InGi(p)' \/ TopDamaged(p)'
  <2>1. TypeOK' => PendingMeans'
    BY PendingIs, PTL
  <2> QED
    BY <2>1 DEF PendingMeans
<1>4. CASE InGi(p)' \/ TopDamaged(p)'
  BY <1>3, <1>4 DEF PixelOK
<1>5. CASE ~InGi(p)' /\ ~TopDamaged(p)'
  <2>1. ~Pending(p)
    <3>1. TopDamaged(p) => Covering(p) # {}
      BY DEF TopDamaged
    <3> QED
      BY <1>2, <1>5, <3>1
  <2>2. /\ OnPointer(p)' <=> OnPointer(p)
        /\ OnOutline(p)' = OnOutline(p)
        /\ Covering(p)' = Covering(p)
        /\ \A w \in Covering(p) : rect'[w] = rect[w]
        /\ Covering(p) # {} => Top(p)' = Top(p) /\ SameSeen(Top(p), p)
    BY <1>5
  <2>3. Covers(1, p)' <=> Covers(1, p)
    BY <2>2, WindowsRange DEF Covering
  <2>4. Covers(1, p) => \A i : Place(1, p, i)' = Place(1, p, i)
    BY <2>2, WindowsRange DEF Place, Covering
  <2>5. Trail(p) <=> /\ Covers(1, p) /\ 1 = Top(p) /\ ~OnPointer(p)
                     /\ front[p] = <<Place(1, p, Red), OnOutline(p)>>
    BY DEF Trail, Top, Covering, OnPointer
  <2>6. Trail(p)' <=> /\ Covers(1, p)' /\ 1 = Top(p)' /\ ~OnPointer(p)'
                      /\ front'[p] = <<Place(1, p, Red)', OnOutline(p)'>>
    BY DEF Trail, Top, Covering, OnPointer
  <2>7. CASE Trail(p)
    <3>1. Covers(1, p) /\ Covering(p) # {}
      BY <2>5, <2>7, WindowsRange DEF Covering
    <3>2. Trail(p)'
      BY <2>2, <2>3, <2>4, <2>5, <2>6, <2>7, <3>1
    <3> QED
      BY <3>2 DEF PixelOK
  <2>8. CASE Smear(p)
    <3>1. Covers(1, p)' /\ p \in smeared'
      BY <2>3, <2>8 DEF Smear
    <3>2. PICK i \in {0, 1, Red} : front'[p] = <<Place(1, p, i)', FALSE>>
      BY <2>4, <2>8 DEF Smear
    <3>3. Smear(p)'
      BY <3>1, <3>2 DEF Smear
    <3> QED
      BY <3>3 DEF PixelOK
  <2>9. CASE front[p] = Expected(p)
    <3> DEFINE was == IF Covering(p) = {} THEN Desktop ELSE Face(Top(p), p)
               is == IF Covering(p)' = {} THEN Desktop ELSE Face(Top(p), p)'
    <3>1. Expected(p) = IF OnPointer(p) THEN <<"mouse">> ELSE <<was, OnOutline(p)>>
      BY ExpectedIs DEF ExpectedMeans
    <3>2. Expected(p)' = IF OnPointer(p)' THEN <<"mouse">> ELSE <<is, OnOutline(p)'>>
      <4>1. ExpectedMeans'
        BY ExpectedIs, PTL
      <4> QED
        BY <4>1 DEF ExpectedMeans
    <3>3. CASE OnPointer(p) \/ is = was
      <4>1. <<is, OnOutline(p)'>> = <<was, OnOutline(p)>> \/ OnPointer(p)
        BY <2>2, <3>3
      <4> HIDE DEF is, was
      <4>2. Expected(p)' = Expected(p)
        BY <2>2, <3>1, <3>2, <4>1
      <4> QED
        BY <2>9, <4>2 DEF PixelOK
    <3>4. CASE ~OnPointer(p) /\ is # was
      <4>1. Covering(p) # {}
        BY <2>2, <3>4
      <4>2. Top(p)' = Top(p) /\ SameSeen(Top(p), p)
        BY <2>2, <4>1
      <4>3. PICK u : u = Top(p)
        OBVIOUS
      <4>4. Face(Top(p), p)' = Face(u, p)'
        BY <4>2, <4>3 DEF Face, Place
      <4>5. u = 1 /\ was = Place(1, p, Red)
        BY <2>2, <3>4, <4>1, <4>2, <4>3, <4>4 DEF SameSeen
      <4>6. Covers(1, p)
        BY <1>1, <4>1, <4>3, <4>5, TopIn
      <4> HIDE DEF is, was
      <4>7. Trail(p)
        BY <2>5, <2>9, <3>1, <3>4, <4>3, <4>5, <4>6
      <4> QED
        BY <4>7, <2>7
    <3> QED
      BY <3>3, <3>4
  <2> QED
    BY <1>1, <2>1, <2>7, <2>8, <2>9 DEF PixelOK
<1> QED
  BY <1>4, <1>5

\* Nothing is raised and no more moves than is damaged.
LEMMA DamageKept ==
  ASSUME TypeOK, DamageOK, UNCHANGED list,
         \A w \in Windows : Whole(w)' = Whole(w) /\ Kept(w) /\ (w # 1 => own'[w] = own[w]),
         \A p \in Pixels : InGi(p) => InGi(p)',
         \A p \in Pixels : OnPointer(p)' \/ OnOutline(p)' => InGi(p)' \/ OnPointer(p) \/ OnOutline(p)
  PROVE  DamageOK'
<1>1. CASE AllStale
  BY <1>1 DEF AllStale, DamageOK
<1>2. CASE RaisedOnly /\ RaisedAbove /\ RaisedMoved
  <2>1. RaisedOnly'
    BY <1>2 DEF RaisedOnly
  <2>2. ASSUME NEW w \in Windows, Full(w) PROVE Full(w)'
    BY <2>2 DEF Full, Kept
  <2>3. RaisedAbove'
    <3> SUFFICES ASSUME NEW i \in Windows, NEW j \in Windows, i < j,
                        list[i] # 1, own'[list[i]] # Empty
                 PROVE  Full(list[j])'
      BY DEF RaisedAbove
    <3>1. list[i] \in Windows /\ list[j] \in Windows
      BY DEF TypeOK
    <3>2. Full(list[j])
      BY <1>2, <3>1 DEF RaisedAbove
    <3>3. PICK v \in Windows : v = list[j]
      BY <3>1
    <3>4. Full(v)'
      BY <2>2, <3>2, <3>3
    <3> QED
      BY <3>3, <3>4 DEF Full, Whole
  <2>4. RaisedMoved'
    BY <1>2 DEF RaisedMoved
  <2> QED
    BY <2>1, <2>3, <2>4 DEF DamageOK
<1> QED
  BY <1>1, <1>2 DEF DamageOK

\* Damage that grows keeps a damaged place of a window damaged.
LEMMA TopDamageKept ==
  ASSUME TypeOK, TypeOK', NEW p \in Pixels, NEW u \in Windows,
         Covers(u, p), rect'[u] = rect[u], Kept(u), p \in Painted(rect[u], own[u])
  PROVE  p \in Painted(rect'[u], own'[u])
<1> DEFINE x == p[1] - rect[u].x
           y == p[2] - rect[u].y
<1>1. /\ p[1] \in Int /\ p[2] \in Int /\ x \in Int /\ y \in Int
      /\ rect[u] \in Rect /\ own[u] \in Rect /\ own'[u] \in Rect
  BY PixelInt DEF TypeOK, Rect
<1>2. RectContains(Whole(u), x, y)
  BY <1>1, WholeCovers DEF Covers
<1>3. RectContains(own[u], x, y)
  BY <1>1, PaintedOn
<1>4. RectContains(own'[u], x, y)
  <2> HIDE DEF x, y
  <2> QED
    BY <1>1, <1>2, <1>3 DEF Kept, RectContains
<1> QED
  BY <1>1, <1>4, PaintedOn DEF Covers

\* A place of a window that is in its damage is painted.
LEMMA InDamage ==
  ASSUME TypeOK, TypeOK', NEW p \in Pixels, NEW u \in Windows,
         Covers(u, p), rect'[u] = rect[u],
         RectContains(own'[u], p[1] - rect[u].x, p[2] - rect[u].y)
  PROVE  p \in Painted(rect'[u], own'[u])
<1>1. rect[u] \in Rect /\ own'[u] \in Rect
  BY DEF TypeOK
<1> QED
  BY <1>1, PaintedOn DEF Covers

\* every place of the tty window shows the same, the red box has left it, or
\* it is damaged
InkKept == \A x, y \in Int :
              RectContains(Whole(1), x, y)
                => Ink(x, y)' = Ink(x, y) \/ Ink(x, y) = Red \/ RectContains(own[1], x, y)'

\* The damage own0 of the windows, and what the tty window adds to it, is kept.
OwnKept(own0) ==
  /\ \A w \in Windows : w # 1 => own'[w] = own0[w]
  /\ \A w \in Windows : \A x, y \in Int :
        RectContains(Whole(w), x, y) /\ RectContains(own0[w], x, y) => RectContains(own'[w], x, y)
  /\ InkKept

\* A character damages the place of the text.
LEMMA ChangesKept ==
  ASSUME TypeOK, NEW all \in BOOLEAN, Changes(all), box' = box
  PROVE  OwnKept(own)
<1>1. own'[1] = (IF all THEN Whole(1) ELSE RectUnion(own[1], Cell)) /\ own[1] \in Rect
  BY WindowsRange DEF Changes, TypeOK
<1>2. ASSUME NEW x \in Int, NEW y \in Int, RectContains(Whole(1), x, y),
             RectContains(own[1], x, y) \/ RectContains(Cell, x, y)
      PROVE  RectContains(own'[1], x, y)
  <2>1. RectContains(RectUnion(own[1], Cell), x, y)
    BY <1>1, <1>2, ClientType, UnionCovers
  <2> QED
    BY <1>1, <1>2, <2>1
<1>3. \A x, y \in Int : Ink(x, y)' # Ink(x, y) => RectContains(Cell, x, y)
  BY DEF Ink
<1>4. InkKept
  BY <1>2, <1>3 DEF InkKept, RectContains
<1>5. \A w \in Windows : w # 1 => own'[w] = own[w]
  BY DEF Changes, TypeOK
<1> QED
  BY <1>2, <1>4, <1>5 DEF OwnKept

\* A movement of the red box damages its new place.
LEMMA MoveBoxKept ==
  ASSUME TypeOK, NEW own0 \in [Windows -> Rect], NEW a \in Int, NEW b \in Int,
         MoveBox(own0, a, b), data' = data
  PROVE  OwnKept(own0)
<1>1. own'[1] = RectUnion(own0[1], Spot(box')) /\ own0[1] \in Rect
  BY WindowsRange DEF MoveBox
<1>2. Spot(box') \in Rect
  BY MoveBoxType, SpotType
<1>3. ASSUME NEW x \in Int, NEW y \in Int,
             RectContains(own0[1], x, y) \/ RectContains(Spot(box'), x, y)
      PROVE  RectContains(own'[1], x, y)
  BY <1>1, <1>2, <1>3, UnionCovers
<1>4. \A x, y \in Int : Ink(x, y)' # Ink(x, y) /\ Ink(x, y) # Red => RectContains(Spot(box'), x, y)
  BY DEF Ink
<1>5. InkKept
  BY <1>3, <1>4 DEF InkKept, RectContains
<1>6. \A w \in Windows : w # 1 => own'[w] = own0[w]
  BY DEF MoveBox
<1> QED
  BY <1>3, <1>5, <1>6 DEF OwnKept

LEMMA NothingKept ==
  ASSUME NEW own0, own' = own0, UNCHANGED <<data, box>>
  PROVE  OwnKept(own0)
<1>1. \A x, y \in Int : Ink(x, y)' = Ink(x, y)
  BY DEF Ink
<1> QED
  BY <1>1 DEF OwnKept, InkKept

\* Where the same window is seen, the same is seen or it is damaged, save
\* where the red box was.
LEMMA SeenKept ==
  ASSUME TypeOK, TypeOK', NEW p \in Pixels, Covering(p) # {}, Covering(p)' = Covering(p),
         NEW u \in Windows, Top(p) = u, Top(p)' = u, rect'[u] = rect[u], Kept(u), InkKept
  PROVE  \/ TopDamaged(p)'
         \/ /\ Top(p)' = Top(p) /\ SameSeen(Top(p), p)
            /\ TopDamaged(p) => TopDamaged(p)'
<1>1. Covers(u, p)
  BY TopIn
<1>2. TopDamaged(p) <=> p \in Painted(rect[u], own[u])
  BY DEF TopDamaged
<1>3. TopDamaged(p)' <=> p \in Painted(rect'[u], own'[u])
  BY DEF TopDamaged
<1>4. TopDamaged(p) => TopDamaged(p)'
  BY <1>1, <1>2, <1>3, TopDamageKept
<1>5. SameSeen(u, p) => SameSeen(Top(p), p)
  BY DEF SameSeen, Face, Place
<1>6. CASE u = 1
  <2>1. p[1] \in Int /\ p[2] \in Int /\ rect[1] \in Rect
    BY <1>6, PixelInt DEF TypeOK
  <2>2. PICK x \in Int, y \in Int : x = p[1] - rect[1].x /\ y = p[2] - rect[1].y
    BY <2>1 DEF Rect
  <2>3. RectContains(Whole(1), x, y)
    BY <1>1, <1>6, <2>1, <2>2, WholeCovers DEF Covers
  <2>4. Face(1, p) = Place(1, p, Ink(x, y)) /\ Face(1, p)' = Place(1, p, Ink(x, y)')
    BY <1>6, <2>2 DEF Face, Place, Ink
  <2>5. Ink(x, y)' = Ink(x, y) \/ Ink(x, y) = Red \/ RectContains(own'[1], x, y)
    BY <2>3 DEF InkKept, RectContains
  <2>6. CASE RectContains(own'[1], x, y)
    BY <1>1, <1>3, <1>6, <2>2, <2>6, InDamage
  <2>7. CASE Ink(x, y)' = Ink(x, y) \/ Ink(x, y) = Red
    <3>1. SameSeen(1, p)
      BY <2>4, <2>7 DEF SameSeen
    <3> QED
      BY <1>4, <1>5, <1>6, <3>1
  <2> QED
    BY <2>5, <2>6, <2>7
<1>7. CASE u # 1
  <2>1. SameSeen(u, p)
    BY <1>7 DEF SameSeen, Face, Place
  <2> QED
    BY <1>4, <1>5, <2>1
<1> QED
  BY <1>6, <1>7

\* A key changes what the tty window shows where it asks to be painted.
LEMMA KeyboardSInv ==
  ASSUME SInv, NEW all \in BOOLEAN, GuiOnKeyboard(all)
  PROVE  SInv'
<1>1. IInv /\ TypeOK /\ front = back /\ DamageOK
  BY DEF SInv, IInv
<1>2. IInv' /\ TypeOK'
  <2>1. IInv'
    BY <1>1, KeyboardIInv
  <2> QED
    BY <2>1 DEF IInv
<1>3. /\ UNCHANGED <<list, rect, gi, mouse, prev, moving, capture, sizing, focused, back, front, smeared>>
      /\ box' = box
      /\ Changes(all) \/ (own' = own /\ data' = data)
  BY DEF GuiOnKeyboard
<1>4. OwnKept(own)
  BY <1>1, <1>3, ChangesKept, NothingKept
<1>5. /\ \A w \in Windows : w # 1 => own'[w] = own[w]
      /\ \A w \in Windows : Kept(w)
      /\ InkKept
  BY <1>4 DEF OwnKept, Kept, RectContains
<1>6. \A p \in Pixels : /\ OnPointer(p)' <=> OnPointer(p)
                        /\ OnOutline(p)' = OnOutline(p)
                        /\ InGi(p)' <=> InGi(p)
                        /\ Covering(p)' = Covering(p)
                        /\ Top(p)' = Top(p)
  BY <1>3 DEF OnPointer, Pointer, OnOutline, InGi, Covering, Covers, Top, Topmost
<1>7. DamageOK'
  <2>1. \A w \in Windows : Whole(w)' = Whole(w)
    BY <1>3 DEF Whole
  <2> QED
    BY <1>1, <1>3, <1>5, <1>6, <2>1, DamageKept
<1>8. ASSUME NEW p \in Pixels PROVE PixelOK(p)'
  <2>1. ASSUME Covering(p) # {}
        PROVE  \/ TopDamaged(p)'
               \/ /\ Top(p)' = Top(p) /\ SameSeen(Top(p), p)
                  /\ TopDamaged(p) => TopDamaged(p)'
    <3>1. PICK u \in Windows : u = Top(p)
      BY <1>1, <2>1, TopIn
    <3>2. rect'[u] = rect[u]
      BY <1>3
    <3> QED
      BY <1>1, <1>2, <1>5, <1>6, <2>1, <3>1, <3>2, SeenKept
  <2> QED
    BY <1>2, <1>3, <1>6, <2>1, PixelKept
<1> QED
  BY <1>2, <1>3, <1>1, <1>7, <1>8 DEF SInv

-----------------------------------------------------------------------------
(* Raising a window *)

\* Each window is in the list once.
LEMMA ListOnce ==
  ASSUME TypeOK, NEW i \in Windows, NEW j \in Windows, list[i] = list[j]
  PROVE  i = j
<1>1. IsFiniteSet(Windows)
  BY WindowsRange, FS_Interval
<1>2. list \in Surjection(Windows, Windows)
  BY WindowsRange DEF TypeOK, ToSet, Surjection
<1>3. list \in Injection(Windows, Windows)
  BY <1>1, <1>2, FS_SurjSameCardinalityImpliesInj
<1> QED
  BY <1>3 DEF Injection, IsInjective

\* Bringing t to the front keeps the order of the others.
LEMMA ToFrontOrder ==
  ASSUME TypeOK, NEW t \in Windows, list' = ToFront(t)
  PROVE  \E k \in Windows :
            /\ list[k] = t
            /\ list'[Len(Start)] = t
            /\ \A i \in Windows : i < k => list'[i] = list[i]
            /\ \A i \in Windows : k <= i /\ i < Len(Start) => list'[i] = list[i + 1]
<1> DEFINE n == Len(Start)
           k == CHOOSE i \in DOMAIN list : list[i] = t
<1>1. n \in Nat \ {0} /\ Windows = 1 .. n /\ DOMAIN list = Windows /\ Len(list) = n
  BY WindowsRange, OrderIsSeq DEF TypeOK
<1>2. k \in Windows /\ list[k] = t
  BY <1>1 DEF ToSet, TypeOK
<1>3. \A i \in Windows : list'[i] = IF i < k THEN list[i] ELSE IF i < n THEN list[i + 1] ELSE t
  BY <1>1 DEF ToFront
<1> HIDE DEF k
<1>4. list'[n] = t
  BY <1>1, <1>2, <1>3
<1>5. \A i \in Windows : i < k => list'[i] = list[i]
  BY <1>3
<1>6. \A i \in Windows : k <= i /\ i < n => list'[i] = list[i + 1]
  BY <1>1, <1>2, <1>3
<1> QED
  BY <1>2, <1>4, <1>5, <1>6

TopmostMeans ==
  \A S : \A i \in Windows : list[i] \in S /\ (\A j \in Windows : list[j] \in S => j <= i)
                              => Topmost(S) = list[i]

LEMMA TopmostIsAny == TypeOK => TopmostMeans
BY TopmostIs DEF TopmostMeans

\* Of some windows, the one seen last is t if it is among them, and the same
\* as before if it is not.
LEMMA ToFrontTopmost ==
  ASSUME TypeOK, TypeOK', NEW t \in Windows, list' = ToFront(t),
         NEW S, S \subseteq Windows, S # {}
  PROVE  Topmost(S)' = IF t \in S THEN t ELSE Topmost(S)
<1> DEFINE n == Len(Start)
<1>1. n \in Nat \ {0} /\ Windows = 1 .. n
  BY WindowsRange
<1> HIDE DEF n
<1>2. PICK k \in Windows : /\ list[k] = t /\ list'[n] = t
                           /\ \A i \in Windows : i < k => list'[i] = list[i]
                           /\ \A i \in Windows : k <= i /\ i < n => list'[i] = list[i + 1]
  BY ToFrontOrder DEF n
<1>3. \A i \in Windows : list'[i] \in S /\ (\A j \in Windows : list'[j] \in S => j <= i)
                              => Topmost(S)' = list'[i]
  <2>1. TypeOK' => TopmostMeans'
    BY TopmostIsAny, PTL
  <2> QED
    BY <2>1 DEF TopmostMeans
<1>4. CASE t \in S
  BY <1>1, <1>2, <1>3, <1>4
<1>5. CASE t \notin S
  <2>1. PICK i \in Windows : /\ list[i] \in S /\ Topmost(S) = list[i]
                             /\ \A j \in Windows : list[j] \in S => j <= i
    BY TopmostAt
  <2> DEFINE new == IF i < k THEN i ELSE i - 1
  <2>2. i # k
    BY <1>2, <1>5, <2>1
  <2>3. new \in Windows /\ list'[new] = list[i]
    <3>1. CASE i < k
      BY <1>2, <3>1
    <3>2. CASE k < i
      <4>1. i - 1 \in Windows /\ k <= i - 1 /\ i - 1 < n /\ (i - 1) + 1 = i
        BY <1>1, <3>2
      <4> QED
        BY <1>1, <1>2, <3>2, <4>1
    <3> QED
      BY <1>1, <2>2, <3>1, <3>2
  <2>4. ASSUME NEW j \in Windows, list'[j] \in S PROVE j <= new
    <3>1. j # n
      BY <1>2, <1>5, <2>4
    <3>2. CASE j < k
      <4>1. j <= i
        BY <1>2, <2>1, <2>4, <3>2
      <4> QED
        BY <1>1, <3>2, <4>1
    <3>3. CASE k <= j
      <4>1. j < n /\ j + 1 \in Windows
        BY <1>1, <3>1
      <4>2. list'[j] = list[j + 1]
        BY <1>2, <3>3, <4>1
      <4>3. j + 1 <= i
        BY <2>1, <2>4, <4>1, <4>2
      <4> QED
        BY <1>1, <3>3, <4>3
    <3> QED
      BY <1>1, <3>2, <3>3
  <2> HIDE DEF new
  <2>5. Topmost(S)' = list'[new]
    BY <1>3, <2>1, <2>3, <2>4
  <2> QED
    BY <1>5, <2>1, <2>3, <2>5
<1> QED
  BY <1>4, <1>5

\* A raised window is to be painted whole, and so is what was raised before
\* and is above another such window.
LEMMA RaisedKept ==
  ASSUME TypeOK, TypeOK', DamageOK, NEW t \in Windows, list' = ToFront(t),
         Full(t)', t # 1 => own'[t] = Whole(t),
         \A w \in Windows : Whole(w)' = Whole(w) /\ (w # t => Kept(w) /\ (w # 1 => own'[w] = own[w])),
         \A p \in Pixels : InGi(p) => InGi(p)',
         \A p \in Pixels : OnPointer(p)' \/ OnOutline(p)' => InGi(p)'
  PROVE  DamageOK'
<1>1. CASE AllStale
  BY <1>1 DEF AllStale, DamageOK
<1>2. CASE RaisedOnly /\ RaisedAbove /\ RaisedMoved
  <2>1. RaisedOnly'
    BY <1>2 DEF RaisedOnly
  <2>2. ASSUME NEW w \in Windows, w = t \/ Full(w) PROVE Full(w)'
    BY <2>2 DEF Full, Kept
  <2>3. RaisedAbove'
    <3> SUFFICES ASSUME NEW i \in Windows, NEW j \in Windows, i < j,
                        list'[i] # 1, own'[list'[i]] # Empty
                 PROVE  Full(list[j])'
      BY DEF RaisedAbove
    <3> DEFINE n == Len(Start)
    <3>1. n \in Nat \ {0} /\ Windows = 1 .. n
      BY WindowsRange
    <3> HIDE DEF n
    <3>2. PICK k \in Windows : /\ list[k] = t /\ list'[n] = t
                               /\ \A l \in Windows : l < k => list'[l] = list[l]
                               /\ \A l \in Windows : k <= l /\ l < n => list'[l] = list[l + 1]
      BY ToFrontOrder DEF n
    <3>3. PICK v \in Windows : v = list'[j]
      BY DEF TypeOK
    <3>4. v = t \/ Full(v)
      <4>1. CASE j = n
        BY <3>2, <3>3, <4>1
      <4>2. CASE j # n
        <5> DEFINE a == IF i < k THEN i ELSE i + 1
                   b == IF j < k THEN j ELSE j + 1
        <5>1. a \in Windows /\ b \in Windows /\ a < b /\ a # k
          BY <3>1, <4>2
        <5>2. list'[i] = list[a] /\ list'[j] = list[b]
          BY <3>1, <3>2, <4>2
        <5> HIDE DEF a, b
        <5>3. list[a] # t
          BY <3>2, <5>1, ListOnce
        <5>4. list[a] # 1 /\ own[list[a]] # Empty
          BY <5>1, <5>2, <5>3 DEF TypeOK
        <5> QED
          BY <1>2, <3>3, <5>1, <5>2, <5>4 DEF RaisedAbove
      <4> QED
        BY <4>1, <4>2
    <3>5. Full(v)'
      BY <2>2, <3>4
    <3> QED
      BY <3>3, <3>5 DEF Full, Whole
  <2>4. RaisedMoved'
    BY DEF RaisedMoved
  <2> QED
    BY <2>1, <2>3, <2>4 DEF DamageOK
<1> QED
  BY <1>1, <1>2 DEF DamageOK

-----------------------------------------------------------------------------
(* The mouse *)

\* A press moves nothing but the pointer, and draws an outline only where the
\* screen is damaged.
LEMMA PressDamage ==
  ASSUME IInv, capture = Nobody, NEW x, NEW y, NEW down, NEW inv \in Rect,
         NEW t \in Windows \union {Nobody}, Press(t, x, y, down, inv),
         NEW p \in Pixels
  PROVE  /\ RectContains(inv, p[1], p[2]) => InGi(p)'
         /\ ~OnOutline(p)
         /\ OnOutline(p)' => InGi(p)'
<1> DEFINE w == IF t = Nobody \/ down = {} THEN Nobody ELSE t
           drag == /\ w # Nobody /\ "left" \in down
                   /\ ~RectContains(ClientRect(rect[t]), x - rect[t].x, y - rect[t].y)
                   /\ OnTitle(rect[t], x, y)
<1>1. p[1] \in Int /\ p[2] \in Int
  BY PixelInt
<1>2. ~sizing.on
  BY DEF IInv, DragOK
<1>3. /\ drag => /\ sizing' = [on |-> TRUE, rect |-> rect[w], x |-> x, y |-> y]
                 /\ gi' = RectUnion(inv, rect[w])
      /\ ~drag => sizing' = sizing /\ gi' = inv
  BY DEF Press
<1>4. drag => w \in Windows
  OBVIOUS
<1> HIDE DEF drag, w
<1>5. CASE drag
  <2>1. rect[w] \in Rect /\ sizing'.rect = rect[w] /\ gi' = RectUnion(inv, rect[w])
    BY <1>3, <1>4, <1>5 DEF IInv, TypeOK
  <2>2. RectContains(inv, p[1], p[2]) \/ RectContains(rect[w], p[1], p[2]) => RectContains(gi', p[1], p[2])
    BY <1>1, <2>1, UnionCovers
  <2> QED
    BY <1>2, <2>1, <2>2 DEF OnOutline, InGi, RectContains
<1>6. CASE ~drag
  BY <1>2, <1>3, <1>6 DEF OnOutline, InGi, RectContains
<1> QED
  BY <1>5, <1>6

\* A drag damages the outline that was and the one that is, and a window that
\* is put down damages where it was and where it is.
LEMMA DragDamage ==
  ASSUME IInv, capture # Nobody, NEW x \in Int, NEW y \in Int, NEW up, NEW inv \in Rect,
         Drag(capture, x, y, up, inv)
  PROVE  /\ \A w \in Windows : /\ Whole(w)' = Whole(w)
                               /\ w # capture => rect'[w] = rect[w]
         /\ \A p \in Pixels : /\ RectContains(inv, p[1], p[2]) => InGi(p)'
                              /\ OnOutline(p) \/ OnOutline(p)' => InGi(p)'
         /\ \/ rect' = rect
            \/ \A p \in Pixels : Covers(capture, p) \/ RectContains(rect'[capture], p[1], p[2]) => InGi(p)'
<1> DEFINE r == rect[capture]
           to == [r EXCEPT !.x = @ + x - sizing.x, !.y = @ + y - sizing.y]
           a == r.x + x - sizing.x
           b == r.y + y - sizing.y
<1>1. capture \in Windows /\ r \in Rect /\ sizing.x \in Int /\ sizing.y \in Int /\ sizing.rect \in Rect
      /\ rect \in [Windows -> Rect] /\ sizing \in [on : BOOLEAN, rect : Rect, x : Int, y : Int]
  BY DEF IInv, TypeOK
<1>2. to \in Rect /\ to.w = r.w /\ to.h = r.h
  <2>1. a \in Int /\ b \in Int
    BY <1>1 DEF Rect
  <2>2. to = [r EXCEPT !.x = a, !.y = b]
    BY <1>1 DEF Rect
  <2> HIDE DEF to, a, b, r
  <2> QED
    BY <1>1, <2>1, <2>2 DEF Rect
<1>3. /\ "left" \in up => /\ rect' = [rect EXCEPT ![capture] = to]
                          /\ sizing' = [sizing EXCEPT !.on = FALSE, !.rect = to]
                          /\ gi' = RectUnion(inv, RectUnion(RectUnion(sizing.rect, to), r))
      /\ "left" \notin up => /\ rect' = rect
                             /\ sizing' = [sizing EXCEPT !.rect = to]
                             /\ gi' = RectUnion(inv, RectUnion(sizing.rect, to))
  BY DEF Drag, Outline
<1>4. \A w \in Windows : Whole(w) = R(0, 0, rect[w].w, rect[w].h) /\ Whole(w)' = R(0, 0, rect'[w].w, rect'[w].h)
  BY DEF Whole
<1> HIDE DEF to, r
<1>5. RectUnion(sizing.rect, to) \in Rect /\ RectUnion(RectUnion(sizing.rect, to), r) \in Rect
  BY <1>1, <1>2, UnionType
<1>6. sizing'.rect = to
  BY <1>1, <1>3
<1>7. ASSUME NEW p \in Pixels
      PROVE  /\ RectContains(inv, p[1], p[2]) => InGi(p)'
             /\ RectContains(sizing.rect, p[1], p[2]) => InGi(p)'
             /\ RectContains(to, p[1], p[2]) => InGi(p)'
             /\ "left" \in up /\ RectContains(r, p[1], p[2]) => InGi(p)'
  <2>1. p[1] \in Int /\ p[2] \in Int
    BY PixelInt
  <2>2. RectContains(sizing.rect, p[1], p[2]) \/ RectContains(to, p[1], p[2])
          => RectContains(RectUnion(sizing.rect, to), p[1], p[2])
    BY <1>1, <1>2, <2>1, UnionCovers
  <2>3. RectContains(RectUnion(sizing.rect, to), p[1], p[2]) \/ RectContains(r, p[1], p[2])
          => RectContains(RectUnion(RectUnion(sizing.rect, to), r), p[1], p[2])
    BY <1>1, <1>5, <2>1, UnionCovers
  <2>4. CASE "left" \in up
    <3>1. RectContains(inv, p[1], p[2]) \/ RectContains(RectUnion(RectUnion(sizing.rect, to), r), p[1], p[2])
            => RectContains(gi', p[1], p[2])
      BY <1>3, <1>5, <2>1, <2>4, UnionCovers
    <3> QED
      BY <2>2, <2>3, <3>1 DEF InGi, RectContains
  <2>5. CASE "left" \notin up
    <3>1. RectContains(inv, p[1], p[2]) \/ RectContains(RectUnion(sizing.rect, to), p[1], p[2])
            => RectContains(gi', p[1], p[2])
      BY <1>3, <1>5, <2>1, <2>5, UnionCovers
    <3> QED
      BY <2>2, <2>5, <3>1 DEF InGi, RectContains
  <2> QED
    BY <2>4, <2>5
<1>8. \A w \in Windows : Whole(w)' = Whole(w) /\ (w # capture => rect'[w] = rect[w])
  BY <1>1, <1>2, <1>3, <1>4 DEF r
<1>9. \A p \in Pixels : OnOutline(p) \/ OnOutline(p)' => InGi(p)'
  BY <1>6, <1>7 DEF OnOutline, RectContains
<1>10. \/ rect' = rect
       \/ \A p \in Pixels : Covers(capture, p) \/ RectContains(rect'[capture], p[1], p[2]) => InGi(p)'
  BY <1>1, <1>3, <1>7 DEF Covers, r
<1> QED
  BY <1>7, <1>8, <1>9, <1>10

\* A mouse message while a window is dragged.
LEMMA DragSInv ==
  ASSUME SInv, IInv', capture # Nobody, NEW x \in Int, NEW y \in Int, NEW up, NEW inv \in Rect,
         Drag(capture, x, y, up, inv), UNCHANGED <<own, data, box, front, back, smeared>>,
         \A p \in Pixels : InGi(p) \/ OnPointer(p) \/ OnPointer(p)' => RectContains(inv, p[1], p[2])
  PROVE  SInv'
<1>1. IInv /\ TypeOK /\ TypeOK' /\ front = back /\ DamageOK
  BY DEF SInv, IInv
<1>2. /\ \A w \in Windows : /\ Whole(w)' = Whole(w)
                            /\ w # capture => rect'[w] = rect[w]
      /\ \A p \in Pixels : /\ RectContains(inv, p[1], p[2]) => InGi(p)'
                           /\ OnOutline(p) \/ OnOutline(p)' => InGi(p)'
      /\ \/ rect' = rect
         \/ \A p \in Pixels : Covers(capture, p) \/ RectContains(rect'[capture], p[1], p[2]) => InGi(p)'
  BY <1>1, DragDamage
<1>3. list' = list
  BY DEF Drag
<1>4. \A p \in Pixels : InGi(p) \/ OnPointer(p) \/ OnPointer(p)' => InGi(p)'
  BY <1>2
<1>5. (\A w \in Windows : Kept(w)) /\ InkKept
  BY NothingKept DEF Kept, OwnKept, RectContains
<1>6. DamageOK'
  BY <1>1, <1>2, <1>3, <1>4, <1>5, DamageKept
<1>7. ASSUME NEW p \in Pixels PROVE PixelOK(p)'
  <2>1. ASSUME ~InGi(p)'
        PROVE  Covering(p)' = Covering(p) /\ Top(p)' = Top(p)
               /\ \A w \in Covering(p) : rect'[w] = rect[w]
    <3>1. \A w \in Windows : (Covers(w, p)' <=> Covers(w, p)) /\ (Covers(w, p) => rect'[w] = rect[w])
      BY <1>2, <2>1 DEF Covers
    <3>2. Covering(p)' = Covering(p)
      BY <3>1 DEF Covering
    <3> QED
      BY <1>3, <3>1, <3>2 DEF Top, Topmost, Covering
  <2>2. ASSUME ~InGi(p)', Covering(p) # {}
        PROVE  \/ TopDamaged(p)'
               \/ /\ Top(p)' = Top(p) /\ SameSeen(Top(p), p)
                  /\ TopDamaged(p) => TopDamaged(p)'
    <3>1. PICK u \in Windows : u = Top(p) /\ Covers(u, p)
      BY <1>1, <2>2, TopIn
    <3>2. rect'[u] = rect[u]
      BY <2>1, <2>2, <3>1 DEF Covering
    <3> QED
      BY <1>1, <1>5, <2>1, <2>2, <3>1, <3>2, SeenKept
  <2>3. ~InGi(p)' => OnOutline(p)' = OnOutline(p)
    <3>1. ~InGi(p)' => ~OnOutline(p) /\ ~OnOutline(p)'
      BY <1>2
    <3> QED
      BY <3>1 DEF OnOutline
  <2> QED
    BY <1>1, <1>4, <2>1, <2>2, <2>3, PixelKept
<1> QED
  BY <1>1, <1>6, <1>7 DEF SInv

\* A mouse message while none is dragged, to the window t that is seen there.
LEMMA PressSInv ==
  ASSUME SInv, IInv', capture = Nobody, NEW x, NEW y, NEW down, NEW inv \in Rect,
         NEW t \in Windows \union {Nobody}, Press(t, x, y, down, inv),
         LET raised == IF t # Nobody /\ down # {} THEN [own EXCEPT ![t] = Whole(t)] ELSE own
         IN OwnKept(raised),
         UNCHANGED <<front, back, smeared>>,
         \A p \in Pixels : InGi(p) \/ OnPointer(p) \/ OnPointer(p)' => RectContains(inv, p[1], p[2])
  PROVE  SInv'
<1> DEFINE up == t # Nobody /\ down # {}
           raised == IF up THEN [own EXCEPT ![t] = Whole(t)] ELSE own
<1>1. IInv /\ TypeOK /\ TypeOK' /\ front = back /\ DamageOK /\ own \in [Windows -> Rect]
  BY DEF SInv, IInv, TypeOK
<1>2. \A p \in Pixels : /\ RectContains(inv, p[1], p[2]) => InGi(p)'
                        /\ ~OnOutline(p)
                        /\ OnOutline(p)' => InGi(p)'
  BY <1>1, PressDamage
<1>3. \A p \in Pixels : InGi(p) \/ OnPointer(p) \/ OnPointer(p)' => InGi(p)'
  BY <1>2
<1>4. rect' = rect /\ \A w \in Windows : Whole(w)' = Whole(w)
  BY DEF Press, Whole
<1>5. /\ up => t \in Windows /\ list' = ToFront(t)
      /\ ~up => list' = list
  BY DEF Press
<1>6. raised \in [Windows -> Rect]
  <2>1. CASE up
    <3>1. Whole(t) \in Rect
      BY <1>1, <1>5, <2>1 DEF Whole, TypeOK, Rect, R
    <3> QED
      BY <1>1, <1>5, <2>1, <3>1
  <2>2. CASE ~up
    BY <1>1, <2>2
  <2> QED
    BY <2>1, <2>2
<1>7. \A w \in Windows : raised[w] = IF up /\ w = t THEN Whole(w) ELSE own[w]
  BY <1>1
<1>8. OwnKept(raised)
  OBVIOUS
<1> HIDE DEF raised, up
<1>9. /\ \A w \in Windows : w # 1 => own'[w] = raised[w]
      /\ \A w \in Windows : \A a, b \in Int :
            RectContains(Whole(w), a, b) /\ RectContains(raised[w], a, b) => RectContains(own'[w], a, b)
      /\ InkKept
  BY <1>8 DEF OwnKept
<1>10. \A w \in Windows : Kept(w)
  BY <1>7, <1>9 DEF Kept, RectContains
<1>11. DamageOK'
  <2>1. CASE up
    <3>1. Full(t)' /\ (t # 1 => own'[t] = Whole(t))
      <4>1. t \in Windows /\ raised[t] = Whole(t) /\ Whole(t)' = Whole(t)
        BY <1>4, <1>5, <1>7, <2>1
      <4> QED
        BY <1>9, <4>1 DEF Full, RectContains
    <3>2. \A w \in Windows : w # t /\ w # 1 => own'[w] = own[w]
      BY <1>7, <1>9
    <3>3. \A p \in Pixels : (InGi(p) => InGi(p)') /\ (OnPointer(p)' \/ OnOutline(p)' => InGi(p)')
      BY <1>2, <1>3
    <3> QED
      BY <1>1, <1>4, <1>5, <1>10, <2>1, <3>1, <3>2, <3>3, RaisedKept
  <2>2. CASE ~up
    <3>1. \A w \in Windows : w # 1 => own'[w] = own[w]
      BY <1>7, <1>9, <2>2
    <3>2. \A p \in Pixels : (InGi(p) => InGi(p)') /\ (OnPointer(p)' \/ OnOutline(p)' => InGi(p)')
      BY <1>2, <1>3
    <3> QED
      BY <1>1, <1>4, <1>5, <1>10, <2>2, <3>1, <3>2, DamageKept
  <2> QED
    BY <2>1, <2>2
<1>12. ASSUME NEW p \in Pixels PROVE PixelOK(p)'
  <2>1. Covering(p)' = Covering(p) /\ \A w \in Covering(p) : rect'[w] = rect[w]
    BY <1>4 DEF Covering, Covers
  <2>2. ASSUME Covering(p) # {}
        PROVE  \/ TopDamaged(p)'
               \/ /\ Top(p)' = Top(p) /\ SameSeen(Top(p), p)
                  /\ TopDamaged(p) => TopDamaged(p)'
    <3>1. PICK u \in Windows : u = Top(p) /\ Covers(u, p)
      BY <1>1, <2>2, TopIn
    <3>2. PICK C : C = Covering(p) /\ C \subseteq Windows
      BY DEF Covering
    <3>3. CASE up /\ Covers(t, p)
      <4>1. t \in Windows /\ t \in C
        BY <1>5, <3>2, <3>3 DEF Covering
      <4>2. Topmost(C)' = t
        BY <1>1, <1>5, <2>2, <3>2, <3>3, <4>1, ToFrontTopmost
      <4>3. Top(p)' = t
        BY <2>1, <3>2, <4>2 DEF Top, Topmost
      <4> DEFINE a == p[1] - rect[t].x
                 b == p[2] - rect[t].y
      <4>4. p[1] \in Int /\ p[2] \in Int /\ rect[t] \in Rect
        BY <1>1, <4>1, PixelInt DEF TypeOK
      <4>5. a \in Int /\ b \in Int
        BY <4>4 DEF Rect
      <4>6. RectContains(Whole(t), a, b)
        BY <1>1, <3>3, <4>1, <4>4, WholeCovers DEF Covers
      <4> HIDE DEF a, b
      <4>7. RectContains(own'[t], a, b)
        BY <1>7, <1>9, <3>3, <4>1, <4>5, <4>6
      <4>8. p \in Painted(rect'[t], own'[t])
        BY <1>1, <1>4, <3>3, <4>1, <4>7, InDamage DEF a, b
      <4> QED
        BY <2>1, <2>2, <4>3, <4>8 DEF TopDamaged
    <3>4. CASE ~(up /\ Covers(t, p))
      <4>1. Top(p)' = u
        <5>1. CASE up
          <6>1. t \in Windows /\ t \notin C
            BY <1>5, <3>2, <3>4, <5>1 DEF Covering
          <6>2. Topmost(C)' = Topmost(C)
            BY <1>1, <1>5, <2>2, <3>2, <5>1, <6>1, ToFrontTopmost
          <6> QED
            BY <2>1, <3>1, <3>2, <6>2 DEF Top, Topmost
        <5>2. CASE ~up
          BY <1>5, <2>1, <3>1, <5>2 DEF Top, Topmost
        <5> QED
          BY <5>1, <5>2
      <4>2. rect'[u] = rect[u]
        BY <1>4
      <4> QED
        BY <1>1, <1>9, <1>10, <2>1, <2>2, <3>1, <4>1, <4>2, SeenKept
    <3> QED
      BY <3>3, <3>4
  <2>3. ~InGi(p)' => OnOutline(p)' = OnOutline(p)
    <3>1. ~InGi(p)' => ~OnOutline(p) /\ ~OnOutline(p)'
      BY <1>2
    <3> QED
      BY <3>1 DEF OnOutline
  <2> QED
    BY <1>1, <1>3, <2>1, <2>2, <2>3, PixelKept
<1> QED
  BY <1>1, <1>11, <1>12 DEF SInv

\* Any movement and any buttons.
LEMMA MouseSInv ==
  ASSUME SInv, NEW d \in Moves, GuiOnMouse(d)
  PROVE  SInv'
<1> DEFINE x == Clamp(mouse.x + d[1], Width)
           y == Clamp(mouse.y + d[2], Height)
           inv == RectUnion(gi, RectUnion(Pointer, R(x, y, Mouse, Mouse)))
<1>1. IInv /\ TypeOK /\ DragOK /\ gi \in Rect /\ own \in [Windows -> Rect]
  BY DEF SInv, IInv, TypeOK
<1>2. IInv'
  BY <1>1, GuiOnMouseIInv
<1>3. x \in Int /\ y \in Int
  <2>1. mouse.x + d[1] \in Int /\ mouse.y + d[2] \in Int
    BY <1>1, MouseAssumption, ScreenInt DEF TypeOK
  <2>2. x \in 0 .. Width /\ y \in 0 .. Height
    BY <2>1, ScreenInt, ClampRange
  <2> QED
    BY <2>2, ScreenInt
<1>4. MouseMove(x, y) /\ UNCHANGED <<data, back, front, smeared>>
  BY DEF GuiOnMouse
<1> HIDE DEF x, y
<1>5. Pointer \in Rect /\ R(x, y, Mouse, Mouse) \in Rect
  BY <1>1, <1>3, ScreenInt, FrameAssumption DEF Pointer, R, Rect, TypeOK
<1>6. RectUnion(Pointer, R(x, y, Mouse, Mouse)) \in Rect /\ inv \in Rect
  BY <1>1, <1>5, UnionType
<1>7. PICK held \in SUBSET Buttons :
        mouse' = [x |-> x, y |-> y] /\ prev' = held /\ SendmsgMouse(x, y, held, inv)
  BY <1>4 DEF MouseMove
<1>8. ASSUME NEW p \in Pixels, InGi(p) \/ OnPointer(p) \/ OnPointer(p)'
      PROVE  RectContains(inv, p[1], p[2])
  <2>1. p[1] \in Int /\ p[2] \in Int
    BY PixelInt
  <2>2. OnPointer(p)' <=> RectContains(R(x, y, Mouse, Mouse), p[1], p[2])
    BY <1>7 DEF OnPointer, Pointer, R, RectContains
  <2>3. RectContains(Pointer, p[1], p[2]) \/ RectContains(R(x, y, Mouse, Mouse), p[1], p[2])
          => RectContains(RectUnion(Pointer, R(x, y, Mouse, Mouse)), p[1], p[2])
    BY <1>5, <2>1, UnionCovers
  <2>4. RectContains(gi, p[1], p[2]) \/ RectContains(RectUnion(Pointer, R(x, y, Mouse, Mouse)), p[1], p[2])
          => RectContains(inv, p[1], p[2])
    BY <1>1, <1>6, <2>1, UnionCovers
  <2> QED
    BY <1>8, <2>2, <2>3, <2>4 DEF InGi, OnPointer
<1> HIDE DEF inv
<1> DEFINE t == Target(x, y)
           down == held \ prev
           raised == IF t \notin moving /\ t # Nobody /\ down # {}
                     THEN [own EXCEPT ![t] = Whole(t)] ELSE own
           click == /\ t = 1 /\ t \notin moving /\ "left" \in held
                    /\ RectContains(ClientRect(rect[t]), x - rect[t].x, y - rect[t].y)
<1>9. t \in Windows \union {Nobody} /\ (t \in moving <=> capture # Nobody)
      /\ (capture # Nobody => t = capture)
  BY <1>1, <1>3, TargetIn
<1>10. /\ IF t \in moving THEN Drag(t, x, y, prev \ held, inv) ELSE Press(t, x, y, down, inv)
       /\ IF click THEN MoveBox(raised, x - rect[1].x, y - rect[1].y)
                   ELSE own' = raised /\ UNCHANGED box
  BY <1>7 DEF SendmsgMouse
<1>11. click => t \notin moving
  OBVIOUS
<1> HIDE DEF t, click
<1>12. CASE capture # Nobody
  <2>1. Drag(capture, x, y, prev \ held, inv)
    BY <1>9, <1>10, <1>12
  <2>2. UNCHANGED <<own, data, box, front, back, smeared>>
    BY <1>4, <1>9, <1>10, <1>11, <1>12
  <2> QED
    BY <1>2, <1>3, <1>6, <1>8, <1>12, <2>1, <2>2, DragSInv DEF inv
<1>13. CASE capture = Nobody
  <2>1. Press(t, x, y, down, inv)
    BY <1>9, <1>10, <1>13
  <2>2. raised = IF t # Nobody /\ down # {} THEN [own EXCEPT ![t] = Whole(t)] ELSE own
    BY <1>9, <1>13
  <2>3. OwnKept(raised)
    <3>1. raised \in [Windows -> Rect]
      <4>1. t # Nobody => t \in Windows /\ rect[t] \in Rect
        BY <1>1, <1>9 DEF TypeOK
      <4>2. t # Nobody => Whole(t) \in Rect
        BY <4>1 DEF Whole, R, Rect
      <4> QED
        BY <1>1, <4>1, <4>2
    <3>2. x - rect[1].x \in Int /\ y - rect[1].y \in Int
      <4>1. rect[1] \in Rect
        BY <1>1, WindowsRange DEF TypeOK
      <4> QED
        BY <1>3, <4>1 DEF Rect
    <3> HIDE DEF raised
    <3>3. CASE click
      BY <1>1, <1>4, <1>10, <3>1, <3>2, <3>3, MoveBoxKept
    <3>4. CASE ~click
      BY <1>4, <1>10, <3>4, NothingKept
    <3> QED
      BY <3>3, <3>4
  <2> HIDE DEF raised, down
  <2>4. inv \in Rect
    BY <1>6 DEF inv
  <2> QED
    BY <1>2, <1>4, <1>8, <1>9, <1>13, <2>1, <2>2, <2>3, <2>4, PressSInv
<1> QED
  BY <1>12, <1>13

\* What is on the screen is right or will be painted, whatever is typed,
\* clicked and dragged.
THEOREM ScreenInductive == Spec => []SInv
<1>1. SInv /\ [Next]_vars => SInv'
  <2> SUFFICES ASSUME SInv, [Next]_vars PROVE SInv'
    OBVIOUS
  <2>1. CASE DrawAll
    BY <2>1, DrawAllSInv
  <2>2. CASE \E d \in Moves : GuiOnMouse(d)
    BY <2>2, MouseSInv
  <2>3. CASE \E all \in BOOLEAN : GuiOnKeyboard(all)
    BY <2>3, KeyboardSInv
  <2>4. CASE UNCHANGED vars
    <3>1. IInv'
      BY <2>4 DEF vars, SInv, IInv, TypeOK, DragOK, Reachable
    <3>2. DamageOK' /\ front' = back'
      BY <2>4 DEF vars, SInv, DamageOK, AllStale, RaisedOnly, RaisedAbove, RaisedMoved, Full, Whole,
                  InGi, OnPointer, Pointer, OnOutline
    <3>3. ASSUME NEW p \in Pixels PROVE PixelOK(p)'
      <4>1. Expected(p)' = Expected(p)
        BY <2>4 DEF vars, Expected, Covers, Topmost, Pointer, OnOutline, Face, Place, Ink
      <4>2. Pending(p)' <=> Pending(p)
        BY <2>4 DEF vars, Pending, Covers, Topmost
      <4>3. Trail(p)' <=> Trail(p)
        BY <2>4 DEF vars, Trail, Covers, Topmost, Pointer, OnOutline, Place
      <4>4. Smear(p)' <=> Smear(p)
        BY <2>4 DEF vars, Smear, Covers, Place
      <4> QED
        BY <2>4, <4>1, <4>2, <4>3, <4>4 DEF vars, SInv, PixelOK
    <3> QED
      BY <3>1, <3>2, <3>3 DEF SInv
  <2> QED
    BY <2>1, <2>2, <2>3, <2>4 DEF Next
<1> QED
  BY <1>1, InitSInv, PTL DEF Spec

\* A pixel that does not show what it should is in an area that the next
\* gui_draw_all paints, or shows what only the tty window leaves: the red box
\* where it has been, or its own place over what covers it.  No damage of a
\* drag, a raise, the pointer, the text or the new place of the box is
\* forgotten, for any windows, sizes and movements.
THEOREM ScreenRight == Spec => []ScreenOK
<1>1. SInv => ScreenOK
  BY DEF SInv, IInv, ScreenOK, PixelOK
<1> QED
  BY <1>1, ScreenInductive, PTL
=============================================================================
