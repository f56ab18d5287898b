------------------------------- MODULE Shapes -------------------------------
(* Rectangles: src/kernel/src/gui/shapes.c.                                *)
EXTENDS Integers

Rect == [x : Int, y : Int, w : Int, h : Int]
R(x, y, w, h) == [x |-> x, y |-> y, w |-> w, h |-> h]
Empty == R(0, 0, 0, 0)

MinI(a, b) == IF a < b THEN a ELSE b
MaxI(a, b) == IF a > b THEN a ELSE b

RectContains(r, x, y) == /\ r.x <= x /\ x < r.x + r.w
                         /\ r.y <= y /\ y < r.y + r.h

RectIntersect(r1, r2) ==
    LET x == MaxI(r1.x, r2.x)
        y == MaxI(r1.y, r2.y)
        w == MinI(r1.x + r1.w, r2.x + r2.w) - x
        h == MinI(r1.y + r1.h, r2.y + r2.h) - y
    IN IF w < 0 \/ h < 0 THEN R(x, y, 0, 0) ELSE R(x, y, w, h)

RectUnion(r1, r2) ==
    LET x == MinI(r1.x, r2.x)
        y == MinI(r1.y, r2.y)
    IN IF r2.w = 0 \/ r2.h = 0 THEN r1
       ELSE IF r1.w = 0 \/ r1.h = 0 THEN r2
       ELSE R(x, y, MaxI(r1.x + r1.w, r2.x + r2.w) - x,
                    MaxI(r1.y + r1.h, r2.y + r2.h) - y)
=============================================================================
