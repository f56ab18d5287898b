--------------------------- MODULE TtyWindowProof ---------------------------
(***************************************************************************)
(* Proofs about TtyWindow, for a window of any size, any characters and    *)
(* any texts.                                                              *)
(***************************************************************************)
EXTENDS TtyWindow, SequenceTheorems, WellFoundedInduction, TLAPS

-----------------------------------------------------------------------------
(* Running over a text *)

\* Some numbers have a least one, which stands for an induction.
LEMMA Least ==
  ASSUME NEW T, T \subseteq Nat, T # {}
  PROVE  \E m \in T : \A k \in T : m <= k
<1> DEFINE R0 == OpToRel(<, Nat)
<1>1. IsWellFoundedOn(R0, Nat)
  BY NatLessThanWellFounded
<1>2. \A a, b \in Nat : a < b => <<a, b>> \in R0
  BY DEF OpToRel
<1> HIDE DEF R0
<1>3. PICK m \in T : \A k \in T : ~(<<k, m>> \in R0)
  BY <1>1, WFMin
<1>4. \A k \in T : ~(k < m)
  BY <1>2, <1>3
<1> QED
  BY <1>3, <1>4

\* u begins with d and goes on by the function g, n times
Runs(u, n, d, g) == u[0] = d /\ \A i \in 1 .. n : u[i] = g[u[i - 1]][i]

\* There is such a run.
LEMMA RunExists ==
  ASSUME NEW n \in Nat, NEW D, NEW d \in D, NEW g,
         \A e \in D : \A i \in 1 .. n : g[e][i] \in D
  PROVE  \E u \in [0 .. n -> D] : Runs(u, n, d, g)
<1> DEFINE Has(m) == \E u \in [0 .. m -> D] : Runs(u, m, d, g)
           T == {m \in 0 .. n : ~Has(m)}
<1>1. CASE T = {}
  <2>1. n \in 0 .. n
    OBVIOUS
  <2> HIDE DEF Has
  <2>2. Has(n)
    BY <1>1, <2>1
  <2> QED
    BY <2>2 DEF Has
<1>2. CASE T # {}
  <2>1. T \subseteq Nat
    OBVIOUS
  <2> HIDE DEF T
  <2>2. PICK m \in T : \A k \in T : m <= k
    BY <1>2, <2>1, Least
  <2>3. m \in 0 .. n /\ ~Has(m)
    BY DEF T
  <2> HIDE DEF Has
  <2>4. CASE m = 0
    <3> DEFINE u == [i \in 0 .. 0 |-> d]
    <3>1. Runs(u, 0, d, g) /\ u \in [0 .. 0 -> D]
      BY DEF Runs
    <3> QED
      BY <2>3, <2>4, <3>1 DEF Has
  <2>5. CASE m # 0
    <3>1. m - 1 \in 0 .. n /\ m - 1 \notin T /\ m \in 1 .. n
      BY <2>2, <2>3, <2>5
    <3>2. Has(m - 1)
      BY <3>1 DEF T
    <3>3. PICK v \in [0 .. m - 1 -> D] : Runs(v, m - 1, d, g)
      BY <3>2 DEF Has
    <3> DEFINE u == [i \in 0 .. m |-> IF i = m THEN g[v[m - 1]][m] ELSE v[i]]
    <3>4. u \in [0 .. m -> D]
      <4>1. v[m - 1] \in D
        BY <3>1
      <4>2. g[v[m - 1]][m] \in D
        BY <3>1, <4>1
      <4>3. \A i \in 0 .. m : i # m => i \in 0 .. m - 1
        BY <3>1
      <4> QED
        BY <4>2, <4>3
    <3>5. u[0] = d
      BY <2>3, <2>5, <3>3 DEF Runs
    <3>6. ASSUME NEW i \in 1 .. m PROVE u[i] = g[u[i - 1]][i]
      <4>1. i \in 0 .. m /\ i - 1 \in 0 .. m /\ i - 1 # m
        BY <2>3
      <4>2. u[i - 1] = v[i - 1]
        BY <4>1
      <4>3. CASE i = m
        BY <4>1, <4>2, <4>3
      <4>4. CASE i # m
        <5>1. i \in 1 .. m - 1
          BY <2>3, <4>4
        <5> QED
          BY <3>3, <4>1, <4>2, <4>4, <5>1 DEF Runs
      <4> QED
        BY <4>3, <4>4
    <3> HIDE DEF u
    <3> QED
      BY <2>3, <3>4, <3>5, <3>6 DEF Has, Runs
  <2> QED
    BY <2>4, <2>5
<1> QED
  BY <1>1, <1>2

\* There is but one.
LEMMA RunUnique ==
  ASSUME NEW n \in Nat, NEW d, NEW g, NEW u, NEW v, Runs(u, n, d, g), Runs(v, n, d, g)
  PROVE  \A i \in 0 .. n : u[i] = v[i]
<1> DEFINE T == {m \in 0 .. n : u[m] # v[m]}
<1>1. CASE T = {}
  BY <1>1
<1>2. CASE T # {}
  <2>1. T \subseteq Nat
    OBVIOUS
  <2> HIDE DEF T
  <2>2. PICK m \in T : \A k \in T : m <= k
    BY <1>2, <2>1, Least
  <2>3. m \in 0 .. n /\ u[m] # v[m]
    BY DEF T
  <2>4. m # 0
    BY <2>3 DEF Runs
  <2>5. m - 1 \in 0 .. n /\ m - 1 \notin T /\ m \in 1 .. n
    BY <2>2, <2>3, <2>4
  <2>6. u[m - 1] = v[m - 1]
    BY <2>5 DEF T
  <2> QED
    BY <2>3, <2>5, <2>6 DEF Runs
<1> QED
  BY <1>1, <1>2

\* A shorter run is the beginning of a longer one.
LEMMA RunShorter ==
  ASSUME NEW n \in Nat, NEW m \in 0 .. n, NEW d, NEW g, NEW u, Runs(u, n, d, g)
  PROVE  Runs(u, m, d, g)
BY DEF Runs

-----------------------------------------------------------------------------
(* Paper *)

Written == Chars \union {Newline}
Papers == Seq(Seq(Chars)) \ {<<>>}

PaperOf(s) == LET p[i \in 0 .. Len(s)] == IF i = 0 THEN << <<>> >> ELSE OnPaper(p[i - 1], s[i])
              IN p[Len(s)]

\* A character goes to the last line or begins a new one.
LEMMA OnPaperIs ==
  ASSUME NEW p \in Papers, NEW ch \in Chars
  PROVE  LET n == Len(p)
             q == [p EXCEPT ![n] = Append(Last(p), ch)]
         IN /\ n \in Nat \ {0} /\ Last(p) = p[n] /\ Last(p) \in Seq(Chars)
            /\ q \in Papers /\ Len(q) = n
            /\ \A i \in 1 .. n - 1 : q[i] = p[i]
            /\ q[n] = Append(Last(p), ch) /\ Last(q) = q[n]
<1> DEFINE n == Len(p)
           line == Append(p[n], ch)
           q == [p EXCEPT ![n] = line]
<1>1. n \in Nat /\ DOMAIN p = 1 .. n /\ p \in [1 .. n -> Seq(Chars)]
  BY LenProperties DEF Papers
<1>2. n # 0
  BY EmptySeq DEF Papers
<1>3. Last(p) = p[n] /\ p[n] \in Seq(Chars)
  BY <1>1, <1>2 DEF Last
<1>4. line \in Seq(Chars)
  BY <1>3, AppendProperties
<1> DEFINE C == Seq(Chars)
<1> HIDE DEF line, C
<1>5. q \in [1 .. n -> C] /\ q[n] = line /\ \A i \in 1 .. n - 1 : q[i] = p[i]
  <2>1. p \in [1 .. n -> C] /\ line \in C /\ n \in 1 .. n
    BY <1>1, <1>2, <1>4 DEF C
  <2> HIDE DEF n
  <2>2. \A i \in 1 .. n - 1 : i \in 1 .. n /\ i # n
    BY <1>1
  <2> QED
    BY <2>1, <2>2 DEF n
<1>6. q \in Seq(C)
  <2> HIDE DEF q, n
  <2> QED
    BY <1>1, <1>5, SeqDef
<1>7. Len(q) = n
  <2> DEFINE k == Len(q)
  <2>1. k \in Nat /\ DOMAIN q = 1 .. k /\ DOMAIN q = 1 .. n
    BY <1>5, <1>6, LenProperties
  <2>2. 1 .. k = 1 .. n
    BY <2>1
  <2> HIDE DEF k, n
  <2>3. k = n
    BY <1>1, <2>1, <2>2
  <2> QED
    BY <2>3 DEF k
<1> HIDE DEF q
<1>8. q # <<>>
  BY <1>2, <1>6, <1>7, EmptySeq
<1> QED
  BY <1>1, <1>2, <1>3, <1>5, <1>6, <1>7, <1>8 DEF q, line, C, Papers, Last

LEMMA NewLinePaper ==
  ASSUME NEW p \in Papers
  PROVE  LET n == Len(p)
             q == Append(p, <<>>)
         IN /\ n \in Nat \ {0}
            /\ q \in Papers /\ Len(q) = n + 1
            /\ \A i \in 1 .. n : q[i] = p[i]
            /\ q[n + 1] = <<>> /\ Last(q) = <<>>
<1> DEFINE n == Len(p)
           q == Append(p, <<>>)
<1>1. n \in Nat /\ p \in Seq(Seq(Chars)) /\ <<>> \in Seq(Chars)
  BY LenProperties, EmptySeq DEF Papers
<1>2. n # 0
  BY EmptySeq DEF Papers
<1>3. /\ q \in Seq(Seq(Chars)) /\ Len(q) = n + 1
      /\ \A i \in 1 .. n : q[i] = p[i]
      /\ q[n + 1] = <<>> /\ q # <<>>
  BY <1>1, AppendProperties
<1> QED
  BY <1>1, <1>2, <1>3 DEF Papers, Last

LEMMA OnPaperType ==
  ASSUME NEW p \in Papers, NEW ch \in Written
  PROVE  OnPaper(p, ch) \in Papers
<1>1. CASE ch = Newline
  BY <1>1, NewLinePaper DEF OnPaper
<1>2. CASE ch # Newline
  <2>1. ch \in Chars
    BY <1>2 DEF Written
  <2> DEFINE q == [p EXCEPT ![Len(p)] = Append(Last(p), ch)]
  <2>2. q \in Papers
    BY <2>1, OnPaperIs
  <2>3. OnPaper(p, ch) = IF Len(Append(Last(p), ch)) = TtywWidth THEN Append(q, <<>>) ELSE q
    BY <1>2 DEF OnPaper
  <2> HIDE DEF q
  <2> QED
    BY <2>2, <2>3, NewLinePaper
<1> QED
  BY <1>1, <1>2

\* The paper of a text is that of the text before its last character, with
\* that character written on it.
LEMMA PaperBegins == PaperOf(<<>>) = << <<>> >> /\ << <<>> >> \in Papers
<1>1. << <<>> >> \in Papers
  BY EmptySeq DEF Papers
<1>2. PaperOf(<<>>) = << <<>> >>
  <2> DEFINE P(p) == [i \in 0 .. 0 |-> IF i = 0 THEN << <<>> >> ELSE OnPaper(p[i - 1], <<>>[i])]
             r == CHOOSE p : p = P(p)
  <2>1. Len(<<>>) = 0
    OBVIOUS
  <2>2. PaperOf(<<>>) = r[0]
    BY <2>1 DEF PaperOf
  <2>3. [i \in 0 .. 0 |-> << <<>> >>] = P([i \in 0 .. 0 |-> << <<>> >>])
    OBVIOUS
  <2> HIDE DEF P
  <2>4. r = P(r)
    BY <2>3
  <2> HIDE DEF r
  <2> QED
    BY <2>2, <2>4 DEF P
<1> QED
  BY <1>1, <1>2

LEMMA PaperRun ==
  ASSUME NEW s \in Seq(Written)
  PROVE  LET g == [p \in Papers |-> [i \in 1 .. Len(s) |-> OnPaper(p, s[i])]]
         IN \E u \in [0 .. Len(s) -> Papers] : Runs(u, Len(s), << <<>> >>, g) /\ PaperOf(s) = u[Len(s)]
<1> DEFINE n == Len(s)
           g == [p \in Papers |-> [i \in 1 .. n |-> OnPaper(p, s[i])]]
           P(p) == [i \in 0 .. n |-> IF i = 0 THEN << <<>> >> ELSE OnPaper(p[i - 1], s[i])]
           r == CHOOSE p : p = P(p)
<1>1. n \in Nat /\ \A i \in 1 .. n : s[i] \in Written
  BY LenProperties
<1>2. PaperOf(s) = r[n]
  BY DEF PaperOf
<1> HIDE DEF n
<1>3. \A p \in Papers : \A i \in 1 .. n : g[p][i] = OnPaper(p, s[i]) /\ g[p][i] \in Papers
  BY <1>1, OnPaperType
<1> HIDE DEF g
<1>4. PICK u \in [0 .. n -> Papers] : Runs(u, n, << <<>> >>, g)
  <2> DEFINE d == << <<>> >>
  <2>1. d \in Papers
    BY PaperBegins
  <2> HIDE DEF d
  <2>2. \E u \in [0 .. n -> Papers] : Runs(u, n, d, g)
    BY <1>1, <1>3, <2>1, RunExists
  <2> QED
    BY <2>2 DEF d
<1>5. u = P(u)
  <2>1. ASSUME NEW i \in 0 .. n, i # 0 PROVE u[i] = OnPaper(u[i - 1], s[i])
    <3>1. i \in 1 .. n /\ i - 1 \in 0 .. n
      BY <1>1, <2>1
    <3> QED
      BY <1>3, <1>4, <3>1 DEF Runs
  <2> QED
    BY <1>4, <2>1 DEF Runs
<1> HIDE DEF P
<1>6. r = P(r)
  BY <1>5
<1> HIDE DEF r
<1>7. \A i \in 0 .. n : r[i] = u[i]
  <2> DEFINE T == {m \in 0 .. n : r[m] # u[m]}
  <2>1. CASE T = {}
    BY <2>1
  <2>2. CASE T # {}
    <3>1. T \subseteq Nat
      OBVIOUS
    <3> HIDE DEF T
    <3>2. PICK m \in T : \A k \in T : m <= k
      BY <2>2, <3>1, Least
    <3>3. m \in 0 .. n /\ r[m] # u[m]
      BY DEF T
    <3>4. r[m] = (IF m = 0 THEN << <<>> >> ELSE OnPaper(r[m - 1], s[m]))
          /\ u[m] = (IF m = 0 THEN << <<>> >> ELSE OnPaper(u[m - 1], s[m]))
      BY <1>5, <1>6, <3>3 DEF P
    <3>5. m # 0 => m - 1 \in 0 .. n /\ m - 1 \notin T
      <4>1. ASSUME m # 0 PROVE m - 1 \in 0 .. n /\ ~(m <= m - 1)
        BY <1>1, <3>3, <4>1
      <4> QED
        BY <3>2, <4>1
    <3>6. m # 0 => r[m - 1] = u[m - 1]
      BY <3>5 DEF T
    <3> QED
      BY <3>3, <3>4, <3>6
  <2> QED
    BY <2>1, <2>2
<1>8. PaperOf(s) = u[n]
  BY <1>1, <1>2, <1>7
<1> QED
  BY <1>4, <1>8 DEF g, n

-----------------------------------------------------------------------------
(* Writing one character *)

Texts == [Rows -> [Columns -> Chars \union {Blank}]]
Lines == [begin : Int, end : Int]

\* the state of write between two characters; the cursor may be one too far
Page == [buffer : Texts, cursor : (0 .. TtywWidth) \X (0 .. TtywHeight), damage : Rect, lines : Lines]
PageOf(b, c, d, l) == [buffer |-> b, cursor |-> c, damage |-> d, lines |-> l]

LEMMA SizeInt == TtywWidth \in Nat /\ TtywHeight \in Nat /\ TtywWidth >= 1 /\ TtywHeight >= 1
BY TtyAssumption

LEMMA PageIs ==
  ASSUME NEW b, NEW c, NEW d, NEW l
  PROVE  /\ PageOf(b, c, d, l).buffer = b /\ PageOf(b, c, d, l).cursor = c
         /\ PageOf(b, c, d, l).damage = d /\ PageOf(b, c, d, l).lines = l
         /\ b \in Texts /\ c \in (0 .. TtywWidth) \X (0 .. TtywHeight) /\ d \in Rect /\ l \in Lines
              => PageOf(b, c, d, l) \in Page
BY DEF PageOf, Page

LEMMA LinesType ==
  ASSUME NEW a \in Lines, NEW b \in Lines
  PROVE  LinesUnion(a, b) \in Lines
BY DEF LinesUnion, Lines, L, MinI, MaxI

InLines(l, y) == l.begin <= y /\ y < l.end

\* lines_union leaves no line out.
LEMMA LinesUnionCovers ==
  ASSUME NEW a \in Lines, NEW b \in Lines, NEW y \in Int, InLines(a, y) \/ InLines(b, y)
  PROVE  InLines(LinesUnion(a, b), y)
BY DEF LinesUnion, InLines, Lines, L, MinI, MaxI

LEMMA AllContains ==
  /\ All \in Rect
  /\ \A c \in Cells : RectContains(All, c[1], c[2])
  /\ \A l \in Lines : LinesRect(l) \in Rect
  /\ \A l \in Lines : \A c \in Cells : InLines(l, c[2]) => RectContains(LinesRect(l), c[1], c[2])
<1>1. All \in Rect
  BY SizeInt DEF All, R, Rect
<1>2. ASSUME NEW c \in Cells
      PROVE  c[1] \in Int /\ c[2] \in Int /\ 0 <= c[1] /\ c[1] < TtywWidth /\ 0 <= c[2] /\ c[2] < TtywHeight
  BY SizeInt DEF Cells, Columns, Rows
<1>3. ASSUME NEW c \in Cells PROVE RectContains(All, c[1], c[2])
  <2>1. All.x = 0 /\ All.y = 0 /\ All.w = TtywWidth /\ All.h = TtywHeight
    BY DEF All, R
  <2> QED
    BY <1>2, <2>1, SizeInt DEF RectContains
<1>4. ASSUME NEW l \in Lines
      PROVE  /\ LinesRect(l) \in Rect
             /\ \A c \in Cells : InLines(l, c[2]) => RectContains(LinesRect(l), c[1], c[2])
  <2>1. l.begin \in Int /\ l.end \in Int
    BY DEF Lines
  <2>2. /\ LinesRect(l).x = 0 /\ LinesRect(l).y = l.begin
        /\ LinesRect(l).w = TtywWidth /\ LinesRect(l).h = l.end - l.begin
        /\ LinesRect(l) \in Rect
    BY <2>1, SizeInt DEF LinesRect, R, Rect
  <2>3. ASSUME NEW c \in Cells, InLines(l, c[2]) PROVE RectContains(LinesRect(l), c[1], c[2])
    BY <1>2, <2>1, <2>2, <2>3, SizeInt DEF RectContains, InLines
  <2> QED
    BY <2>2, <2>3
<1> QED
  BY <1>1, <1>3, <1>4

BlankRow == [x \in Columns |-> Blank]
Shifted(b) == [y \in Rows |-> IF y + 1 \in Rows THEN b[y + 1] ELSE BlankRow]

LEMMA ShiftedType ==
  ASSUME NEW b \in Texts
  PROVE  Shifted(b) \in Texts
BY DEF Shifted, Texts, BlankRow

\* newline: the cursor goes to the next line, or the lines go up.
LEMMA NewLineIs ==
  ASSUME NEW t \in Page, t.cursor[2] \in Rows
  PROVE  LET y == t.cursor[2] + 1
         IN NewLine(t) = IF y = TtywHeight
                         THEN PageOf(Shifted(t.buffer), <<0, y - 1>>, All, LinesUnion(t.lines, L(0, TtywHeight)))
                         ELSE PageOf(t.buffer, <<0, y>>, t.damage, LinesUnion(t.lines, L(y - 1, y + 1)))
<1> DEFINE y == t.cursor[2] + 1
           next == [t EXCEPT !.cursor = <<0, y>>]
<1>1. y \in Int /\ 0 < y /\ y <= TtywHeight
  BY SizeInt DEF Rows
<1>2. t = PageOf(t.buffer, t.cursor, t.damage, t.lines)
  BY DEF Page, PageOf
<1> HIDE DEF y
<1>3. next = PageOf(t.buffer, <<0, y>>, t.damage, t.lines)
  BY <1>2 DEF PageOf
<1>4. NewLine(t) = IF y >= TtywHeight
                   THEN [Scroll(next) EXCEPT !.lines = LinesUnion(@, L(0, TtywHeight))]
                   ELSE [next EXCEPT !.lines = LinesUnion(@, LeftLines(y))]
  BY DEF NewLine, y
<1> HIDE DEF next
<1>5. Scroll(next) = PageOf(Shifted(t.buffer), <<0, y - 1>>, All, t.lines)
  <2>1. Shifted(t.buffer) = [z \in Rows |-> IF z + 1 \in Rows THEN next.buffer[z + 1]
                                          ELSE [x \in Columns |-> Blank]]
    BY <1>3 DEF PageOf, Shifted, BlankRow
  <2>2. next.cursor[1] = 0 /\ next.cursor[2] = y
    BY <1>3 DEF PageOf
  <2> DEFINE b == [z \in Rows |-> IF z + 1 \in Rows THEN next.buffer[z + 1]
                                 ELSE [x \in Columns |-> Blank]]
             c == IF next.cursor[2] > 0 THEN <<next.cursor[1], next.cursor[2] - 1>> ELSE <<0, 0>>
  <2>3. Scroll(next) = [next EXCEPT !.buffer = b, !.cursor = c, !.damage = All]
    BY DEF Scroll
  <2>4. c = <<0, y - 1>>
    BY <1>1, <2>2
  <2> HIDE DEF b, c
  <2> QED
    BY <1>3, <2>1, <2>3, <2>4 DEF PageOf, b
<1>6. CASE y = TtywHeight
  <2>1. NewLine(t) = [Scroll(next) EXCEPT !.lines = LinesUnion(@, L(0, TtywHeight))]
    BY <1>1, <1>4, <1>6, SizeInt
  <2> DEFINE b == Shifted(t.buffer)
             c == <<0, y - 1>>
  <2>2. Scroll(next) = PageOf(b, c, All, t.lines)
    BY <1>5
  <2> HIDE DEF b, c
  <2>3. NewLine(t) = PageOf(b, c, All, LinesUnion(t.lines, L(0, TtywHeight)))
    BY <2>1, <2>2 DEF PageOf
  <2> QED
    BY <1>6, <2>3 DEF b, c, y
<1>7. CASE y # TtywHeight
  <2>1. NewLine(t) = [next EXCEPT !.lines = LinesUnion(@, LeftLines(y))]
    BY <1>1, <1>4, <1>7, SizeInt
  <2> DEFINE c == <<0, y>>
  <2>2. next = PageOf(t.buffer, c, t.damage, t.lines)
    BY <1>3
  <2> HIDE DEF c
  <2>3. NewLine(t) = PageOf(t.buffer, c, t.damage, LinesUnion(t.lines, LeftLines(y)))
    BY <2>1, <2>2 DEF PageOf
  <2> QED
    BY <1>7, <2>3 DEF c, LeftLines, y
<1> QED
  BY <1>6, <1>7 DEF y

Put(b, x, y, ch) == [b EXCEPT ![y] = [c \in Columns |-> IF c = x THEN ch ELSE @[c]]]
PutPage(t, ch) == PageOf(Put(t.buffer, t.cursor[1], t.cursor[2], ch),
                         <<t.cursor[1] + 1, t.cursor[2]>>, t.damage, t.lines)

LEMMA PutType ==
  ASSUME NEW t \in Page, t.cursor \in Cells, NEW ch \in Chars
  PROVE  /\ Put(t.buffer, t.cursor[1], t.cursor[2], ch) \in Texts
         /\ PutPage(t, ch) \in Page
         /\ PutPage(t, ch).cursor[2] \in Rows
<1> DEFINE x == t.cursor[1]
           y == t.cursor[2]
           b == t.buffer
<1>1. x \in Columns /\ y \in Rows /\ b \in Texts /\ t.damage \in Rect /\ t.lines \in Lines
  BY DEF Cells, Page
<1>2. x + 1 \in 0 .. TtywWidth /\ y \in 0 .. TtywHeight
  BY <1>1, SizeInt DEF Columns, Rows
<1> HIDE DEF x, y, b
<1>3. Put(b, x, y, ch) \in Texts
  <2> DEFINE row == [c \in Columns |-> IF c = x THEN ch ELSE b[y][c]]
             Row == [Columns -> Chars \union {Blank}]
  <2>1. b[y] \in Row
    BY <1>1 DEF Texts
  <2>2. row \in Row
    BY <2>1
  <2>3. Put(b, x, y, ch) = [b EXCEPT ![y] = row]
    BY DEF Put
  <2>4. b \in [Rows -> Row]
    BY <1>1 DEF Texts
  <2> HIDE DEF row, Row
  <2>5. Put(b, x, y, ch) \in [Rows -> Row]
    BY <2>2, <2>3, <2>4
  <2> QED
    BY <2>5 DEF Row, Texts
<1>4. PutPage(t, ch) = PageOf(Put(b, x, y, ch), <<x + 1, y>>, t.damage, t.lines)
  BY DEF PutPage, x, y, b
<1>5. <<x + 1, y>> \in (0 .. TtywWidth) \X (0 .. TtywHeight)
  BY <1>2
<1> QED
  BY <1>1, <1>3, <1>4, <1>5, PageIs DEF x, y, b

\* write_one: a new line, or a character and a new line if the line is full.
LEMMA WriteOneIs ==
  ASSUME NEW t \in Page, t.cursor \in Cells, NEW ch
  PROVE  LET x == t.cursor[1]
             y == t.cursor[2]
         IN /\ ch = Newline => WriteOne(t, ch) = NewLine(t)
            /\ ch # Newline /\ x + 1 = TtywWidth => WriteOne(t, ch) = NewLine(PutPage(t, ch))
            /\ ch # Newline /\ x + 1 # TtywWidth =>
                 WriteOne(t, ch) = PageOf(Put(t.buffer, x, y, ch), <<x + 1, y>>, t.damage,
                                          LinesUnion(t.lines, L(y, y + 1)))
<1> DEFINE x == t.cursor[1]
           y == t.cursor[2]
           put == [t EXCEPT !.buffer[y] = [c \in Columns |-> IF c = x THEN ch ELSE @[c]],
                            !.cursor = <<x + 1, y>>]
<1>1. x \in Int /\ x < TtywWidth
  BY SizeInt DEF Cells, Columns
<1>2. put = PutPage(t, ch)
  <2>1. t = PageOf(t.buffer, t.cursor, t.damage, t.lines)
    BY DEF Page, PageOf
  <2> DEFINE b == Put(t.buffer, x, y, ch)
             c == <<x + 1, y>>
  <2>2. put = [t EXCEPT !.buffer = b, !.cursor = c]
    BY DEF Put
  <2> HIDE DEF b, c, put
  <2>3. put = PageOf(b, c, t.damage, t.lines)
    BY <2>1, <2>2 DEF PageOf
  <2> QED
    BY <2>3 DEF PutPage, b, c
<1>3. WriteOne(t, ch) = IF ch = Newline THEN NewLine(t)
                        ELSE IF Wraps(x + 1) THEN NewLine(put)
                        ELSE [put EXCEPT !.lines = LinesUnion(@, L(y, y + 1))]
  BY DEF WriteOne
<1>4. Wraps(x + 1) <=> x + 1 = TtywWidth
  BY <1>1, SizeInt DEF Wraps
<1> HIDE DEF put
<1>5. [put EXCEPT !.lines = LinesUnion(@, L(y, y + 1))]
        = PageOf(Put(t.buffer, x, y, ch), <<x + 1, y>>, t.damage, LinesUnion(t.lines, L(y, y + 1)))
  <2> DEFINE b == Put(t.buffer, x, y, ch)
             c == <<x + 1, y>>
             l == L(y, y + 1)
  <2>1. put = PageOf(b, c, t.damage, t.lines)
    BY <1>2 DEF PutPage
  <2> HIDE DEF b, c, l
  <2>2. [put EXCEPT !.lines = LinesUnion(@, l)] = PageOf(b, c, t.damage, LinesUnion(t.lines, l))
    BY <2>1 DEF PageOf
  <2> QED
    BY <2>2 DEF b, c, l
<1> QED
  BY <1>2, <1>3, <1>4, <1>5

\* A new line leaves the cursor on a cell, and damages what it changes.
LEMMA NewLineStep ==
  ASSUME NEW t \in Page, t.cursor[2] \in Rows
  PROVE  /\ NewLine(t) \in Page /\ NewLine(t).cursor \in Cells
         /\ \A c \in Cells :
               /\ RectContains(t.damage, c[1], c[2]) => RectContains(NewLine(t).damage, c[1], c[2])
               /\ InLines(t.lines, c[2]) => InLines(NewLine(t).lines, c[2])
               /\ \/ RectContains(NewLine(t).damage, c[1], c[2])
                  \/ InLines(NewLine(t).lines, c[2])
                  \/ /\ NewLine(t).buffer = t.buffer
                     /\ c[2] # t.cursor[2] /\ c # NewLine(t).cursor
<1> DEFINE y == t.cursor[2] + 1
           all == LinesUnion(t.lines, L(0, TtywHeight))
           two == LinesUnion(t.lines, L(y - 1, y + 1))
<1>1. y \in Int /\ 0 < y /\ y <= TtywHeight /\ y - 1 \in Rows /\ 0 \in Columns /\ t.cursor[2] = y - 1
      /\ (y # TtywHeight => y \in Rows)
  BY SizeInt DEF Rows, Columns
<1>2. t.buffer \in Texts /\ t.damage \in Rect /\ t.lines \in Lines
  BY DEF Page
<1>3. L(0, TtywHeight) \in Lines /\ L(y - 1, y + 1) \in Lines
  BY <1>1, SizeInt DEF L, Lines
<1>4. all \in Lines /\ two \in Lines
  BY <1>2, <1>3, LinesType
<1>5. ASSUME NEW c \in Cells
      PROVE  /\ c[2] \in Int
             /\ InLines(t.lines, c[2]) => InLines(all, c[2]) /\ InLines(two, c[2])
             /\ c[2] = y - 1 \/ c[2] = y => InLines(two, c[2])
  <2>1. c[2] \in Int
    BY SizeInt DEF Cells, Rows
  <2>2. InLines(t.lines, c[2]) => InLines(all, c[2]) /\ InLines(two, c[2])
    BY <1>2, <1>3, <2>1, LinesUnionCovers
  <2>3. c[2] = y - 1 \/ c[2] = y => InLines(L(y - 1, y + 1), c[2])
    BY <1>1, <2>1 DEF InLines, L
  <2>4. c[2] = y - 1 \/ c[2] = y => InLines(two, c[2])
    BY <1>2, <1>3, <2>1, <2>3, LinesUnionCovers
  <2> QED
    BY <2>1, <2>2, <2>4
<1>6. NewLine(t) = IF y = TtywHeight THEN PageOf(Shifted(t.buffer), <<0, y - 1>>, All, all)
                   ELSE PageOf(t.buffer, <<0, y>>, t.damage, two)
  BY NewLineIs
<1> HIDE DEF y, all, two
<1>7. CASE y = TtywHeight
  <2>1. NewLine(t) = PageOf(Shifted(t.buffer), <<0, y - 1>>, All, all)
    BY <1>6, <1>7
  <2>2. <<0, y - 1>> \in Cells /\ <<0, y - 1>> \in (0 .. TtywWidth) \X (0 .. TtywHeight)
    BY <1>1, SizeInt DEF Cells, Rows
  <2>3. NewLine(t) \in Page /\ NewLine(t).cursor = <<0, y - 1>>
        /\ NewLine(t).damage = All /\ NewLine(t).lines = all
    BY <1>2, <1>4, <2>1, <2>2, ShiftedType, AllContains, PageIs
  <2> QED
    BY <1>5, <2>2, <2>3, AllContains
<1>8. CASE y # TtywHeight
  <2>1. NewLine(t) = PageOf(t.buffer, <<0, y>>, t.damage, two)
    BY <1>6, <1>8
  <2>2. <<0, y>> \in Cells /\ <<0, y>> \in (0 .. TtywWidth) \X (0 .. TtywHeight)
    BY <1>1, <1>8, SizeInt DEF Cells, Rows
  <2>3. NewLine(t) \in Page /\ NewLine(t).cursor = <<0, y>> /\ NewLine(t).buffer = t.buffer
        /\ NewLine(t).damage = t.damage /\ NewLine(t).lines = two
    BY <1>2, <1>4, <2>1, <2>2, PageIs
  <2>4. \A c \in Cells : c = <<0, y>> => c[2] = y
    OBVIOUS
  <2> QED
    BY <1>1, <1>5, <2>2, <2>3, <2>4
<1> QED
  BY <1>7, <1>8

\* So does a character.
LEMMA WriteOneStep ==
  ASSUME NEW t \in Page, t.cursor \in Cells, NEW ch \in Written
  PROVE  LET r == WriteOne(t, ch)
         IN /\ r \in Page /\ r.cursor \in Cells
            /\ \A c \in Cells :
                  /\ RectContains(t.damage, c[1], c[2]) => RectContains(r.damage, c[1], c[2])
                  /\ InLines(t.lines, c[2]) => InLines(r.lines, c[2])
                  /\ \/ RectContains(r.damage, c[1], c[2])
                     \/ InLines(r.lines, c[2])
                     \/ /\ r.buffer[c[2]][c[1]] = t.buffer[c[2]][c[1]]
                        /\ c # t.cursor /\ c # r.cursor
<1> DEFINE x == t.cursor[1]
           y == t.cursor[2]
           b == Put(t.buffer, x, y, ch)
           one == LinesUnion(t.lines, L(y, y + 1))
<1>1. x \in Columns /\ y \in Rows /\ x \in Int /\ y \in Int /\ t.buffer \in Texts
      /\ t.damage \in Rect /\ t.lines \in Lines
  BY SizeInt DEF Page, Cells, Rows, Columns
<1>2. \A c \in Cells : c[2] \in Rows /\ (c = t.cursor => c[2] = y)
  BY DEF Cells
<1>3. \A z \in Rows : z # y => b[z] = t.buffer[z]
  BY <1>1 DEF Put, Texts
<1>4. CASE ch = Newline
  BY <1>1, <1>2, <1>4, NewLineStep, WriteOneIs
<1>5. CASE ch # Newline /\ x + 1 = TtywWidth
  <2> DEFINE q == PutPage(t, ch)
  <2>1. ch \in Chars
    BY <1>5 DEF Written
  <2>2. q \in Page /\ q.cursor[2] \in Rows
    BY <2>1, PutType
  <2>3. q.damage = t.damage /\ q.lines = t.lines /\ q.buffer = b /\ q.cursor = <<x + 1, y>>
    BY PageIs DEF PutPage
  <2>4. WriteOne(t, ch) = NewLine(q)
    BY <1>5, WriteOneIs
  <2>5. q.cursor[2] = y
    BY <2>3
  <2> HIDE DEF q, b, y, x
  <2> QED
    BY <1>2, <1>3, <2>2, <2>3, <2>4, <2>5, NewLineStep
<1>6. CASE ch # Newline /\ x + 1 # TtywWidth
  <2>1. ch \in Chars
    BY <1>6 DEF Written
  <2>2. b \in Texts
    BY <2>1, PutType
  <2>3. L(y, y + 1) \in Lines
    BY <1>1 DEF L, Lines
  <2>4. one \in Lines
    BY <1>1, <2>3, LinesType
  <2>5. <<x + 1, y>> \in Cells /\ <<x + 1, y>> \in (0 .. TtywWidth) \X (0 .. TtywHeight)
    <3>1. x + 1 \in Columns /\ x + 1 \in 0 .. TtywWidth /\ y \in 0 .. TtywHeight
      BY <1>1, <1>6, SizeInt DEF Columns, Rows
    <3> QED
      BY <1>1, <3>1 DEF Cells
  <2>6. WriteOne(t, ch) = PageOf(b, <<x + 1, y>>, t.damage, one)
    BY <1>6, WriteOneIs
  <2>7. WriteOne(t, ch) \in Page /\ WriteOne(t, ch).cursor = <<x + 1, y>> /\ WriteOne(t, ch).buffer = b
        /\ WriteOne(t, ch).damage = t.damage /\ WriteOne(t, ch).lines = one
    <3> HIDE DEF b, one
    <3> QED
      BY <1>1, <2>2, <2>4, <2>5, <2>6, PageIs
  <2>8. ASSUME NEW c \in Cells
        PROVE  /\ InLines(t.lines, c[2]) => InLines(one, c[2])
               /\ c[2] = y => InLines(one, c[2])
               /\ c = <<x + 1, y>> => c[2] = y
    <3>1. c[2] \in Int
      BY SizeInt DEF Cells, Rows
    <3>2. c[2] = y => InLines(L(y, y + 1), c[2])
      BY <1>1 DEF InLines, L
    <3> QED
      BY <1>1, <2>3, <3>1, <3>2, LinesUnionCovers
  <2> HIDE DEF b, one, x, y
  <2> QED
    BY <1>2, <1>3, <2>5, <2>7, <2>8
<1> QED
  BY <1>4, <1>5, <1>6

-----------------------------------------------------------------------------
(* The buffer and the paper *)

TopOf(p) == MaxI(Len(p) - TtywHeight, 0)

\* buffer b and cursor c show the last lines of p
Shows(b, c, p) ==
    /\ c = <<Len(p[Len(p)]), Len(p) - TopOf(p) - 1>>
    /\ \A x \in Columns, y \in Rows :
          LET i == TopOf(p) + y + 1
          IN b[y][x] = IF i <= Len(p) /\ x + 1 <= Len(p[i]) THEN p[i][x + 1] ELSE Blank

LEMMA TopIs ==
  ASSUME NEW p \in Papers
  PROVE  /\ Len(p) \in Nat \ {0} /\ TopOf(p) \in Nat
         /\ TopOf(p) = IF Len(p) > TtywHeight THEN Len(p) - TtywHeight ELSE 0
BY NewLinePaper, SizeInt DEF TopOf, MaxI

LEMMA PutShows ==
  ASSUME NEW b \in Texts, NEW c \in Cells, NEW p \in Papers, NEW ch \in Chars, Shows(b, c, p)
  PROVE  Shows(Put(b, c[1], c[2], ch), <<c[1] + 1, c[2]>>, [p EXCEPT ![Len(p)] = Append(Last(p), ch)])
<1> DEFINE n == Len(p)
           q == [p EXCEPT ![n] = Append(Last(p), ch)]
           k == Len(p[n])
           top == TopOf(p)
           new == Put(b, c[1], c[2], ch)
<1>1. /\ n \in Nat \ {0} /\ Last(p) = p[n] /\ p[n] \in Seq(Chars)
      /\ q \in Papers /\ Len(q) = n
      /\ \A i \in 1 .. n - 1 : q[i] = p[i]
      /\ q[n] = Append(p[n], ch)
  BY OnPaperIs
<1>2. /\ k \in Nat /\ Len(q[n]) = k + 1
      /\ \A i \in 1 .. k : q[n][i] = p[n][i]
      /\ q[n][k + 1] = ch
  <2>1. p[n] \in Seq(Chars) /\ q[n] = Append(p[n], ch)
    BY <1>1
  <2> HIDE DEF q
  <2> QED
    BY <2>1, AppendProperties, LenProperties
<1>3. top \in Nat /\ TopOf(q) = top
  BY <1>1, TopIs DEF TopOf
<1>4. c[1] = k /\ c[2] = n - top - 1 /\ c[1] \in Columns /\ c[2] \in Rows
  BY DEF Shows, Cells
<1> HIDE DEF n, q, k, top
<1>5. ASSUME NEW x \in Columns, NEW y \in Rows
      PROVE  new[y][x] = IF y = c[2] /\ x = c[1] THEN ch ELSE b[y][x]
  BY <1>4 DEF Put, Texts
<1>6. ASSUME NEW x \in Columns, NEW y \in Rows
      PROVE  b[y][x] = IF top + y + 1 <= n /\ x + 1 <= Len(p[top + y + 1]) THEN p[top + y + 1][x + 1] ELSE Blank
  BY DEF Shows, n, top
<1> HIDE DEF new
<1>7. ASSUME NEW x \in Columns, NEW y \in Rows
      PROVE  new[y][x] = IF top + y + 1 <= n /\ x + 1 <= Len(q[top + y + 1]) THEN q[top + y + 1][x + 1] ELSE Blank
  <2>1. x \in Int /\ y \in Int /\ 0 <= x /\ 0 <= y
    BY SizeInt DEF Columns, Rows
  <2>2. CASE y = c[2]
    <3>1. top + y + 1 = n
      BY <1>1, <1>3, <1>4, <2>1, <2>2
    <3>2. CASE x = c[1]
      <4>1. x + 1 = k + 1 /\ n <= n /\ k + 1 <= k + 1
        BY <1>1, <1>2, <1>4, <3>2
      <4>2. new[y][x] = ch
        BY <1>5, <2>2, <3>2
      <4> QED
        BY <1>2, <3>1, <4>1, <4>2
    <3>3. CASE x < c[1]
      <4>1. x + 1 \in 1 .. k /\ x + 1 <= k /\ x + 1 <= k + 1
        BY <1>2, <1>4, <2>1, <3>3
      <4>2. new[y][x] = p[n][x + 1]
        BY <1>1, <1>5, <1>6, <3>1, <3>3, <4>1, <1>4, <2>1 DEF k
      <4> QED
        BY <1>1, <1>2, <3>1, <4>1, <4>2
    <3>4. CASE x > c[1]
      <4>1. ~(x + 1 <= k) /\ ~(x + 1 <= k + 1)
        BY <1>2, <1>4, <2>1, <3>4
      <4>2. new[y][x] = Blank
        BY <1>1, <1>5, <1>6, <3>1, <3>4, <4>1, <1>4, <2>1 DEF k
      <4> QED
        BY <1>2, <3>1, <4>1, <4>2
    <3> QED
      BY <1>2, <1>4, <2>1, <3>2, <3>3, <3>4
  <2>3. CASE y # c[2]
    <3>1. top + y + 1 # n
      BY <1>1, <1>3, <1>4, <2>1, <2>3
    <3>2. top + y + 1 <= n => top + y + 1 \in 1 .. n - 1
      BY <1>1, <1>3, <2>1, <3>1
    <3>3. top + y + 1 <= n => q[top + y + 1] = p[top + y + 1]
      BY <1>1, <3>2
    <3> QED
      BY <1>5, <1>6, <2>3, <3>3
  <2> QED
    BY <2>2, <2>3
<1>8. <<c[1] + 1, c[2]>> = <<Len(q[Len(q)]), Len(q) - TopOf(q) - 1>>
  BY <1>1, <1>2, <1>3, <1>4
<1> QED
  BY <1>1, <1>3, <1>7, <1>8 DEF Shows, new, q, n

LEMMA NewLineShows ==
  ASSUME NEW b \in Texts, NEW c, c[2] \in Rows, NEW p \in Papers, Shows(b, c, p)
  PROVE  /\ c[2] + 1 = TtywHeight => Shows(Shifted(b), <<0, c[2]>>, Append(p, <<>>))
         /\ c[2] + 1 # TtywHeight => Shows(b, <<0, c[2] + 1>>, Append(p, <<>>))
<1> DEFINE n == Len(p)
           q == Append(p, <<>>)
           top == TopOf(p)
<1>1. /\ n \in Nat \ {0} /\ q \in Papers /\ Len(q) = n + 1
      /\ \A i \in 1 .. n : q[i] = p[i]
      /\ q[n + 1] = <<>> /\ Len(<<>>) = 0
  BY NewLinePaper
<1>2. top \in Nat /\ top = IF n > TtywHeight THEN n - TtywHeight ELSE 0
  BY TopIs
<1>3. TopOf(q) = IF n + 1 > TtywHeight THEN n + 1 - TtywHeight ELSE 0
  <2>1. q \in Papers /\ Len(q) = n + 1
    BY <1>1
  <2> DEFINE k == Len(q)
  <2> HIDE DEF q, n
  <2>2. TopOf(q) = IF k > TtywHeight THEN k - TtywHeight ELSE 0
    BY <2>1, TopIs
  <2>3. k = n + 1
    BY <2>1
  <2> HIDE DEF k
  <2> QED
    BY <1>1, <2>2, <2>3, SizeInt
<1>4. c[2] = n - top - 1 /\ c[2] \in 0 .. TtywHeight - 1
  BY DEF Shows, Rows
<1> HIDE DEF n, q, top
<1>5. ASSUME NEW x \in Columns, NEW y \in Rows
      PROVE  b[y][x] = IF top + y + 1 <= n /\ x + 1 <= Len(p[top + y + 1]) THEN p[top + y + 1][x + 1] ELSE Blank
  BY DEF Shows, n, top
<1>6. ASSUME c[2] + 1 = TtywHeight
      PROVE  Shows(Shifted(b), <<0, c[2]>>, q)
  <2>1. TopOf(q) = top + 1 /\ n - top = TtywHeight
    BY <1>1, <1>2, <1>3, <1>4, <1>6, SizeInt
  <2>2. ASSUME NEW x \in Columns, NEW y \in Rows
        PROVE  Shifted(b)[y][x] = IF TopOf(q) + y + 1 <= Len(q) /\ x + 1 <= Len(q[TopOf(q) + y + 1])
                                  THEN q[TopOf(q) + y + 1][x + 1] ELSE Blank
    <3>1. x \in Int /\ y \in Int /\ 0 <= x /\ 0 <= y /\ y < TtywHeight
      BY SizeInt DEF Columns, Rows
    <3>2. TopOf(q) + y + 1 = top + (y + 1) + 1
      BY <1>2, <2>1, <3>1
    <3>3. CASE y + 1 \in Rows
      <4>1. Shifted(b)[y][x] = b[y + 1][x]
        BY <3>3 DEF Shifted
      <4>2. y + 1 < TtywHeight
        BY <3>1, <3>3, SizeInt DEF Rows
      <4>3. top + (y + 1) + 1 <= n /\ top + (y + 1) + 1 <= n + 1 /\ top + (y + 1) + 1 \in 1 .. n
        BY <1>1, <1>2, <2>1, <3>1, <4>2, SizeInt
      <4>4. q[top + (y + 1) + 1] = p[top + (y + 1) + 1]
        BY <1>1, <4>3
      <4>5. b[y + 1][x] = IF top + (y + 1) + 1 <= n /\ x + 1 <= Len(p[top + (y + 1) + 1])
                          THEN p[top + (y + 1) + 1][x + 1] ELSE Blank
        BY <1>5, <3>3
      <4> QED
        BY <1>1, <3>2, <4>1, <4>3, <4>4, <4>5
    <3>4. CASE y + 1 \notin Rows
      <4>1. Shifted(b)[y][x] = Blank
        BY <3>4 DEF Shifted, BlankRow
      <4>2. top + (y + 1) + 1 = n + 1
        BY <1>1, <1>2, <2>1, <3>1, <3>4, SizeInt DEF Rows
      <4> QED
        BY <1>1, <3>1, <3>2, <4>1, <4>2
    <3> QED
      BY <3>3, <3>4
  <2>3. <<0, c[2]>> = <<Len(q[Len(q)]), Len(q) - TopOf(q) - 1>>
    BY <1>1, <1>2, <1>4, <2>1
  <2> QED
    BY <2>2, <2>3 DEF Shows
<1>7. ASSUME c[2] + 1 # TtywHeight
      PROVE  Shows(b, <<0, c[2] + 1>>, q)
  <2>1. TopOf(q) = 0 /\ top = 0 /\ n < TtywHeight
    BY <1>1, <1>2, <1>3, <1>4, <1>7, SizeInt
  <2>2. ASSUME NEW x \in Columns, NEW y \in Rows
        PROVE  b[y][x] = IF TopOf(q) + y + 1 <= Len(q) /\ x + 1 <= Len(q[TopOf(q) + y + 1])
                         THEN q[TopOf(q) + y + 1][x + 1] ELSE Blank
    <3>1. x \in Int /\ y \in Int /\ 0 <= x /\ 0 <= y /\ 0 + y + 1 = y + 1
      BY SizeInt DEF Columns, Rows
    <3>2. b[y][x] = IF y + 1 <= n /\ x + 1 <= Len(p[y + 1]) THEN p[y + 1][x + 1] ELSE Blank
      BY <1>5, <2>1, <3>1
    <3>3. CASE y + 1 <= n
      <4>1. y + 1 \in 1 .. n /\ y + 1 <= n + 1
        BY <1>1, <3>1, <3>3
      <4>2. q[y + 1] = p[y + 1]
        BY <1>1, <4>1
      <4> QED
        BY <1>1, <2>1, <3>1, <3>2, <3>3, <4>1, <4>2
    <3>4. CASE y + 1 = n + 1
      <4>1. ~(y + 1 <= n) /\ ~(x + 1 <= 0)
        BY <1>1, <3>1, <3>4
      <4>2. Len(q[y + 1]) = 0
        BY <1>1, <3>4
      <4> QED
        BY <1>1, <2>1, <3>1, <3>2, <4>1, <4>2
    <3>5. CASE ~(y + 1 <= n) /\ y + 1 # n + 1
      <4>1. ~(y + 1 <= n + 1)
        BY <1>1, <3>1, <3>5
      <4> QED
        BY <1>1, <2>1, <3>1, <3>2, <3>5, <4>1
    <3> QED
      BY <3>3, <3>4, <3>5
  <2>3. <<0, c[2] + 1>> = <<Len(q[Len(q)]), Len(q) - TopOf(q) - 1>>
    BY <1>1, <1>2, <1>4, <2>1
  <2> QED
    BY <2>2, <2>3 DEF Shows
<1> QED
  BY <1>6, <1>7 DEF q

\* write_one leaves in the buffer the last lines of what is written.
LEMMA WriteOneShows ==
  ASSUME NEW t \in Page, t.cursor \in Cells, NEW p \in Papers, NEW ch \in Written,
         Shows(t.buffer, t.cursor, p)
  PROVE  Shows(WriteOne(t, ch).buffer, WriteOne(t, ch).cursor, OnPaper(p, ch))
<1> DEFINE x == t.cursor[1]
           y == t.cursor[2]
<1>1. t.buffer \in Texts /\ x \in Columns /\ y \in Rows /\ x \in Int /\ y \in Int
  BY SizeInt DEF Page, Cells, Rows, Columns
<1>2. ASSUME NEW r \in Page, r.cursor[2] \in Rows, NEW q \in Papers, Shows(r.buffer, r.cursor, q)
      PROVE  Shows(NewLine(r).buffer, NewLine(r).cursor, Append(q, <<>>))
  <2> DEFINE z == r.cursor[2]
  <2>1. r.buffer \in Texts /\ z \in Int /\ z \in Rows
    BY <1>2, SizeInt DEF Page, Rows
  <2>2. NewLine(r) = IF z + 1 = TtywHeight
                     THEN PageOf(Shifted(r.buffer), <<0, (z + 1) - 1>>, All, LinesUnion(r.lines, L(0, TtywHeight)))
                     ELSE PageOf(r.buffer, <<0, z + 1>>, r.damage, LinesUnion(r.lines, L((z + 1) - 1, (z + 1) + 1)))
    BY <1>2, NewLineIs
  <2>3. (z + 1) - 1 = z
    BY <2>1
  <2>4. CASE z + 1 = TtywHeight
    <3>1. NewLine(r).buffer = Shifted(r.buffer) /\ NewLine(r).cursor = <<0, z>>
      BY <2>2, <2>3, <2>4, PageIs
    <3> QED
      BY <1>2, <2>1, <2>4, <3>1, NewLineShows
  <2>5. CASE z + 1 # TtywHeight
    <3>1. NewLine(r).buffer = r.buffer /\ NewLine(r).cursor = <<0, z + 1>>
      BY <2>2, <2>5, PageIs
    <3> QED
      BY <1>2, <2>1, <2>5, <3>1, NewLineShows
  <2> QED
    BY <2>4, <2>5
<1>3. CASE ch = Newline
  <2>1. WriteOne(t, ch) = NewLine(t) /\ OnPaper(p, ch) = Append(p, <<>>)
    BY <1>3, WriteOneIs DEF OnPaper
  <2> QED
    BY <1>1, <1>2, <2>1
<1>4. CASE ch # Newline
  <2> DEFINE q == [p EXCEPT ![Len(p)] = Append(Last(p), ch)]
             k == Len(Append(Last(p), ch))
             b == Put(t.buffer, x, y, ch)
  <2>1. ch \in Chars
    BY <1>4 DEF Written
  <2>2. q \in Papers /\ k = x + 1
    <3>1. /\ q \in Papers /\ Last(p) = p[Len(p)] /\ Last(p) \in Seq(Chars)
      BY <2>1, OnPaperIs
    <3>2. x = Len(p[Len(p)])
      BY DEF Shows
    <3>3. k = Len(Last(p)) + 1
      BY <2>1, <3>1, AppendProperties
    <3> QED
      BY <3>1, <3>2, <3>3
  <2>3. Shows(b, <<x + 1, y>>, q)
    BY <1>1, <2>1, PutShows
  <2>4. OnPaper(p, ch) = IF k = TtywWidth THEN Append(q, <<>>) ELSE q
    BY <1>4 DEF OnPaper
  <2>5. CASE x + 1 = TtywWidth
    <3> DEFINE r == PutPage(t, ch)
    <3>1. r \in Page /\ r.cursor[2] \in Rows
      BY <2>1, PutType
    <3>2. r.buffer = b /\ r.cursor = <<x + 1, y>>
      BY PageIs DEF PutPage
    <3>3. WriteOne(t, ch) = NewLine(r)
      BY <1>4, <2>5, WriteOneIs
    <3> HIDE DEF r, b, q, k
    <3>4. Shows(r.buffer, r.cursor, q)
      BY <2>3, <3>2
    <3>5. Shows(NewLine(r).buffer, NewLine(r).cursor, Append(q, <<>>))
      BY <1>2, <2>2, <3>1, <3>4
    <3> QED
      BY <2>2, <2>4, <2>5, <3>3, <3>5
  <2>6. CASE x + 1 # TtywWidth
    <3> DEFINE l == LinesUnion(t.lines, L(y, y + 1))
    <3>1. WriteOne(t, ch).buffer = b /\ WriteOne(t, ch).cursor = <<x + 1, y>>
      <4>1. WriteOne(t, ch) = PageOf(b, <<x + 1, y>>, t.damage, l)
        BY <1>4, <2>6, WriteOneIs
      <4> HIDE DEF b, l
      <4> QED
        BY <4>1, PageIs
    <3> HIDE DEF b, q, k
    <3> QED
      BY <2>2, <2>3, <2>4, <2>6, <3>1
  <2> QED
    BY <2>5, <2>6
<1> QED
  BY <1>3, <1>4

-----------------------------------------------------------------------------
(* Writing a text *)

\* The paper of two texts goes on from that of the first.
LEMMA PaperOn ==
  ASSUME NEW s \in Seq(Written), NEW r \in Seq(Written)
  PROVE  \E v \in [0 .. Len(r) -> Papers] :
            /\ v[0] = PaperOf(s) /\ v[Len(r)] = PaperOf(s \o r)
            /\ \A i \in 1 .. Len(r) : v[i] = OnPaper(v[i - 1], r[i])
<1> DEFINE w == s \o r
           m == Len(s)
           k == Len(r)
           n == Len(w)
           g == [p \in Papers |-> [i \in 1 .. m |-> OnPaper(p, s[i])]]
           h == [p \in Papers |-> [i \in 1 .. n |-> OnPaper(p, w[i])]]
           d == << <<>> >>
<1>1. /\ m \in Nat /\ k \in Nat /\ w \in Seq(Written) /\ n = m + k
      /\ \A i \in 1 .. m : w[i] = s[i]
      /\ \A i \in 1 .. k : w[m + i] = r[i]
  <2>1. /\ w \in Seq(Written) /\ n = m + k
        /\ \A i \in 1 .. m + k : w[i] = IF i <= m THEN s[i] ELSE r[i - m]
    BY ConcatProperties
  <2>2. m \in Nat /\ k \in Nat
    BY LenProperties
  <2> HIDE DEF w, m, k, n
  <2>3. ASSUME NEW i \in 1 .. m PROVE w[i] = s[i]
    BY <2>1, <2>2
  <2>4. ASSUME NEW i \in 1 .. k PROVE w[m + i] = r[i]
    <3>1. m + i \in 1 .. m + k /\ ~(m + i <= m) /\ (m + i) - m = i
      BY <2>2
    <3> QED
      BY <2>1, <3>1
  <2> QED
    BY <2>1, <2>2, <2>3, <2>4
<1>2. PICK u \in [0 .. n -> Papers] : Runs(u, n, d, h) /\ PaperOf(w) = u[n]
  BY <1>1, PaperRun
<1>3. PICK v \in [0 .. m -> Papers] : Runs(v, m, d, g) /\ PaperOf(s) = v[m]
  BY PaperRun
<1>4. \A p \in Papers : \A i \in 1 .. n : h[p][i] = OnPaper(p, w[i])
  OBVIOUS
<1>5. \A p \in Papers : \A i \in 1 .. m : g[p][i] = OnPaper(p, s[i])
  OBVIOUS
<1> HIDE DEF g, h, d, w, n, m, k
<1>6. u[m] = PaperOf(s)
  <2>1. Runs(u, m, d, g)
    <3>1. ASSUME NEW i \in 1 .. m PROVE u[i] = g[u[i - 1]][i]
      <4>1. i \in 1 .. n /\ i - 1 \in 0 .. n
        BY <1>1
      <4>2. u[i - 1] \in Papers
        BY <4>1
      <4>3. u[i] = h[u[i - 1]][i]
        BY <1>2, <4>1 DEF Runs
      <4> QED
        BY <1>1, <1>4, <1>5, <4>1, <4>2, <4>3
    <3> QED
      BY <1>2, <3>1 DEF Runs
  <2>2. \A i \in 0 .. m : u[i] = v[i]
    BY <1>1, <1>3, <2>1, RunUnique
  <2> QED
    BY <1>1, <1>3, <2>2
<1>7. ASSUME NEW i \in 1 .. k PROVE u[m + i] = OnPaper(u[m + (i - 1)], r[i])
  <2>1. m + i \in 1 .. n /\ m + (i - 1) \in 0 .. n /\ (m + i) - 1 = m + (i - 1)
    BY <1>1
  <2>2. u[m + (i - 1)] \in Papers
    BY <2>1
  <2>3. u[m + i] = h[u[m + (i - 1)]][m + i]
    BY <1>2, <2>1 DEF Runs
  <2> QED
    BY <1>1, <1>4, <2>1, <2>2, <2>3
<1> DEFINE q == [i \in 0 .. k |-> u[m + i]]
<1>8. q \in [0 .. k -> Papers]
  <2>1. \A i \in 0 .. k : m + i \in 0 .. n
    BY <1>1
  <2> QED
    BY <2>1
<1>9. q[0] = PaperOf(s) /\ q[k] = PaperOf(w)
  <2>1. 0 \in 0 .. k /\ k \in 0 .. k /\ m + 0 = m /\ m + k = n
    BY <1>1
  <2> QED
    BY <1>2, <1>6, <2>1
<1>10. \A i \in 1 .. k : q[i] = OnPaper(q[i - 1], r[i])
  <2>1. \A i \in 1 .. k : i \in 0 .. k /\ i - 1 \in 0 .. k
    BY <1>1
  <2> QED
    BY <1>7, <2>1
<1> HIDE DEF q
<1> QED
  BY <1>8, <1>9, <1>10 DEF w, k

Begun == {t \in Page : t.cursor \in Cells}

\* write calls write_one for every character in turn.
LEMMA WriteRun ==
  ASSUME NEW e \in Begun, NEW str \in Seq(Written)
  PROVE  LET r == CHOOSE t : t = [i \in 0 .. Len(str) |-> IF i = 0 THEN e ELSE WriteOne(t[i - 1], str[i])]
         IN /\ r[0] = e
            /\ \A i \in 1 .. Len(str) : r[i] = WriteOne(r[i - 1], str[i])
            /\ \A i \in 0 .. Len(str) : r[i] \in Begun
<1> DEFINE n == Len(str)
           W(t) == [i \in 0 .. n |-> IF i = 0 THEN e ELSE WriteOne(t[i - 1], str[i])]
           r == CHOOSE t : t = W(t)
           g == [t \in Begun |-> [i \in 1 .. n |-> WriteOne(t, str[i])]]
<1>1. n \in Nat /\ \A i \in 1 .. n : str[i] \in Written
  BY LenProperties
<1> HIDE DEF n
<1>2. \A t \in Begun : \A i \in 1 .. n : g[t][i] = WriteOne(t, str[i]) /\ g[t][i] \in Begun
  BY <1>1, WriteOneStep DEF Begun
<1> HIDE DEF g
<1>3. PICK u \in [0 .. n -> Begun] : Runs(u, n, e, g)
  BY <1>1, <1>2, RunExists
<1>4. u = W(u)
  <2>1. ASSUME NEW i \in 0 .. n, i # 0 PROVE u[i] = WriteOne(u[i - 1], str[i])
    <3>1. i \in 1 .. n /\ i - 1 \in 0 .. n
      BY <1>1, <2>1
    <3> QED
      BY <1>2, <1>3, <3>1 DEF Runs
  <2> QED
    BY <1>3, <2>1 DEF Runs
<1> HIDE DEF W
<1>5. r = W(r)
  BY <1>4
<1> HIDE DEF r
<1>6. r[0] = e
  BY <1>1, <1>5 DEF W
<1>7. ASSUME NEW i \in 1 .. n PROVE r[i] = WriteOne(r[i - 1], str[i])
  <2>1. i \in 0 .. n /\ i # 0
    BY <1>1
  <2> QED
    BY <1>5, <2>1 DEF W
<1>8. \A i \in 0 .. n : r[i] \in Begun
  <2> DEFINE T == {m \in 0 .. n : r[m] \notin Begun}
  <2>1. CASE T = {}
    BY <2>1
  <2>2. CASE T # {}
    <3>1. T \subseteq Nat
      OBVIOUS
    <3> HIDE DEF T
    <3>2. PICK m \in T : \A k \in T : m <= k
      BY <2>2, <3>1, Least
    <3>3. m \in 0 .. n /\ r[m] \notin Begun
      BY DEF T
    <3>4. m # 0
      BY <1>6, <3>3
    <3>5. m - 1 \in 0 .. n /\ m - 1 \notin T /\ m \in 1 .. n
      BY <1>1, <3>2, <3>3, <3>4
    <3>6. r[m - 1] \in Begun
      BY <3>5 DEF T
    <3> QED
      BY <1>2, <1>7, <3>3, <3>5, <3>6
  <2> QED
    BY <2>1, <2>2
<1> QED
  BY <1>6, <1>7, <1>8 DEF r, W, n

\* After a text the buffer shows the paper, and what the text has changed is
\* damaged or among the lines to report.
LEMMA WriteShows ==
  ASSUME NEW e \in Begun, NEW str \in Seq(Written), NEW s \in Seq(Written), NEW r,
         r[0] = e,
         \A i \in 1 .. Len(str) : r[i] = WriteOne(r[i - 1], str[i]),
         \A i \in 0 .. Len(str) : r[i] \in Begun,
         Shows(e.buffer, e.cursor, PaperOf(s))
  PROVE  LET t == r[Len(str)]
         IN /\ Shows(t.buffer, t.cursor, PaperOf(s \o str))
            /\ \A c \in Cells :
                  \/ RectContains(t.damage, c[1], c[2])
                  \/ InLines(t.lines, c[2])
                  \/ /\ ~RectContains(e.damage, c[1], c[2])
                     /\ t.buffer[c[2]][c[1]] = e.buffer[c[2]][c[1]]
                     /\ c = t.cursor <=> c = e.cursor
<1> DEFINE n == Len(str)
           Kept(t, c) == /\ ~RectContains(e.damage, c[1], c[2])
                         /\ t.buffer[c[2]][c[1]] = e.buffer[c[2]][c[1]]
                         /\ c = t.cursor <=> c = e.cursor
           Ok(t) == \A c \in Cells : \/ RectContains(t.damage, c[1], c[2])
                                     \/ InLines(t.lines, c[2])
                                     \/ Kept(t, c)
<1>1. n \in Nat /\ \A i \in 1 .. n : str[i] \in Written
  BY LenProperties
<1>2. PICK v \in [0 .. n -> Papers] :
         /\ v[0] = PaperOf(s) /\ v[n] = PaperOf(s \o str)
         /\ \A i \in 1 .. n : v[i] = OnPaper(v[i - 1], str[i])
  BY PaperOn
<1> HIDE DEF n
<1>3. ASSUME NEW i \in 1 .. n, Shows(r[i - 1].buffer, r[i - 1].cursor, v[i - 1]), Ok(r[i - 1])
      PROVE  Shows(r[i].buffer, r[i].cursor, v[i]) /\ Ok(r[i])
  <2> DEFINE t == r[i - 1]
             p == v[i - 1]
             ch == str[i]
  <2>1. t \in Page /\ t.cursor \in Cells /\ p \in Papers /\ ch \in Written
        /\ r[i] = WriteOne(t, ch) /\ v[i] = OnPaper(p, ch)
    <3>1. i - 1 \in 0 .. n
      BY <1>1
    <3> QED
      BY <1>1, <1>2, <3>1 DEF Begun, n
  <2>2. Shows(t.buffer, t.cursor, p) /\ Ok(t)
    BY <1>3
  <2> HIDE DEF t, p, ch, Ok
  <2>3. Shows(r[i].buffer, r[i].cursor, v[i])
    BY <2>1, <2>2, WriteOneShows
  <2>4. Ok(r[i])
    <3>1. ASSUME NEW c \in Cells
          PROVE  \/ RectContains(r[i].damage, c[1], c[2])
                 \/ InLines(r[i].lines, c[2])
                 \/ Kept(r[i], c)
      <4>1. \/ RectContains(t.damage, c[1], c[2])
            \/ InLines(t.lines, c[2])
            \/ Kept(t, c)
        BY <2>2 DEF Ok
      <4>2. /\ RectContains(t.damage, c[1], c[2]) => RectContains(r[i].damage, c[1], c[2])
            /\ InLines(t.lines, c[2]) => InLines(r[i].lines, c[2])
            /\ \/ RectContains(r[i].damage, c[1], c[2])
               \/ InLines(r[i].lines, c[2])
               \/ /\ r[i].buffer[c[2]][c[1]] = t.buffer[c[2]][c[1]]
                  /\ c # t.cursor /\ c # r[i].cursor
        BY <2>1, WriteOneStep
      <4> QED
        BY <4>1, <4>2
    <3> QED
      BY <3>1 DEF Ok
  <2> QED
    BY <2>3, <2>4
<1>4. Shows(r[0].buffer, r[0].cursor, v[0]) /\ Ok(r[0])
  BY <1>2
<1> HIDE DEF Ok
<1>5. Shows(r[n].buffer, r[n].cursor, v[n]) /\ Ok(r[n])
  <2> DEFINE Has(i) == Shows(r[i].buffer, r[i].cursor, v[i]) /\ Ok(r[i])
             T == {m \in 0 .. n : ~Has(m)}
  <2>1. CASE T = {}
    <3>1. n \in 0 .. n
      BY <1>1
    <3> HIDE DEF Has
    <3>2. Has(n)
      BY <2>1, <3>1
    <3> QED
      BY <3>2 DEF Has
  <2>2. CASE T # {}
    <3>1. T \subseteq Nat
      OBVIOUS
    <3> HIDE DEF T
    <3>2. PICK m \in T : \A k \in T : m <= k
      BY <2>2, <3>1, Least
    <3>3. m \in 0 .. n /\ ~Has(m)
      BY DEF T
    <3>4. m # 0
      BY <1>4, <3>3
    <3>5. m - 1 \in 0 .. n /\ m - 1 \notin T /\ m \in 1 .. n
      BY <1>1, <3>2, <3>3, <3>4
    <3>6. Has(m - 1)
      BY <3>5 DEF T
    <3> QED
      BY <1>3, <3>3, <3>5, <3>6
  <2> QED
    BY <2>1, <2>2
<1> QED
  BY <1>2, <1>5 DEF Ok, n

-----------------------------------------------------------------------------
(* The invariant *)

LEMMA UnionType ==
  ASSUME NEW r1 \in Rect, NEW r2 \in Rect
  PROVE  RectUnion(r1, r2) \in Rect
BY DEF RectUnion, R, Rect, MinI, MaxI

\* rect_union covers both rectangles.
LEMMA UnionCovers ==
  ASSUME NEW r1 \in Rect, NEW r2 \in Rect, NEW x \in Int, NEW y \in Int,
         RectContains(r1, x, y) \/ RectContains(r2, x, y)
  PROVE  RectContains(RectUnion(r1, r2), x, y)
<1> DEFINE a == MinI(r1.x, r2.x)
           b == MinI(r1.y, r2.y)
           w == MaxI(r1.x + r1.w, r2.x + r2.w) - a
           h == MaxI(r1.y + r1.h, r2.y + r2.h) - b
<1>1. /\ r1.x \in Int /\ r1.y \in Int /\ r1.w \in Int /\ r1.h \in Int
      /\ r2.x \in Int /\ r2.y \in Int /\ r2.w \in Int /\ r2.h \in Int
  BY DEF Rect
<1>2. /\ (r2.w = 0 \/ r2.h = 0 => ~RectContains(r2, x, y))
      /\ (r1.w = 0 \/ r1.h = 0 => ~RectContains(r1, x, y))
  BY <1>1 DEF RectContains
<1>3. a <= x /\ x < a + w /\ b <= y /\ y < b + h
  BY <1>1 DEF RectContains, MinI, MaxI
<1>4. RectContains(R(a, b, w, h), x, y)
  BY <1>3 DEF RectContains, R
<1> QED
  BY <1>2, <1>4 DEF RectUnion

\* The buffer shows the paper of what was written, and what is not shown yet
\* is damaged.
IInv ==
    /\ TypeOK
    /\ text \in Seq(Written)
    /\ Shows(buffer, cursor, PaperOf(text))
    /\ ChangesPainted

LEMMA PaperType ==
  ASSUME NEW s \in Seq(Written)
  PROVE  PaperOf(s) \in Papers
<1>1. Len(s) \in Nat /\ Len(s) \in 0 .. Len(s)
  BY LenProperties
<1> QED
  BY <1>1, PaperRun

LEMMA IInvLines == IInv => LastLines
<1> SUFFICES ASSUME IInv PROVE LastLines
  OBVIOUS
<1> DEFINE p == PaperOf(text)
           n == Len(p)
<1>1. p \in Papers /\ Paper = p
  BY PaperType DEF IInv, PaperOf, Paper
<1>2. Shows(buffer, cursor, p) /\ TypeOK
  BY DEF IInv
<1> HIDE DEF p
<1>3. Last(p) = p[n]
  BY DEF Last
<1>4. MaxI(n - TtywHeight, 0) = TopOf(p)
  BY DEF TopOf
<1>5. \A c \in Cells : c[1] \in Columns /\ c[2] \in Rows
  BY DEF Cells
<1> QED
  BY <1>1, <1>2, <1>3, <1>4, <1>5 DEF LastLines, Shows

LEMMA CellInt == \A c \in Cells : c[1] \in Int /\ c[2] \in Int /\ c[1] \in Columns /\ c[2] \in Rows
BY SizeInt DEF Cells, Columns, Rows

LEMMA InitIInv == Init => IInv
<1> SUFFICES ASSUME Init PROVE IInv
  OBVIOUS
<1>1. /\ buffer = [y \in Rows |-> [x \in Columns |-> Blank]] /\ cursor = <<0, 0>> /\ box = Outside
      /\ damage = All /\ text = <<>>
      /\ shown = [c \in Cells |-> [ch |-> Blank, cursor |-> FALSE, box |-> FALSE]]
  BY DEF Init
<1>2. buffer \in [Rows -> [Columns -> Chars \union {Blank}]]
  BY <1>1
<1>3. cursor \in Cells
  BY <1>1, SizeInt DEF Cells, Rows, Columns
<1>4. Len(text) <= MaxText
  BY <1>1, TextAssumption
<1>5. TypeOK
  BY <1>1, <1>2, <1>3, <1>4, AllContains DEF TypeOK
<1>6. text \in Seq(Written)
  BY <1>1, EmptySeq
<1>7. Shows(buffer, cursor, PaperOf(text))
  <2> DEFINE p == << <<>> >>
  <2>1. p \in Papers /\ PaperOf(text) = p /\ Len(p) = 1 /\ p[1] = <<>> /\ Len(<<>>) = 0
    BY <1>1, PaperBegins
  <2> HIDE DEF p
  <2>2. TopOf(p) = 0
    BY <2>1, SizeInt DEF TopOf, MaxI
  <2>3. ASSUME NEW x \in Columns, NEW y \in Rows
        PROVE  buffer[y][x] = Blank /\ ~(0 + y + 1 <= 1 /\ x + 1 <= Len(p[0 + y + 1]))
    <3>1. x \in Int /\ y \in Int /\ 0 <= x /\ 0 <= y
      BY SizeInt DEF Columns, Rows
    <3>2. 0 + y + 1 <= 1 => 0 + y + 1 = 1
      BY <3>1
    <3>3. ~(x + 1 <= 0)
      BY <3>1
    <3> QED
      BY <1>1, <2>1, <3>2, <3>3
  <2>4. cursor = <<Len(p[Len(p)]), Len(p) - TopOf(p) - 1>>
    BY <1>1, <2>1, <2>2
  <2>5. Shows(buffer, cursor, p)
    BY <2>1, <2>2, <2>3, <2>4 DEF Shows
  <2> QED
    BY <2>1, <2>5
<1>8. ChangesPainted
  BY <1>1, AllContains DEF ChangesPainted
<1> QED
  BY <1>5, <1>6, <1>7, <1>8 DEF IInv

\* The lines written are reported, and those a new line has scrolled are
\* damaged.
LEMMA WriteIInv ==
  ASSUME IInv, NEW str \in Seq(Written), Write(str)
  PROVE  IInv'
<1> DEFINE n == Len(str)
           e == PageOf(buffer, cursor, damage, L(0, 0))
           r == CHOOSE t : t = [i \in 0 .. n |-> IF i = 0 THEN e ELSE WriteOne(t[i - 1], str[i])]
           t == r[n]
<1>1. n \in Nat /\ text \in Seq(Written) /\ Len(text) \in Nat
  BY LenProperties DEF IInv
<1>2. /\ buffer \in Texts /\ cursor \in Cells /\ damage \in Rect
  BY DEF IInv, TypeOK, Texts
<1>3. e \in Begun /\ e.buffer = buffer /\ e.cursor = cursor /\ e.damage = damage
  <2>1. L(0, 0) \in Lines
    BY DEF L, Lines
  <2>2. cursor \in (0 .. TtywWidth) \X (0 .. TtywHeight)
    BY <1>2, SizeInt DEF Cells, Columns, Rows
  <2> QED
    BY <1>2, <2>1, <2>2, PageIs DEF Begun
<1>4. /\ Len(text) + n <= MaxText
      /\ buffer' = t.buffer /\ cursor' = t.cursor
      /\ damage' = RectUnion(t.damage, LinesRect(t.lines))
      /\ text' = text \o str /\ box' = box /\ shown' = shown
  BY DEF Write, PageOf
<1> HIDE DEF e
<1>5. /\ r[0] = e
      /\ \A i \in 1 .. n : r[i] = WriteOne(r[i - 1], str[i])
      /\ \A i \in 0 .. n : r[i] \in Begun
  BY <1>3, WriteRun
<1> HIDE DEF r
<1>6. Shows(e.buffer, e.cursor, PaperOf(text))
  BY <1>3 DEF IInv
<1>7. /\ Shows(t.buffer, t.cursor, PaperOf(text \o str))
      /\ \A c \in Cells :
            \/ RectContains(t.damage, c[1], c[2])
            \/ InLines(t.lines, c[2])
            \/ /\ ~RectContains(e.damage, c[1], c[2])
               /\ t.buffer[c[2]][c[1]] = e.buffer[c[2]][c[1]]
               /\ c = t.cursor <=> c = e.cursor
  BY <1>1, <1>3, <1>5, <1>6, WriteShows
<1>8. t \in Page /\ t.cursor \in Cells /\ t.buffer \in Texts /\ t.damage \in Rect /\ t.lines \in Lines
  <2>1. n \in 0 .. n
    BY <1>1
  <2>2. t \in Begun
    BY <1>5, <2>1
  <2> HIDE DEF t
  <2> QED
    BY <2>2 DEF Begun, Page
<1> HIDE DEF t, n
<1>9. text \o str \in Seq(Written) /\ Len(text \o str) = Len(text) + n
  BY <1>1, ConcatProperties DEF n
<1>10. TypeOK'
  <2>1. damage' \in Rect
    BY <1>4, <1>8, AllContains, UnionType
  <2> QED
    BY <1>4, <1>8, <1>9, <2>1 DEF IInv, TypeOK, Texts
<1>11. ChangesPainted'
  <2>1. ASSUME NEW c \in Cells, ~RectContains(damage', c[1], c[2])
        PROVE  /\ shown'[c].ch = Content(c)'.ch /\ shown'[c].cursor = Content(c)'.cursor
               /\ Content(c)'.box => shown'[c].box
    <3>1. c[1] \in Int /\ c[2] \in Int
      BY CellInt
    <3>2. ~RectContains(t.damage, c[1], c[2]) /\ ~RectContains(LinesRect(t.lines), c[1], c[2])
      BY <1>4, <1>8, <2>1, <3>1, AllContains, UnionCovers
    <3>3. ~InLines(t.lines, c[2])
      BY <1>8, <3>2, AllContains
    <3>4. /\ ~RectContains(damage, c[1], c[2])
          /\ t.buffer[c[2]][c[1]] = buffer[c[2]][c[1]]
          /\ c = t.cursor <=> c = cursor
      BY <1>3, <1>7, <3>2, <3>3
    <3>5. /\ shown[c].ch = Content(c).ch /\ shown[c].cursor = Content(c).cursor
          /\ Content(c).box => shown[c].box
      BY <3>4 DEF IInv, ChangesPainted
    <3>6. (c = cursor') = (c = cursor)
      BY <1>4, <3>4
    <3>7. /\ Content(c)'.ch = Content(c).ch /\ Content(c)'.cursor = Content(c).cursor
          /\ Content(c)'.box = Content(c).box
      BY <1>4, <3>4, <3>6 DEF Content
    <3> QED
      BY <1>4, <3>5, <3>7
  <2> QED
    BY <2>1 DEF ChangesPainted
<1> QED
  BY <1>4, <1>7, <1>9, <1>10, <1>11 DEF IInv

LEMMA TtyPutsIInv ==
  ASSUME IInv, TtyPuts
  PROVE  IInv'
<1>1. PICK n \in 0 .. MaxPuts : \E str \in [1 .. n -> Chars \union {Newline}] : Write(str)
  BY DEF TtyPuts
<1>2. PICK str \in [1 .. n -> Written] : Write(str)
  BY <1>1 DEF Written
<1>3. n \in Nat
  BY TextAssumption
<1>4. str \in Seq(Written)
  BY <1>3, SeqDef
<1> QED
  BY <1>2, <1>4, WriteIInv

LEMMA WmCharIInv ==
  ASSUME IInv, WmChar
  PROVE  IInv'
<1>1. PICK ch \in Written : Write(<<ch>>)
  BY DEF WmChar, Written
<1>2. <<ch>> \in Seq(Written)
  OBVIOUS
<1> QED
  BY <1>1, <1>2, WriteIInv

\* The box moves: the cell it comes to is damaged.
LEMMA WmMouseIInv ==
  ASSUME IInv, WmMouse
  PROVE  IInv'
<1>1. PICK m \in Cells :
        /\ box' = m
        /\ damage' = RectUnion(damage, R(m[1], m[2], 1, 1))
        /\ UNCHANGED <<buffer, cursor, shown, text>>
  BY DEF WmMouse
<1>2. m[1] \in Int /\ m[2] \in Int /\ damage \in Rect /\ R(m[1], m[2], 1, 1) \in Rect
  BY CellInt DEF IInv, TypeOK, R, Rect
<1>3. TypeOK'
  <2>1. damage' \in Rect
    BY <1>1, <1>2, UnionType
  <2> QED
    BY <1>1, <2>1 DEF IInv, TypeOK
<1>4. ChangesPainted'
  <2>1. ASSUME NEW c \in Cells, ~RectContains(damage', c[1], c[2])
        PROVE  /\ shown'[c].ch = Content(c)'.ch /\ shown'[c].cursor = Content(c)'.cursor
               /\ Content(c)'.box => shown'[c].box
    <3>1. c[1] \in Int /\ c[2] \in Int
      BY CellInt
    <3>2. ~RectContains(damage, c[1], c[2]) /\ ~RectContains(R(m[1], m[2], 1, 1), c[1], c[2])
      BY <1>1, <1>2, <2>1, <3>1, UnionCovers
    <3>3. c # m
      BY <1>2, <3>2 DEF RectContains, R
    <3>4. /\ shown[c].ch = Content(c).ch /\ shown[c].cursor = Content(c).cursor
      BY <3>2 DEF IInv, ChangesPainted
    <3>5. /\ Content(c)'.ch = Content(c).ch /\ Content(c)'.cursor = Content(c).cursor
          /\ ~Content(c)'.box
      BY <1>1, <3>3 DEF Content
    <3> QED
      BY <1>1, <3>4, <3>5
  <2> QED
    BY <2>1 DEF ChangesPainted
<1> QED
  BY <1>1, <1>3, <1>4 DEF IInv

\* Painting brings the damaged cells up to date.
LEMMA WmPaintIInv ==
  ASSUME IInv, WmPaint
  PROVE  IInv'
<1>1. /\ shown' = [c \in Cells |-> IF RectContains(damage, c[1], c[2]) THEN Content(c) ELSE shown[c]]
      /\ damage' = R(0, 0, 0, 0)
      /\ UNCHANGED <<buffer, cursor, box, text>>
  BY DEF WmPaint
<1>2. TypeOK'
  <2>1. damage' \in Rect
    BY <1>1 DEF R, Rect
  <2> QED
    BY <1>1, <2>1 DEF IInv, TypeOK
<1>3. ChangesPainted'
  <2>1. ASSUME NEW c \in Cells
        PROVE  /\ shown'[c].ch = Content(c)'.ch /\ shown'[c].cursor = Content(c)'.cursor
               /\ Content(c)'.box => shown'[c].box
    <3>1. Content(c)' = Content(c)
      BY <1>1 DEF Content
    <3>2. CASE RectContains(damage, c[1], c[2])
      BY <1>1, <3>1, <3>2
    <3>3. CASE ~RectContains(damage, c[1], c[2])
      BY <1>1, <3>1, <3>3 DEF IInv, ChangesPainted
    <3> QED
      BY <3>2, <3>3
  <2> QED
    BY <2>1 DEF ChangesPainted
<1> QED
  BY <1>1, <1>2, <1>3 DEF IInv

\* IInv is an inductive invariant: it holds at the start, and every text,
\* movement of the box and painting preserves it.
THEOREM Inductive == Spec => []IInv
<1>1. IInv /\ [Next]_vars => IInv'
  <2> SUFFICES ASSUME IInv, [Next]_vars PROVE IInv'
    OBVIOUS
  <2>1. CASE TtyPuts
    BY <2>1, TtyPutsIInv
  <2>2. CASE WmChar
    BY <2>2, WmCharIInv
  <2>3. CASE WmMouse
    BY <2>3, WmMouseIInv
  <2>4. CASE WmPaint
    BY <2>4, WmPaintIInv
  <2>5. CASE UNCHANGED vars
    BY <2>5 DEF IInv, TypeOK, ChangesPainted, Content, vars
  <2> QED
    BY <2>1, <2>2, <2>3, <2>4, <2>5 DEF Next
<1> QED
  BY InitIInv, <1>1, PTL DEF Spec

\* The buffer shows the last lines of all that was written and the cursor is
\* behind the last character, however texts are broken, wrapped and scrolled.
\* (write_one, newline and scroll.)
THEOREM TextRight == Spec => []LastLines
BY Inductive, IInvLines, PTL

\* Every cell that does not show its character, the cursor or the box is
\* damaged, whatever a text did before it reported its lines.
\* (tty_window_write and invalidate_lines.)
THEOREM ChangesShown == Spec => []ChangesPainted
<1>1. IInv => ChangesPainted
  BY DEF IInv
<1> QED
  BY <1>1, Inductive, PTL
=============================================================================
