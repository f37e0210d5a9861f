-------------------------- MODULE Terminal_proofs --------------------------
(***************************************************************************)
(* Theorems about Terminal, for any size of the screen, any writers and    *)
(* any strings.                                                            *)
(***************************************************************************)
EXTENDS Terminal, WellFoundedInduction, NaturalsInduction, TLAPS

\* The cursor as position() leaves it.
Cursors == [pos : (0 .. U16 - 1) \X (1 .. Height - 1), saved_pos : (0 .. U16 - 1) \X (1 .. Height - 1)]
Terminals == [d : Displays, c : Cursors, k : ColorState]

\* The columns a cursor has until an unchecked build wraps.
OnScreen(t) == t.c.pos[1] <= Width /\ t.c.saved_pos[1] <= Width

\* The status bar is visible only where it is also in the buffered picture, since
\* flush() shows what is buffered.
Barred(d) == \A x \in 0 .. Width - 1 : d.target[<<x, 0>>] = Status => d.lfb[<<x, 0>>] = Status

KeepsBar(d, e) ==
  \A x \in 0 .. Width - 1 : /\ d.lfb[<<x, 0>>] = Status => e.lfb[<<x, 0>>] = Status
                            /\ d.target[<<x, 0>>] = Status => e.target[<<x, 0>>] = Status

\* Drawing takes display d to display e.
Draws(d, e) == e \in Displays /\ Barred(e) /\ KeepsBar(d, e)

-----------------------------------------------------------------------------
(***************************************************************************)
(* The picture.                                                            *)
(***************************************************************************)
\* Cells and the status bar's row.
LEMMA CellFacts ==
  /\ \A x \in 0 .. Width - 1 : <<x, 0>> \in Cells
  /\ \A p \in Cells : p = <<p[1], p[2]>> /\ p[1] \in 0 .. Width - 1 /\ p[2] \in 0 .. Height - 1
  /\ \A p \in Cells : p[2] = 0 => \E x \in 0 .. Width - 1 : p = <<x, 0>>
  /\ Width \in Nat \ {0} /\ Height \in Nat \ {0, 1}
BY TerminalAssumption DEF Cells

\* What is drawn is made of glyphs.
LEMMA GlyphFacts ==
  /\ Status \in Glyphs
  /\ \A g \in Colors : Blank(g) \in Glyphs
  /\ \A g \in Glyphs : Picture(g) \in Glyphs
  /\ \A k \in ColorState, v \in Values : Character(v, k) \in Glyphs
  /\ \A g \in Glyphs : [g EXCEPT !.value = CURSOR] \in Glyphs
<1>1. SPACE \in Values /\ Status.value \in Values /\ CURSOR \in Values
  BY DEF Values
<1>2. WHITE \in Colors /\ BLACK \in Colors
  BY DEF WHITE, BLACK, Colors
<1>3. Status \in Glyphs
  BY <1>1, <1>2 DEF Status, Glyphs
<1>4. \A g \in Colors : Blank(g) \in Glyphs
  BY <1>1 DEF Blank, Glyphs
<1>5. \A g \in Glyphs : Picture(g) \in Glyphs
  BY <1>4 DEF Picture, Glyphs
<1>6. \A k \in ColorState, v \in Values : Character(v, k) \in Glyphs
  BY DEF Character, Glyphs, ColorState
<1>7. \A g \in Glyphs : [g EXCEPT !.value = CURSOR] \in Glyphs
  BY <1>1 DEF Glyphs
<1> QED
  BY <1>3, <1>4, <1>5, <1>6, <1>7

\* Filling and drawing change the picture and nothing else.
LEMMA PictureFacts ==
  ASSUME NEW lfb \in [Cells -> Glyphs]
  PROVE  /\ \A from, to : \A bg \in Colors :
              /\ fill_rect(lfb, from, to, bg) \in [Cells -> Glyphs]
              /\ from[2] >= 1 /\ from[2] \in Int =>
                   \A x \in 0 .. Width - 1 : fill_rect(lfb, from, to, bg)[<<x, 0>>] = lfb[<<x, 0>>]
         /\ \A pos : \A g \in Glyphs :
              /\ draw_char(lfb, pos, g) \in [Cells -> Glyphs]
              /\ pos[2] # 0 =>
                   \A x \in 0 .. Width - 1 : draw_char(lfb, pos, g)[<<x, 0>>] = lfb[<<x, 0>>]
<1>1. ASSUME NEW from, NEW to, NEW bg \in Colors
      PROVE  /\ fill_rect(lfb, from, to, bg) \in [Cells -> Glyphs]
             /\ from[2] >= 1 /\ from[2] \in Int =>
                  \A x \in 0 .. Width - 1 : fill_rect(lfb, from, to, bg)[<<x, 0>>] = lfb[<<x, 0>>]
  <2>1. Blank(bg) \in Glyphs
    BY GlyphFacts
  <2> QED
    BY <2>1, CellFacts DEF fill_rect
<1>2. ASSUME NEW pos, NEW g \in Glyphs
      PROVE  /\ draw_char(lfb, pos, g) \in [Cells -> Glyphs]
             /\ pos[2] # 0 =>
                  \A x \in 0 .. Width - 1 : draw_char(lfb, pos, g)[<<x, 0>>] = lfb[<<x, 0>>]
  <2>1. Picture(g) \in Glyphs
    BY GlyphFacts
  <2> QED
    BY <2>1, CellFacts DEF draw_char
<1> QED
  BY <1>1, <1>2

\* What draws the status bar last keeps it.
LEMMA BarDrawn ==
  ASSUME NEW d \in Displays, NEW e \in Displays
  PROVE  /\ Draws(d, draw_status_bar(e)) /\ Draws(d, flush(draw_status_bar(e)))
<1> DEFINE b == draw_status_bar(e)
<1>1. /\ b \in Displays
      /\ \A x \in 0 .. Width - 1 : b.lfb[<<x, 0>>] = Status /\ b.target[<<x, 0>>] = Status
  BY CellFacts, GlyphFacts DEF draw_status_bar, Displays
<1> HIDE DEF b
<1>2. /\ flush(b) \in Displays
      /\ flush(b).lfb = b.lfb /\ flush(b).target = b.lfb
  BY <1>1 DEF flush, Displays
<1> QED
  BY <1>1, <1>2 DEF Draws, Barred, KeepsBar, b

\* Changes of the character buffer, and of the buffered picture below the bar, shown.
LEMMA BelowBar ==
  ASSUME NEW d \in Displays, Barred(d), NEW e \in Displays,
         \A x \in 0 .. Width - 1 : e.lfb[<<x, 0>>] = d.lfb[<<x, 0>>]
  PROVE  Draws(d, flush(e))
<1>1. flush(e) \in Displays /\ flush(e).lfb = e.lfb /\ flush(e).target = e.lfb
  BY DEF flush, Displays
<1> QED
  BY <1>1 DEF Draws, Barred, KeepsBar

\* Erasing characters leaves the pictures alone.
LEMMA Erased ==
  ASSUME NEW d \in Displays, NEW k \in ColorState, NEW S, NEW v \in Values
  PROVE  /\ EraseChars(d, k, S, v) \in Displays
         /\ EraseChars(d, k, S, v).lfb = d.lfb /\ EraseChars(d, k, S, v).target = d.target
<1>1. Character(v, k) \in Glyphs
  BY GlyphFacts
<1> QED
  BY <1>1 DEF EraseChars, Displays

\* The character buffer holds at least two characters per cell.
LEMMA Sizes ==
  /\ Width * Height \in Nat /\ Capacity \in Nat /\ Width * Height < Capacity /\ Capacity < U16
  /\ \A n \in Nat : n * Width \in Nat /\ (n + 1) * Width = n * Width + Width
<1>1. Width \in Nat /\ Height \in Nat /\ CharacterSize \in Nat /\ U16 \in Nat
      /\ Width >= 1 /\ Height >= 2 /\ CharacterSize >= 2 /\ Width * Height * CharacterSize < U16
  BY TerminalAssumption
<1>2. Width * Height \in Nat /\ Width * Height >= 1
  BY <1>1
<1>3. PICK s \in Nat : s = Width * Height /\ s >= 1
  BY <1>2
<1>4. s * CharacterSize \in Nat /\ s * CharacterSize >= 2 * s
  BY <1>1, <1>3
<1>5. Capacity = s * CharacterSize
  BY <1>3 DEF Capacity
<1>6. \A n \in Nat : n * Width \in Nat /\ (n + 1) * Width = n * Width + Width
  BY <1>1
<1> QED
  BY <1>1, <1>3, <1>4, <1>5, <1>6

\* Scrolling keeps the status bar.
LEMMA ScrolledDraws ==
  ASSUME NEW d \in Displays, NEW k \in ColorState, NEW n \in Nat
  PROVE  Draws(d, Scrolled(d, k, n))
<1> DEFINE chars == [i \in DOMAIN d.chars |->
                       IF i + n * Width < Width * Height THEN d.chars[i + n * Width]
                                                         ELSE Character(NUL, k)]
           moved == [p \in Cells |-> IF p[2] + n < Height THEN d.lfb[<<p[1], p[2] + n>>]
                                                          ELSE Blank(k.bg_color)]
           e == [d EXCEPT !.chars = chars, !.lfb = moved]
<1>1. Character(NUL, k) \in Glyphs /\ Blank(k.bg_color) \in Glyphs
  BY GlyphFacts DEF Values, ColorState
<1>2. chars \in [0 .. Capacity - 1 -> Glyphs]
  <2>1. PICK m \in Nat, s \in Nat, c \in Nat : m = n * Width /\ s = Width * Height /\ c = Capacity /\ s < c
    BY Sizes
  <2>2. d.chars \in [0 .. c - 1 -> Glyphs]
    BY <2>1 DEF Displays
  <2>3. [i \in DOMAIN d.chars |-> IF i + m < s THEN d.chars[i + m] ELSE Character(NUL, k)]
          \in [0 .. c - 1 -> Glyphs]
    BY <1>1, <2>1, <2>2
  <2> QED
    BY <2>1, <2>3
<1>3. moved \in [Cells -> Glyphs]
  <2>1. ASSUME NEW p \in Cells, p[2] + n < Height PROVE <<p[1], p[2] + n>> \in Cells
    BY <2>1, CellFacts DEF Cells
  <2>2. d.lfb \in [Cells -> Glyphs]
    BY DEF Displays
  <2> QED
    BY <1>1, <2>1, <2>2
<1> HIDE DEF chars, moved
<1>4. e \in Displays
  BY <1>2, <1>3 DEF Displays
<1>5. Scrolled(d, k, n) = flush(draw_status_bar(e))
  BY DEF Scrolled, chars, moved, e
<1> QED
  BY <1>4, <1>5, BarDrawn

\* The display after n lines were scrolled.
ScrolledTo(d, k, n, e) ==
  /\ e.chars = [i \in 0 .. Capacity - 1 |->
                  IF i + n * Width < Width * Height THEN d.chars[i + n * Width]
                                                    ELSE Character(NUL, k)]
  /\ e.lfb = [p \in Cells |-> IF p[2] = 0 THEN Status
                              ELSE IF p[2] + n < Height THEN d.lfb[<<p[1], p[2] + n>>]
                                                        ELSE Blank(k.bg_color)]
  /\ e = [chars |-> e.chars, lfb |-> e.lfb, target |-> e.lfb]

\* Scrolled field by field.
LEMMA ScrolledIs ==
  ASSUME NEW d \in Displays, NEW k \in ColorState, NEW n \in Nat
  PROVE  ScrolledTo(d, k, n, Scrolled(d, k, n))
<1> DEFINE c == [i \in DOMAIN d.chars |->
                   IF i + n * Width < Width * Height THEN d.chars[i + n * Width]
                                                     ELSE Character(NUL, k)]
           m == [p \in Cells |-> IF p[2] + n < Height THEN d.lfb[<<p[1], p[2] + n>>]
                                                      ELSE Blank(k.bg_color)]
           b == [p \in Cells |-> IF p[2] = 0 THEN Status ELSE m[p]]
<1>1. DOMAIN d.chars = 0 .. Capacity - 1
  BY DEF Displays
<1>2. b = [p \in Cells |-> IF p[2] = 0 THEN Status
                           ELSE IF p[2] + n < Height THEN d.lfb[<<p[1], p[2] + n>>]
                                                     ELSE Blank(k.bg_color)]
  OBVIOUS
<1>3. Scrolled(d, k, n) = flush(draw_status_bar([d EXCEPT !.chars = c, !.lfb = m]))
  BY DEF Scrolled
<1> HIDE DEF c, m
<1>4. PICK v : v = [d EXCEPT !.chars = c, !.lfb = m]
  OBVIOUS
<1>5. v.chars = c /\ v.lfb = m /\ v = [chars |-> c, lfb |-> m, target |-> d.target]
  BY <1>4 DEF Displays
<1>6. PICK u : u = draw_status_bar(v)
  OBVIOUS
<1>7. PICK z : z = [p \in Cells |-> IF p[2] = 0 THEN Status ELSE v.target[p]]
  OBVIOUS
<1>8. u = [chars |-> c, lfb |-> b, target |-> z]
  <2>1. u = [v EXCEPT !.lfb = b, !.target = z]
    BY <1>5, <1>6, <1>7 DEF draw_status_bar
  <2> HIDE DEF b
  <2> QED
    BY <1>5, <2>1
<1> HIDE DEF b
<1>9. flush(u) = [chars |-> c, lfb |-> b, target |-> b]
  BY <1>8 DEF flush
<1>10. PICK e : e = Scrolled(d, k, n)
  OBVIOUS
<1>11. e = [chars |-> c, lfb |-> b, target |-> b]
  BY <1>3, <1>4, <1>6, <1>9, <1>10
<1>12. e.chars = c /\ e.lfb = b /\ e = [chars |-> e.chars, lfb |-> e.lfb, target |-> e.lfb]
  BY <1>11
<1>13. c = [i \in 0 .. Capacity - 1 |->
              IF i + n * Width < Width * Height THEN d.chars[i + n * Width] ELSE Character(NUL, k)]
  BY <1>1 DEF c
<1> QED
  BY <1>2, <1>10, <1>12, <1>13 DEF ScrolledTo

\* Scrolled is what the loop of position() does, one scroll_up() at a time.
LEMMA ScrollLoop ==
  ASSUME NEW d \in Displays, NEW k \in ColorState, NEW n \in Nat \ {0}
  PROVE  Scrolled(d, k, n + 1) = scroll_up(Scrolled(d, k, n), k)
<1>1. PICK e : e = Scrolled(d, k, n)
  OBVIOUS
<1>2. e \in Displays
  BY <1>1, ScrolledDraws DEF Draws
<1>3. PICK f : f = Scrolled(e, k, 1)
  OBVIOUS
<1>0. PICK n1 \in Nat : n1 = n + 1
  OBVIOUS
<1>4. PICK g : g = Scrolled(d, k, n1)
  OBVIOUS
<1>4a. ScrolledTo(d, k, n, e) /\ ScrolledTo(e, k, 1, f) /\ ScrolledTo(d, k, n1, g)
  BY <1>0, <1>1, <1>2, <1>3, <1>4, ScrolledIs
<1>5. f.chars = g.chars
  <2>1. PICK w \in Nat, m \in Nat, s \in Nat, c \in Nat :
          /\ w = Width /\ m = n * w /\ s = Width * Height /\ c = Capacity /\ s < c
          /\ (n + 1) * w = m + w /\ 1 * w = w
    BY Sizes, CellFacts
  <2>2. e.chars = [i \in 0 .. c - 1 |-> IF i + m < s THEN d.chars[i + m] ELSE Character(NUL, k)]
    BY <1>4a, <2>1 DEF ScrolledTo
  <2>3. f.chars = [i \in 0 .. c - 1 |-> IF i + w < s THEN e.chars[i + w] ELSE Character(NUL, k)]
    BY <1>4a, <2>1 DEF ScrolledTo
  <2>4. g.chars = [i \in 0 .. c - 1 |-> IF i + (m + w) < s THEN d.chars[i + (m + w)] ELSE Character(NUL, k)]
    BY <1>0, <1>4, <1>4a, <2>1 DEF ScrolledTo
  <2>5. ASSUME NEW i \in 0 .. c - 1 PROVE f.chars[i] = g.chars[i]
    <3>1. f.chars[i] = IF i + w < s THEN e.chars[i + w] ELSE Character(NUL, k)
      BY <2>3
    <3>2. i + w < s => e.chars[i + w] = IF (i + w) + m < s THEN d.chars[(i + w) + m] ELSE Character(NUL, k)
      BY <2>1, <2>2
    <3>3. g.chars[i] = IF i + (m + w) < s THEN d.chars[i + (m + w)] ELSE Character(NUL, k)
      BY <2>4
    <3>4. (i + w) + m = i + (m + w) /\ (i + (m + w) < s => i + w < s)
      BY <2>1
    <3> QED
      BY <3>1, <3>2, <3>3, <3>4
  <2> QED
    BY <2>3, <2>4, <2>5
<1>6. f.lfb = g.lfb
  <2>1. e.lfb = [p \in Cells |-> IF p[2] = 0 THEN Status
                                 ELSE IF p[2] + n < Height THEN d.lfb[<<p[1], p[2] + n>>]
                                                           ELSE Blank(k.bg_color)]
    BY <1>4a DEF ScrolledTo
  <2>2. f.lfb = [p \in Cells |-> IF p[2] = 0 THEN Status
                                 ELSE IF p[2] + 1 < Height THEN e.lfb[<<p[1], p[2] + 1>>]
                                                           ELSE Blank(k.bg_color)]
    BY <1>4a DEF ScrolledTo
  <2>3. g.lfb = [p \in Cells |-> IF p[2] = 0 THEN Status
                                 ELSE IF p[2] + (n + 1) < Height THEN d.lfb[<<p[1], p[2] + (n + 1)>>]
                                                                 ELSE Blank(k.bg_color)]
    BY <1>0, <1>4, <1>4a DEF ScrolledTo
  <2>4. ASSUME NEW p \in Cells PROVE f.lfb[p] = g.lfb[p]
    <3>1. PICK x \in 0 .. Width - 1, y \in 0 .. Height - 1 : p = <<x, y>> /\ p[1] = x /\ p[2] = y
      BY CellFacts
    <3>2. CASE y = 0
      BY <2>2, <2>3, <3>1, <3>2
    <3>3. CASE y # 0 /\ y + 1 < Height
      <4>1. <<x, y + 1>> \in Cells
        BY <3>1, <3>3, CellFacts DEF Cells
      <4>2. f.lfb[p] = e.lfb[<<x, y + 1>>]
        BY <2>2, <3>1, <3>3
      <4>3. e.lfb[<<x, y + 1>>] = IF (y + 1) + n < Height THEN d.lfb[<<x, (y + 1) + n>>]
                                                          ELSE Blank(k.bg_color)
        BY <2>1, <4>1
      <4>4. g.lfb[p] = IF y + (n + 1) < Height THEN d.lfb[<<x, y + (n + 1)>>] ELSE Blank(k.bg_color)
        BY <2>3, <3>1, <3>3
      <4>5. (y + 1) + n = y + (n + 1)
        OBVIOUS
      <4> QED
        BY <4>2, <4>3, <4>4, <4>5
    <3>4. CASE y # 0 /\ ~(y + 1 < Height)
      <4>1. ~(y + (n + 1) < Height)
        BY <3>4, CellFacts
      <4> QED
        BY <2>2, <2>3, <3>1, <3>4, <4>1
    <3> QED
      BY <3>2, <3>3, <3>4
  <2> QED
    BY <2>2, <2>3, <2>4
<1>7. f = [chars |-> f.chars, lfb |-> f.lfb, target |-> f.lfb]
  BY <1>4a DEF ScrolledTo
<1>8. g = [chars |-> g.chars, lfb |-> g.lfb, target |-> g.lfb]
  BY <1>4a DEF ScrolledTo
<1>9. f = g
  BY <1>5, <1>6, <1>7, <1>8
<1> QED
  BY <1>0, <1>1, <1>3, <1>4, <1>9 DEF scroll_up

-----------------------------------------------------------------------------
(***************************************************************************)
(* What the parser's calls do to the terminal.                             *)
(***************************************************************************)
Whole(t) == t \in Terminals /\ Barred(t.d)
Works(t, u) == u \in Terminals /\ Draws(t.d, u.d)

\* The fields of a terminal, and terminals made of fields.
LEMMA TerminalFields ==
  ASSUME NEW t \in Terminals
  PROVE  /\ t.d \in Displays /\ t.c \in Cursors /\ t.k \in ColorState
         /\ t.c.pos[1] \in 0 .. U16 - 1 /\ t.c.pos[2] \in 1 .. Height - 1
         /\ t.c.saved_pos[1] \in 0 .. U16 - 1 /\ t.c.saved_pos[2] \in 1 .. Height - 1
         /\ t.c.pos = <<t.c.pos[1], t.c.pos[2]>>
         /\ U16 \in Nat /\ Width \in Nat /\ Height \in Nat /\ Width >= 1 /\ Height >= 2
         /\ \A d \in Displays : [t EXCEPT !.d = d] \in Terminals /\ [t EXCEPT !.d = d].d = d
                                /\ [t EXCEPT !.d = d].c = t.c /\ [t EXCEPT !.d = d].k = t.k
<1>1. t.d \in Displays /\ t.c \in Cursors /\ t.k \in ColorState
  BY DEF Terminals
<1>2. t.c.pos \in (0 .. U16 - 1) \X (1 .. Height - 1) /\ t.c.saved_pos \in (0 .. U16 - 1) \X (1 .. Height - 1)
  BY <1>1 DEF Cursors
<1>3. \A d \in Displays : [t EXCEPT !.d = d] \in Terminals /\ [t EXCEPT !.d = d].d = d
                          /\ [t EXCEPT !.d = d].c = t.c /\ [t EXCEPT !.d = d].k = t.k
  BY DEF Terminals
<1>4. U16 \in Nat /\ Width \in Nat /\ Height \in Nat /\ Width >= 1 /\ Height >= 2
  BY TerminalAssumption
<1>5. /\ t.c.pos[1] \in 0 .. U16 - 1 /\ t.c.pos[2] \in 1 .. Height - 1
      /\ t.c.saved_pos[1] \in 0 .. U16 - 1 /\ t.c.saved_pos[2] \in 1 .. Height - 1
      /\ t.c.pos = <<t.c.pos[1], t.c.pos[2]>>
  BY <1>2
<1> QED
  BY <1>1, <1>3, <1>4, <1>5

\* position() takes the cursor to the column and to a row below the status bar.
Positioned(t, u, x) ==
  /\ Works(t, u) /\ u.c.pos[1] = x /\ u.c.saved_pos = t.c.saved_pos

LEMMA PositionWorks ==
  ASSUME NEW t, Whole(t), NEW x \in 0 .. U16 - 1, NEW y \in Nat
  PROVE  Positioned(t, position(t, <<x, y>>), x)
<1>1. <<x, y>>[1] = x /\ <<x, y>>[2] = y
  OBVIOUS
<1> DEFINE row  == IF y = 0 THEN 1 ELSE y
           over == IF row >= Height THEN row - (Height - 1) ELSE 0
           e == IF over = 0 THEN t.d ELSE Scrolled(t.d, t.k, over)
<1>2. t \in Terminals /\ Barred(t.d) /\ t.d \in Displays /\ t.k \in ColorState /\ Height \in Nat /\ Height >= 2
  BY TerminalFields DEF Whole
<1>3. over \in Nat /\ row - over \in 1 .. Height - 1
  BY <1>2
<1>4. Draws(t.d, e)
  <2>1. CASE over = 0
    BY <1>2, <2>1 DEF Draws, KeepsBar
  <2>2. CASE over # 0
    BY <1>2, <1>3, <2>2, ScrolledDraws
  <2> QED
    BY <2>1, <2>2
<1>5. position(t, <<x, y>>) = [t EXCEPT !.c.pos = <<x, row - over>>, !.d = e]
  BY <1>1 DEF position
<1>6. PICK r \in 1 .. Height - 1 : r = row - over
  BY <1>3
<1> HIDE DEF e, row, over
<1>7. PICK u : u = [t EXCEPT !.c.pos = <<x, r>>, !.d = e]
  OBVIOUS
<1>8. e \in Displays
  BY <1>4 DEF Draws
<1>9. u.d = e /\ u.k = t.k /\ u.c = [t.c EXCEPT !.pos = <<x, r>>] /\ u = [d |-> u.d, c |-> u.c, k |-> u.k]
  BY <1>2, <1>7 DEF Terminals
<1>10. u.c \in Cursors /\ u.c.pos = <<x, r>> /\ u.c.saved_pos = t.c.saved_pos
  BY <1>2, <1>9 DEF Terminals, Cursors
<1>11. u \in Terminals
  BY <1>2, <1>8, <1>9, <1>10 DEF Terminals
<1> QED
  BY <1>1, <1>4, <1>5, <1>6, <1>7, <1>9, <1>10, <1>11 DEF Positioned, Works

\* x - x % y, as a tabulator computes it.
LEMMA TabStop ==
  ASSUME NEW x \in Nat, NEW y \in Nat \ {0}
  PROVE  (x \div y) * y \in 0 .. x
<1>1. x = y * (x \div y) + (x % y) /\ x % y \in 0 .. y - 1 /\ x \div y \in Nat
  OBVIOUS
<1>2. PICK q \in Nat : q = x \div y
  BY <1>1
<1>3. q * y = y * q /\ q * y \in Nat
  OBVIOUS
<1> QED
  BY <1>1, <1>2, <1>3

\* A tabulator.
LEMMA TabWorks ==
  ASSUME NEW t, Whole(t)
  PROVE  /\ Works(t, handle_tab(t))
         /\ OnScreen(t) => OnScreen(handle_tab(t))
<1>1. t \in Terminals
  BY DEF Whole
<1>2. PICK x \in 0 .. U16 - 1, y \in 1 .. Height - 1 : t.c.pos[1] = x /\ t.c.pos[2] = y
  BY <1>1, TerminalFields
<1>3. TabSpaces \in Nat \ {0} /\ U16 \in Nat /\ U16 > 0 /\ Width \in Nat /\ Width >= 1
  BY <1>1, TerminalAssumption, TerminalFields
<1>4. PICK column \in 0 .. U16 - 1 : column = (x + TabSpaces) % U16
  BY <1>3
<1>5. PICK z \in Nat : z = (column \div TabSpaces) * TabSpaces /\ z <= column
  BY <1>3, <1>4, TabStop
<1>6. handle_tab(t) = IF column >= Width THEN position(t, <<0, y + 1>>) ELSE position(t, <<z, y>>)
  BY <1>2, <1>4, <1>5 DEF handle_tab
<1>7. CASE column >= Width
  <2>1. Positioned(t, position(t, <<0, y + 1>>), 0)
    BY <1>2, <1>3, PositionWorks
  <2> QED
    BY <1>3, <1>6, <1>7, <2>1 DEF Positioned, OnScreen
<1>8. CASE ~(column >= Width)
  <2>1. Positioned(t, position(t, <<z, y>>), z)
    BY <1>2, <1>3, <1>4, <1>5, PositionWorks
  <2>2. z <= Width
    BY <1>3, <1>4, <1>5, <1>8
  <2> QED
    BY <1>6, <1>8, <2>1, <2>2 DEF Positioned, OnScreen
<1> QED
  BY <1>7, <1>8

\* Erasing the screen, or a part of it, and drawing the status bar again.
LEMMA ScreenErased ==
  ASSUME NEW t, Whole(t), NEW lfb \in [Cells -> Glyphs], NEW S
  PROVE  LET u == [t EXCEPT !.d = flush(draw_status_bar(EraseChars([t.d EXCEPT !.lfb = lfb], t.k, S, NUL)))]
         IN  Works(t, u) /\ u.c = t.c
<1>1. t \in Terminals /\ t.d \in Displays /\ t.k \in ColorState
  BY TerminalFields DEF Whole
<1>2. [t.d EXCEPT !.lfb = lfb] \in Displays
  BY <1>1 DEF Displays
<1>3. NUL \in Values
  BY DEF Values
<1>4. PICK e \in Displays : e = EraseChars([t.d EXCEPT !.lfb = lfb], t.k, S, NUL)
  BY <1>1, <1>2, <1>3, Erased
<1>5. PICK f : f = flush(draw_status_bar(e)) /\ Draws(t.d, f)
  BY <1>1, BarDrawn
<1>6. f \in Displays
  BY <1>5 DEF Draws
<1> QED
  BY <1>1, <1>4, <1>5, <1>6, TerminalFields DEF Works

\* The three ways to erase the screen.
LEMMA ClearWorks ==
  ASSUME NEW t, Whole(t)
  PROVE  /\ Works(t, clear_screen(t)) /\ clear_screen(t).c = t.c
         /\ Works(t, clear_screen_to_cursor(t)) /\ clear_screen_to_cursor(t).c = t.c
         /\ Works(t, clear_screen_from_cursor(t)) /\ clear_screen_from_cursor(t).c = t.c
<1>1. t \in Terminals /\ t.d.lfb \in [Cells -> Glyphs] /\ t.k.bg_color \in Colors
  BY TerminalFields DEF Whole, Displays, ColorState
<1>2. \A from, to : fill_rect(t.d.lfb, from, to, t.k.bg_color) \in [Cells -> Glyphs]
  BY <1>1, PictureFacts
<1>3. \A lfb \in [Cells -> Glyphs] : \A from, to : fill_rect(lfb, from, to, t.k.bg_color) \in [Cells -> Glyphs]
  BY <1>1, PictureFacts
<1>4. Works(t, clear_screen(t)) /\ clear_screen(t).c = t.c
  <2>1. PICK lfb \in [Cells -> Glyphs] : lfb = fill_rect(t.d.lfb, <<0, 0>>, <<Width, Height>>, t.k.bg_color)
    BY <1>2
  <2>2. clear_screen(t) = [t EXCEPT !.d = flush(draw_status_bar(
                             EraseChars([t.d EXCEPT !.lfb = lfb], t.k, DOMAIN t.d.chars, NUL)))]
    BY <2>1 DEF clear_screen
  <2> QED
    BY <2>2, ScreenErased
<1>5. Works(t, clear_screen_to_cursor(t)) /\ clear_screen_to_cursor(t).c = t.c
  <2>1. PICK line \in [Cells -> Glyphs] :
          line = fill_rect(t.d.lfb, <<0, t.c.pos[2]>>, <<t.c.pos[1], t.c.pos[2] + 1>>, t.k.bg_color)
    BY <1>2
  <2>2. PICK lfb \in [Cells -> Glyphs] : lfb = fill_rect(line, <<0, 0>>, <<Width, t.c.pos[2]>>, t.k.bg_color)
    BY <1>3
  <2>3. clear_screen_to_cursor(t) = [t EXCEPT !.d = flush(draw_status_bar(
                             EraseChars([t.d EXCEPT !.lfb = lfb], t.k, 0 .. Index(t.c.pos) - 1, NUL)))]
    BY <2>1, <2>2 DEF clear_screen_to_cursor
  <2> QED
    BY <2>3, ScreenErased
<1>6. Works(t, clear_screen_from_cursor(t)) /\ clear_screen_from_cursor(t).c = t.c
  <2>1. PICK line \in [Cells -> Glyphs] :
          line = fill_rect(t.d.lfb, t.c.pos, <<Width, t.c.pos[2] + 1>>, t.k.bg_color)
    BY <1>2
  <2>2. PICK lfb \in [Cells -> Glyphs] :
          lfb = fill_rect(line, <<0, t.c.pos[2] + 1>>, <<Width, Height>>, t.k.bg_color)
    BY <1>3
  <2>3. clear_screen_from_cursor(t) = [t EXCEPT !.d = flush(draw_status_bar(
                             EraseChars([t.d EXCEPT !.lfb = lfb], t.k, Index(t.c.pos) .. Capacity - 1, NUL)))]
    BY <2>1, <2>2 DEF clear_screen_from_cursor
  <2> QED
    BY <2>3, ScreenErased
<1> QED
  BY <1>4, <1>5, <1>6

\* Erasing a line below the status bar, or a part of it.
LEMMA LineErased ==
  ASSUME NEW t, Whole(t), NEW from, NEW to, NEW first, NEW count, NEW v \in Values
  PROVE  /\ Works(t, ClearedLine(t, from, to, first, count, v))
         /\ ClearedLine(t, from, to, first, count, v).c = t.c
         /\ ClearedLine(t, from, to, first, count, v).k = t.k
<1>1. t \in Terminals /\ t.d \in Displays /\ t.d.lfb \in [Cells -> Glyphs] /\ t.k \in ColorState
      /\ t.k.bg_color \in Colors /\ Barred(t.d)
  BY TerminalFields DEF Whole, Displays, ColorState
<1>2. PICK row \in 1 .. Height - 1 : t.c.pos[2] = row
  BY <1>1, TerminalFields
<1>3. PICK lfb \in [Cells -> Glyphs] :
        /\ lfb = fill_rect(t.d.lfb, <<from, row>>, <<to, row + 1>>, t.k.bg_color)
        /\ \A x \in 0 .. Width - 1 : lfb[<<x, 0>>] = t.d.lfb[<<x, 0>>]
  <2>1. <<from, row>>[2] >= 1 /\ <<from, row>>[2] \in Int
    BY <1>2
  <2> QED
    BY <1>1, <2>1, PictureFacts
<1>4. PICK d1 : d1 = [t.d EXCEPT !.lfb = lfb]
  OBVIOUS
<1>4a. d1 \in Displays /\ d1.lfb = lfb
  BY <1>1, <1>4 DEF Displays
<1>5. PICK e : e = EraseChars(d1, t.k, first .. first + count - 1, v)
  OBVIOUS
<1>5a. e \in Displays /\ e.lfb = lfb
  BY <1>1, <1>4a, <1>5, Erased
<1>6. PICK f : f = flush(e)
  OBVIOUS
<1>7. Draws(t.d, f)
  BY <1>1, <1>3, <1>5a, <1>6, BelowBar
<1>8. ClearedLine(t, from, to, first, count, v) = [t EXCEPT !.d = f]
  BY <1>2, <1>3, <1>4, <1>5, <1>6 DEF ClearedLine
<1>9. f \in Displays
  BY <1>7 DEF Draws
<1> QED
  BY <1>1, <1>7, <1>8, <1>9, TerminalFields DEF Works

\* Every sequence that erases.
LEMMA EraseWorks ==
  ASSUME NEW t, Whole(t), NEW action, NEW params
  PROVE  /\ Works(t, handle_ansi_erase_sequence(t, action, params))
         /\ OnScreen(t) => OnScreen(handle_ansi_erase_sequence(t, action, params))
<1>1. t \in Terminals /\ Barred(t.d) /\ t.d \in Displays /\ U16 \in Nat /\ U16 > 0 /\ Width \in Nat
  BY TerminalFields DEF Whole
<1>2. Works(t, t)
  BY <1>1 DEF Works, Draws, KeepsBar
<1>3. NUL \in Values /\ LineFill \in Values
  BY DEF Values
<1>4. /\ Works(t, clear_line(t)) /\ clear_line(t).c = t.c
      /\ Works(t, clear_line_to_cursor(t)) /\ clear_line_to_cursor(t).c = t.c
      /\ Works(t, clear_line_from_cursor(t)) /\ clear_line_from_cursor(t).c = t.c
  BY <1>3, LineErased DEF clear_line, clear_line_to_cursor, clear_line_from_cursor
<1>5. PICK u : u = clear_screen(t)
  OBVIOUS
<1>6. Works(t, u) /\ u.c = t.c
  BY <1>5, ClearWorks
<1>7. Whole(u)
  BY <1>6 DEF Works, Draws, Whole
<1>8. PICK z : z = position(u, <<0, 0>>)
  OBVIOUS
<1>9. Positioned(u, z, 0)
  BY <1>1, <1>7, <1>8, PositionWorks
<1>10. Works(t, z) /\ (OnScreen(t) => OnScreen(z))
  BY <1>1, <1>6, <1>9 DEF Positioned, Works, Draws, KeepsBar, OnScreen
<1>11. handle_ansi_erase_sequence(t, action, params)
         \in {t, z, clear_screen_from_cursor(t), clear_screen_to_cursor(t), clear_line_from_cursor(t),
              clear_line_to_cursor(t), clear_line(t)}
  BY <1>5, <1>8 DEF handle_ansi_erase_sequence
<1>12. PICK r : r = handle_ansi_erase_sequence(t, action, params)
  OBVIOUS
<1>13. r = z \/ (Works(t, r) /\ r.c = t.c)
  BY <1>2, <1>4, <1>11, <1>12, ClearWorks
<1> QED
  BY <1>10, <1>12, <1>13 DEF OnScreen

\* The terminal with another display and another place of the cursor.
Moved(t, e, p) == [d |-> e, c |-> [pos |-> p, saved_pos |-> t.c.saved_pos], k |-> t.k]

LEMMA MovedFields ==
  ASSUME NEW t, NEW e, NEW p, NEW m, m = Moved(t, e, p)
  PROVE  m.d = e /\ m.k = t.k /\ m.c.pos = p /\ m.c.saved_pos = t.c.saved_pos
BY DEF Moved

\* The cursor is moved again, with or without another display.
MoveTo(m, q) == [m EXCEPT !.c.pos = q]
RedrawTo(m, f, q) == [m EXCEPT !.d = f, !.c.pos = q]

LEMMA MovedAgain ==
  ASSUME NEW t, NEW e, NEW p, NEW m, m = Moved(t, e, p), NEW f, NEW q
  PROVE  MoveTo(m, q) = Moved(t, e, q) /\ RedrawTo(m, f, q) = Moved(t, f, q)
<1>1. PICK s, k : s = t.c.saved_pos /\ k = t.k
  OBVIOUS
<1>2. PICK c : c = [pos |-> p, saved_pos |-> s]
  OBVIOUS
<1>3. m = [d |-> e, c |-> c, k |-> k]
  BY <1>1, <1>2 DEF Moved
<1>4. PICK a : a = [c EXCEPT !.pos = q]
  OBVIOUS
<1>5. a = [pos |-> q, saved_pos |-> s] /\ m.c = c
  BY <1>2, <1>3, <1>4
<1>6. [m EXCEPT !.c.pos = q] = Moved(t, e, q)
  <2>1. [m EXCEPT !.c.pos = q] = [m EXCEPT !.c = a]
    BY <1>4, <1>5
  <2>2. [m EXCEPT !.c = a] = [d |-> e, c |-> a, k |-> k]
    BY <1>3
  <2> QED
    BY <1>1, <1>5, <2>1, <2>2 DEF Moved
<1>7. [m EXCEPT !.d = f, !.c.pos = q] = Moved(t, f, q)
  <2>1. PICK z : z = [m EXCEPT !.d = f]
    OBVIOUS
  <2>2. z = [d |-> f, c |-> c, k |-> k]
    BY <1>3, <2>1
  <2>3. [m EXCEPT !.d = f, !.c.pos = q] = [z EXCEPT !.c.pos = q]
    BY <2>1
  <2>4. z.c = c
    BY <2>2
  <2>5. [z EXCEPT !.c.pos = q] = [z EXCEPT !.c = a]
    BY <1>4, <2>4
  <2>6. [z EXCEPT !.c = a] = [d |-> f, c |-> a, k |-> k]
    BY <2>2
  <2> QED
    BY <1>1, <1>5, <2>3, <2>5, <2>6 DEF Moved
<1> QED
  BY <1>6, <1>7 DEF MoveTo, RedrawTo

LEMMA MovedWorks ==
  ASSUME NEW t \in Terminals, NEW e, Draws(t.d, e), NEW p \in (0 .. U16 - 1) \X (1 .. Height - 1)
  PROVE  Works(t, Moved(t, e, p))
<1>1. t.k \in ColorState /\ t.c \in Cursors /\ e \in Displays
  BY TerminalFields DEF Draws
<1>2. t.c.saved_pos \in (0 .. U16 - 1) \X (1 .. Height - 1)
  BY <1>1 DEF Cursors
<1>3. Moved(t, e, p) \in Terminals
  BY <1>1, <1>2 DEF Moved, Terminals, Cursors
<1>4. Moved(t, e, p).d = e
  BY DEF Moved
<1> QED
  BY <1>3, <1>4 DEF Works

\* A glyph is drawn at the cursor, below the status bar, in both pictures.
GlyphAt(t, ch, p) ==
  [t EXCEPT !.d.lfb    = draw_char(t.d.lfb, t.c.pos, ch),
            !.d.target = draw_char(t.d.target, t.c.pos, ch),
            !.d.chars[Index(t.c.pos)] = ch,
            !.c.pos = p]

LEMMA GlyphDrawn ==
  ASSUME NEW t, Whole(t), NEW ch \in Glyphs, Index(t.c.pos) < Capacity, NEW p,
         NEW u, u = GlyphAt(t, ch, p)
  PROVE  \E e : u = Moved(t, e, p) /\ Draws(t.d, e)
<1>1. t \in Terminals /\ Barred(t.d) /\ t.d \in Displays /\ t.d.lfb \in [Cells -> Glyphs]
      /\ t.d.target \in [Cells -> Glyphs] /\ t.d.chars \in [0 .. Capacity - 1 -> Glyphs]
  BY TerminalFields DEF Whole, Displays
<1>2. t.c.pos[2] # 0
  BY <1>1, TerminalFields
<1>3. PICK A \in [Cells -> Glyphs] : /\ A = draw_char(t.d.lfb, t.c.pos, ch)
                                     /\ \A z \in 0 .. Width - 1 : A[<<z, 0>>] = t.d.lfb[<<z, 0>>]
  BY <1>1, <1>2, PictureFacts
<1>4. PICK B \in [Cells -> Glyphs] : /\ B = draw_char(t.d.target, t.c.pos, ch)
                                     /\ \A z \in 0 .. Width - 1 : B[<<z, 0>>] = t.d.target[<<z, 0>>]
  BY <1>1, <1>2, PictureFacts
<1>5. PICK i : i = Index(t.c.pos)
  OBVIOUS
<1>6. PICK C \in [0 .. Capacity - 1 -> Glyphs] : C = [t.d.chars EXCEPT ![i] = ch]
  BY <1>1
<1>7. PICK e : e = [t.d EXCEPT !.lfb = A, !.target = B, !.chars = C]
  OBVIOUS
<1>8. e \in Displays /\ e.lfb = A /\ e.target = B
  BY <1>1, <1>7 DEF Displays
<1>9. Draws(t.d, e)
  BY <1>1, <1>3, <1>4, <1>8 DEF Draws, Barred, KeepsBar
<1>10. u = Moved(t, e, p)
  <2>1. u = [t EXCEPT !.d.lfb = A, !.d.target = B, !.d.chars[i] = ch, !.c.pos = p]
    BY <1>3, <1>4, <1>5 DEF GlyphAt
  <2>2. t = [d |-> t.d, c |-> t.c, k |-> t.k]
    BY <1>1 DEF Terminals
  <2>3. t.d = [chars |-> t.d.chars, lfb |-> t.d.lfb, target |-> t.d.target]
    BY <1>1 DEF Displays
  <2>4. t.c = [pos |-> t.c.pos, saved_pos |-> t.c.saved_pos]
    BY <1>1 DEF Terminals, Cursors
  <2>5. u.d = e
    BY <1>6, <1>7, <2>1, <2>2, <2>3
  <2>6. u.c = [t.c EXCEPT !.pos = p]
    BY <2>1, <2>2
  <2>7. u.c = [pos |-> p, saved_pos |-> t.c.saved_pos]
    BY <2>4, <2>6
  <2>8. u.k = t.k
    BY <2>1, <2>2
  <2>9. u = [d |-> u.d, c |-> u.c, k |-> u.k]
    BY <2>1, <2>2
  <2> QED
    BY <2>5, <2>7, <2>8, <2>9 DEF Moved
<1> QED
  BY <1>9, <1>10

\* Drawing may be composed.
LEMMA DrawsTwice ==
  ASSUME NEW d, NEW e, NEW f, Draws(d, e), Draws(e, f)
  PROVE  Draws(d, f)
BY DEF Draws, KeepsBar

\* A character, a line break, or a byte without a glyph.
LEMMA PrintWorks ==
  ASSUME NEW t, Whole(t), NEW c, HasGlyph(c) /\ c # "NL" => c \in Values /\ Index(t.c.pos) < Capacity
  PROVE  /\ Works(t, print_char(t, c))
         /\ OnScreen(t) => OnScreen(print_char(t, c))
<1>1. t \in Terminals /\ t.d \in Displays /\ t.k \in ColorState /\ Barred(t.d)
      /\ t = [d |-> t.d, c |-> t.c, k |-> t.k] /\ t.c = [pos |-> t.c.pos, saved_pos |-> t.c.saved_pos]
  BY DEF Whole, Terminals, Cursors
<1>2. PICK x \in 0 .. U16 - 1, y \in 1 .. Height - 1 : t.c.pos[1] = x /\ t.c.pos[2] = y /\ t.c.pos = <<x, y>>
  BY <1>1, TerminalFields
<1>3. U16 \in Nat /\ U16 > 0 /\ Width \in Nat /\ Width >= 1 /\ Width < U16 /\ Height \in Nat /\ Height >= 2
  BY <1>1, TerminalFields, TerminalAssumption
<1> DEFINE ch == Character(c, t.k)
           glyph == [t EXCEPT !.d.lfb    = draw_char(t.d.lfb, t.c.pos, ch),
                              !.d.target = draw_char(t.d.target, t.c.pos, ch),
                              !.d.chars[Index(t.c.pos)] = ch,
                              !.c.pos = <<(t.c.pos[1] + 1) % U16, t.c.pos[2]>>]
           printed ==
             IF c = "NL" THEN [clear_line_from_cursor(t) EXCEPT !.c.pos = <<0, t.c.pos[2] + 1>>]
             ELSE IF ~HasGlyph(c) THEN t ELSE glyph
           wrapped == IF printed.c.pos[1] >= Width
                      THEN [printed EXCEPT !.c.pos = <<0, printed.c.pos[2] + 1>>]
                      ELSE printed
           result == IF wrapped.c.pos[2] >= Height
                     THEN [wrapped EXCEPT !.d = scroll_up(wrapped.d, t.k), !.c.pos = <<0, Height - 1>>]
                     ELSE wrapped
<1>4. print_char(t, c) = result
  BY DEF print_char
<1>5. \E e, x1, y1 : /\ printed = Moved(t, e, <<x1, y1>>) /\ Draws(t.d, e)
                     /\ x1 \in 0 .. U16 - 1 /\ y1 \in 1 .. Height
  <2>1. CASE c = "NL"
    <3>1. PICK u : u = clear_line_from_cursor(t)
      OBVIOUS
    <3>2. NUL \in Values
      BY DEF Values
    <3>3. Works(t, u) /\ u.c = t.c /\ u.k = t.k
      BY <3>1, <3>2, LineErased DEF clear_line_from_cursor
    <3>4. u = [d |-> u.d, c |-> u.c, k |-> u.k] /\ Draws(t.d, u.d)
      BY <3>3 DEF Works, Terminals
    <3>5. u = Moved(t, u.d, t.c.pos)
      BY <1>1, <3>3, <3>4 DEF Moved
    <3>6. PICK p : p = <<0, y + 1>>
      OBVIOUS
    <3>7. printed = MoveTo(u, p)
      BY <1>2, <2>1, <3>1, <3>6 DEF MoveTo
    <3>8. printed = Moved(t, u.d, p)
      BY <3>5, <3>7, MovedAgain
    <3>9. 0 \in 0 .. U16 - 1 /\ y + 1 \in 1 .. Height
      BY <1>2, <1>3
    <3> HIDE DEF printed
    <3> QED
      BY <3>4, <3>6, <3>8, <3>9
  <2>2. CASE c # "NL" /\ ~HasGlyph(c)
    <3>1. t = Moved(t, t.d, t.c.pos)
      BY <1>1 DEF Moved
    <3>2. Draws(t.d, t.d)
      BY <1>1 DEF Draws, KeepsBar
    <3>3. printed = t
      BY <2>2
    <3> HIDE DEF printed
    <3>4. y \in 1 .. Height
      BY <1>2, <1>3
    <3> QED
      BY <1>2, <3>1, <3>2, <3>3, <3>4
  <2>3. CASE c # "NL" /\ HasGlyph(c)
    <3>1. ch \in Glyphs
      BY <1>1, <2>3, GlyphFacts
    <3>2. PICK p : p = <<(t.c.pos[1] + 1) % U16, t.c.pos[2]>>
      OBVIOUS
    <3>3. PICK g : g = ch
      OBVIOUS
    <3>4. PICK u : u = glyph
      OBVIOUS
    <3>5. u = GlyphAt(t, g, p)
      BY <3>2, <3>3, <3>4 DEF GlyphAt
    <3>6. \E e : u = Moved(t, e, p) /\ Draws(t.d, e)
      BY <2>3, <3>1, <3>3, <3>5, GlyphDrawn
    <3>7. printed = u
      BY <2>3, <3>4
    <3> HIDE DEF printed
    <3>8. PICK x1 \in 0 .. U16 - 1 : x1 = (x + 1) % U16
      BY <1>2, <1>3
    <3>9. y \in 1 .. Height /\ p = <<x1, y>>
      BY <1>2, <1>3, <3>2, <3>8
    <3> QED
      BY <3>6, <3>7, <3>8, <3>9
  <2> QED
    BY <2>1, <2>2, <2>3
<1> HIDE DEF printed
<1>6. PICK e, x1, y1 : /\ printed = Moved(t, e, <<x1, y1>>) /\ Draws(t.d, e)
                       /\ x1 \in 0 .. U16 - 1 /\ y1 \in 1 .. Height
  BY <1>5
<1>7. \E x2, y2 : wrapped = Moved(t, e, <<x2, y2>>) /\ x2 \in 0 .. Width - 1 /\ y2 \in 1 .. Height + 1
  <2>1. PICK p : p = <<x1, y1>>
    OBVIOUS
  <2>2. p[1] = x1 /\ p[2] = y1
    BY <2>1
  <2>3. printed = Moved(t, e, p)
    BY <1>6, <2>1
  <2>4. printed.c.pos = p
    BY <2>3, MovedFields
  <2>5. PICK q : q = <<0, y1 + 1>>
    OBVIOUS
  <2>6. MoveTo(printed, q) = Moved(t, e, q)
    BY <2>3, MovedAgain
  <2>7. wrapped = IF x1 >= Width THEN Moved(t, e, q) ELSE Moved(t, e, p)
    BY <2>2, <2>3, <2>4, <2>5, <2>6 DEF MoveTo
  <2> HIDE DEF wrapped
  <2>8. CASE x1 >= Width
    <3>1. 0 \in 0 .. Width - 1 /\ y1 + 1 \in 1 .. Height + 1
      BY <1>3, <1>6
    <3> QED
      BY <2>5, <2>7, <2>8, <3>1
  <2>9. CASE ~(x1 >= Width)
    <3>1. x1 \in 0 .. Width - 1 /\ y1 \in 1 .. Height + 1
      BY <1>3, <1>6, <2>9
    <3> QED
      BY <2>1, <2>7, <2>9, <3>1
  <2> QED
    BY <2>8, <2>9
<1> HIDE DEF wrapped
<1>8. PICK x2, y2 : wrapped = Moved(t, e, <<x2, y2>>) /\ x2 \in 0 .. Width - 1 /\ y2 \in 1 .. Height + 1
  BY <1>7
<1>9. \E f, x3, y3 : result = Moved(t, f, <<x3, y3>>) /\ Draws(t.d, f)
                     /\ x3 \in 0 .. Width - 1 /\ y3 \in 1 .. Height - 1
  <2>1. PICK p : p = <<x2, y2>>
    OBVIOUS
  <2>2. p[1] = x2 /\ p[2] = y2
    BY <2>1
  <2>3. wrapped = Moved(t, e, p)
    BY <1>8, <2>1
  <2>4. wrapped.c.pos = p /\ wrapped.d = e
    BY <2>3, MovedFields
  <2>5. PICK q : q = <<0, Height - 1>>
    OBVIOUS
  <2>6. PICK f : f = Scrolled(e, t.k, 1)
    OBVIOUS
  <2>7. RedrawTo(wrapped, f, q) = Moved(t, f, q)
    BY <2>3, MovedAgain
  <2>8. result = IF y2 >= Height THEN Moved(t, f, q) ELSE Moved(t, e, p)
    BY <2>2, <2>3, <2>4, <2>5, <2>6, <2>7 DEF scroll_up, RedrawTo
  <2> HIDE DEF result
  <2>9. CASE y2 >= Height
    <3>1. 0 \in 0 .. Width - 1 /\ Height - 1 \in 1 .. Height - 1
      BY <1>3
    <3>2. Draws(e, f)
      BY <1>1, <1>6, <2>6, ScrolledDraws DEF Draws
    <3>3. Draws(t.d, f)
      BY <1>6, <3>2, DrawsTwice
    <3> QED
      BY <2>5, <2>8, <2>9, <3>1, <3>3
  <2>10. CASE ~(y2 >= Height)
    <3>1. x2 \in 0 .. Width - 1 /\ y2 \in 1 .. Height - 1
      BY <1>3, <1>8, <2>10
    <3> QED
      BY <1>6, <2>1, <2>8, <2>10, <3>1
  <2> QED
    BY <2>9, <2>10
<1> HIDE DEF result
<1>10. PICK f, x3, y3 : result = Moved(t, f, <<x3, y3>>) /\ Draws(t.d, f)
                       /\ x3 \in 0 .. Width - 1 /\ y3 \in 1 .. Height - 1
  BY <1>9
<1>11. x3 \in 0 .. U16 - 1 /\ x3 <= Width
  BY <1>3, <1>10
<1>12. PICK p : p = <<x3, y3>>
  OBVIOUS
<1>13. p \in (0 .. U16 - 1) \X (1 .. Height - 1) /\ p[1] = x3
  BY <1>10, <1>11, <1>12
<1>14. result = Moved(t, f, p)
  BY <1>10, <1>12
<1>15. Works(t, result)
  BY <1>1, <1>10, <1>13, <1>14, MovedWorks
<1>16. result.c.pos = p /\ result.c.saved_pos = t.c.saved_pos
  BY <1>14, MovedFields
<1> QED
  BY <1>4, <1>11, <1>13, <1>15, <1>16 DEF OnScreen

\* The terminal with the position of the cursor saved.
LEMMA SaveWorks ==
  ASSUME NEW t, Whole(t), NEW u, u = [t EXCEPT !.c.saved_pos = t.c.pos]
  PROVE  Works(t, u) /\ (OnScreen(t) => OnScreen(u))
<1>1. t \in Terminals /\ t.d \in Displays /\ Barred(t.d) /\ t.c \in Cursors /\ t.k \in ColorState
  BY TerminalFields DEF Whole
<1>2. t = [d |-> t.d, c |-> t.c, k |-> t.k]
  BY <1>1 DEF Terminals
<1>3. u.d = t.d /\ u.k = t.k /\ u = [d |-> u.d, c |-> u.c, k |-> u.k]
  BY <1>2
<1>4. u.c = [t.c EXCEPT !.saved_pos = t.c.pos]
  BY <1>2
<1>5. u.c \in Cursors /\ u.c.pos = t.c.pos /\ u.c.saved_pos = t.c.pos
  BY <1>1, <1>4 DEF Cursors
<1>6. u \in Terminals
  BY <1>1, <1>3, <1>5 DEF Terminals
<1>7. Draws(t.d, u.d)
  BY <1>1, <1>3 DEF Draws, KeepsBar
<1> QED
  BY <1>5, <1>6, <1>7 DEF Works, OnScreen

\* The first parameters of a sequence.
LEMMA ParamFacts ==
  ASSUME NEW S, NEW params \in Seq(S)
  PROVE  /\ Len(params) \in Nat
         /\ \A i \in 1 .. Len(params) : params[i] \in S
         /\ params # <<>> => params[1] \in S
         /\ Len(params) >= 2 => params[1] \in S /\ params[2] \in S
<1>1. Len(params) \in Nat /\ \A i \in 1 .. Len(params) : params[i] \in S
  OBVIOUS
<1>2. params # <<>> => Len(params) >= 1
  OBVIOUS
<1> QED
  BY <1>1, <1>2

\* The screen fits into u16.
LEMMA ScreenFacts ==
  U16 \in Nat /\ U16 > 0 /\ Width \in Nat /\ Width >= 1 /\ Width < U16 /\ Height \in Nat /\ Height >= 2
<1>1. PICK w \in Nat, m \in Nat, u \in Nat : w = Width /\ m = TabSpaces /\ u = U16 /\ w >= 1 /\ m >= 1 /\ w + m < u
  BY TerminalAssumption
<1>2. Height \in Nat /\ Height >= 2
  BY TerminalAssumption
<1> QED
  BY <1>1, <1>2

\* Every sequence that moves the cursor is ignored, saves the position, or calls position().
LEMMA CursorCases ==
  ASSUME NEW t, Whole(t), NEW action, NEW params \in Seq(0 .. U16 - 1)
  PROVE  LET u == handle_ansi_cursor_sequence(t, action, params)
         IN \/ u = t
            \/ u = [t EXCEPT !.c.saved_pos = t.c.pos]
            \/ \E x \in 0 .. U16 - 1, y \in Nat :
                 /\ u = position(t, <<x, y>>)
                 /\ OnScreen(t) /\ ~Overflows(t, action, params) => x <= Width
<1>1. t \in Terminals /\ t.c.saved_pos = <<t.c.saved_pos[1], t.c.saved_pos[2]>>
  BY DEF Whole, Terminals, Cursors
<1>2. PICK x0 \in 0 .. U16 - 1, y0 \in 1 .. Height - 1 : t.c.pos[1] = x0 /\ t.c.pos[2] = y0
  BY <1>1, TerminalFields
<1>3. PICK x9 \in 0 .. U16 - 1, y9 \in 1 .. Height - 1 : t.c.saved_pos = <<x9, y9>> /\ t.c.saved_pos[1] = x9
  BY <1>1, TerminalFields
<1>4. U16 \in Nat /\ U16 > 0 /\ Width \in Nat /\ Width >= 1 /\ Width < U16 /\ Height \in Nat /\ Height >= 2
  BY ScreenFacts
<1> DEFINE n  == params[1]
           to == Target(t.c.pos, action, n) % U16
           u  == handle_ansi_cursor_sequence(t, action, params)
           Goes(x, y) == /\ u = position(t, <<x, y>>) /\ x \in 0 .. U16 - 1 /\ y \in Nat
                         /\ OnScreen(t) /\ ~Overflows(t, action, params) => x <= Width
<1>5. params # <<>> => n \in 0 .. U16 - 1
  BY ParamFacts
<1>6. \A i \in Nat : AtMost(i, Width) \in 0 .. U16 - 1 /\ AtMost(i, Width) <= Width /\ AtMost(i, Height) \in Nat
  BY <1>4 DEF AtMost
<1>7. \A i \in 0 .. U16 - 1 : /\ LimitedTo(i, Width) \in 0 .. U16 - 1 /\ LimitedTo(i, Width) <= Width
                              /\ LimitedTo(i, Height) \in Nat
  BY <1>4 DEF LimitedTo
<1>8. params # <<>> => Target(t.c.pos, action, n) \in Int
  <2> SUFFICES ASSUME params # <<>> PROVE Target(t.c.pos, action, n) \in Int
    OBVIOUS
  <2>1. PICK m \in 0 .. U16 - 1 : m = n
    BY <1>5
  <2>2. OrOne(m) \in Int
    BY <2>1 DEF OrOne
  <2>3. PICK o \in Int : o = OrOne(m)
    BY <2>2
  <2>4. Target(t.c.pos, action, m) \in {y0 - o, y0 + o, x0 + o, x0 - o, y0 + m + 1, y0 - m - 1, 0}
    BY <1>2, <2>3 DEF Target
  <2> QED
    BY <2>1, <2>3, <2>4
<1>9. params # <<>> => to \in 0 .. U16 - 1
  BY <1>4, <1>8
<1>9a. params # <<>> => n \in Nat /\ to \in Nat
  BY <1>4, <1>5, <1>9
<1>9b. params # <<>> => /\ AtMost(to, Width) \in 0 .. U16 - 1 /\ AtMost(to, Width) <= Width
                        /\ AtMost(to, Height) \in Nat
  <2> HIDE DEF to
  <2> QED
    BY <1>6, <1>9a
<1>10. OnScreen(t) => x0 <= Width /\ x9 <= Width
  BY <1>2, <1>3 DEF OnScreen
<1>11. params # <<>> /\ action = "D" => (OnScreen(t) /\ ~Overflows(t, action, params) => to <= Width)
  <2> SUFFICES ASSUME params # <<>>, action = "D", OnScreen(t), ~Overflows(t, action, params) PROVE to <= Width
    OBVIOUS
  <2>1. Target(t.c.pos, action, n) = x0 - OrOne(n)
    BY <1>2 DEF Target
  <2>2. PICK m \in 1 .. U16 : m = OrOne(n)
    BY <1>4, <1>5 DEF OrOne
  <2>3. x0 - m \in 0 .. U16 - 1
    BY <2>1, <2>2 DEF Overflows
  <2>4. (x0 - m) % U16 = x0 - m
    BY <1>4, <2>3
  <2> QED
    BY <1>4, <1>10, <2>1, <2>2, <2>4
<1>12. CASE action = "s"
  BY <1>12 DEF handle_ansi_cursor_sequence
<1>13. CASE action = "u"
  <2>1. u = position(t, <<x9, y9>>)
    BY <1>3, <1>13 DEF handle_ansi_cursor_sequence
  <2>2. Goes(x9, y9)
    BY <1>3, <1>10, <2>1
  <2> QED
    BY <2>2
<1>14. CASE action = "H" /\ Len(params) >= 2
  <2>1. params[1] \in 0 .. U16 - 1 /\ params[2] \in 0 .. U16 - 1
    BY <1>14, ParamFacts
  <2>2. u = position(t, <<LimitedTo(params[1], Width), LimitedTo(params[2], Height)>>)
    BY <1>14 DEF handle_ansi_cursor_sequence
  <2>3. Goes(LimitedTo(params[1], Width), LimitedTo(params[2], Height))
    BY <1>7, <2>1, <2>2
  <2> QED
    BY <2>3
<1>15. CASE action = "H" /\ Len(params) < 2
  <2>1. u = position(t, <<0, 0>>)
    BY <1>15 DEF handle_ansi_cursor_sequence
  <2>2. Goes(0, 0)
    BY <1>4, <2>1
  <2> QED
    BY <2>2
<1>16. CASE action \in {"A", "B", "C", "D", "E", "F", "G"} /\ params = <<>>
  BY <1>16 DEF handle_ansi_cursor_sequence
<1>17. CASE action = "A" /\ params # <<>>
  <2>1. u = position(t, <<x0, to>>)
    BY <1>2, <1>17 DEF handle_ansi_cursor_sequence
  <2>2. Goes(x0, to)
    BY <1>2, <1>9, <1>10, <1>17, <2>1
  <2> QED
    BY <2>2
<1>18. CASE action = "B" /\ params # <<>>
  <2>1. u = position(t, <<x0, AtMost(to, Height)>>)
    BY <1>2, <1>18 DEF handle_ansi_cursor_sequence
  <2>2. Goes(x0, AtMost(to, Height))
    <3> HIDE DEF to, u
    <3> QED
      BY <1>2, <1>9b, <1>10, <1>18, <2>1
  <2> QED
    BY <2>2
<1>19. CASE action = "C" /\ params # <<>>
  <2>1. u = position(t, <<AtMost(to, Width), y0>>)
    BY <1>2, <1>19 DEF handle_ansi_cursor_sequence
  <2>2. Goes(AtMost(to, Width), y0)
    <3> HIDE DEF to, u
    <3> QED
      BY <1>2, <1>9b, <1>19, <2>1
  <2> QED
    BY <2>2
<1>20. CASE action = "D" /\ params # <<>>
  <2>1. u = position(t, <<to, y0>>)
    BY <1>2, <1>20 DEF handle_ansi_cursor_sequence
  <2>2. Goes(to, y0)
    BY <1>2, <1>9, <1>11, <1>20, <2>1
  <2> QED
    BY <2>2
<1>21. CASE action = "E" /\ params # <<>>
  <2>1. u = position(t, <<0, AtMost(to, Height)>>)
    BY <1>21 DEF handle_ansi_cursor_sequence
  <2>2. Goes(0, AtMost(to, Height))
    <3> HIDE DEF to, u
    <3> QED
      BY <1>4, <1>9b, <1>21, <2>1
  <2> QED
    BY <2>2
<1>22. CASE action = "F" /\ params # <<>>
  <2>1. u = position(t, <<0, to>>)
    BY <1>22 DEF handle_ansi_cursor_sequence
  <2>2. Goes(0, to)
    BY <1>4, <1>9, <1>22, <2>1
  <2> QED
    BY <2>2
<1>23. CASE action = "G" /\ params # <<>>
  <2>1. u = position(t, <<AtMost(n, Width), y0>>)
    BY <1>2, <1>23 DEF handle_ansi_cursor_sequence
  <2>2. Goes(AtMost(n, Width), y0)
    <3>1. AtMost(n, Width) \in 0 .. U16 - 1 /\ AtMost(n, Width) <= Width
      <4> HIDE DEF n
      <4> QED
        BY <1>6, <1>9a, <1>23
    <3> HIDE DEF n, to, u
    <3> QED
      BY <1>2, <2>1, <3>1
  <2> QED
    BY <2>2
<1>24. CASE action \notin {"s", "u", "H", "A", "B", "C", "D", "E", "F", "G"}
  BY <1>24 DEF handle_ansi_cursor_sequence
<1>25. Len(params) >= 2 \/ Len(params) < 2
  OBVIOUS
<1> HIDE DEF u
<1> QED
  BY <1>12, <1>13, <1>14, <1>15, <1>16, <1>17, <1>18, <1>19, <1>20, <1>21, <1>22, <1>23, <1>24, <1>25 DEF u

\* Every sequence that moves the cursor keeps it below the status bar, and on the screen
\* unless a column is moved below zero.
LEMMA CursorWorks ==
  ASSUME NEW t, Whole(t), NEW action, NEW params \in Seq(0 .. U16 - 1)
  PROVE  /\ Works(t, handle_ansi_cursor_sequence(t, action, params))
         /\ OnScreen(t) /\ ~Overflows(t, action, params) =>
              OnScreen(handle_ansi_cursor_sequence(t, action, params))
<1>1. PICK u : u = handle_ansi_cursor_sequence(t, action, params)
  OBVIOUS
<1>2. \/ u = t
      \/ u = [t EXCEPT !.c.saved_pos = t.c.pos]
      \/ \E x \in 0 .. U16 - 1, y \in Nat :
           /\ u = position(t, <<x, y>>)
           /\ OnScreen(t) /\ ~Overflows(t, action, params) => x <= Width
  BY <1>1, CursorCases
<1>3. CASE u = t
  BY <1>1, <1>3 DEF Works, Whole, Draws, KeepsBar, Terminals
<1>4. CASE u = [t EXCEPT !.c.saved_pos = t.c.pos]
  BY <1>1, <1>4, SaveWorks
<1>5. CASE \E x \in 0 .. U16 - 1, y \in Nat :
             /\ u = position(t, <<x, y>>)
             /\ OnScreen(t) /\ ~Overflows(t, action, params) => x <= Width
  <2>1. PICK x \in 0 .. U16 - 1, y \in Nat :
             /\ u = position(t, <<x, y>>)
             /\ OnScreen(t) /\ ~Overflows(t, action, params) => x <= Width
    BY <1>5
  <2>2. Positioned(t, u, x)
    BY <2>1, PositionWorks
  <2> QED
    BY <1>1, <2>1, <2>2 DEF Positioned, OnScreen
<1> QED
  BY <1>2, <1>3, <1>4, <1>5

-----------------------------------------------------------------------------
(***************************************************************************)
(* What a loop over a list computes: h is a run of the steps F[1] .. F[n]  *)
(* from s.                                                                 *)
(***************************************************************************)
Run(h, s, F, n) == h = [r \in 0 .. n |-> IF r = 0 THEN s ELSE F[r][h[r - 1]]]
Follows(h, S, s, F, n) == h[0] = s /\ \A r \in 1 .. n : h[r - 1] \in S => h[r] = F[r][h[r - 1]]

\* A nonempty set of numbers has a least element.
LEMMA LeastNat ==
  ASSUME NEW A \in SUBSET Nat, A # {}
  PROVE  \E m \in A : \A a \in A : ~(a < m)
<1>1. PICK m \in A : \A a \in A : ~(<<a, m>> \in OpToRel(<, Nat))
  BY WFMin, NatLessThanWellFounded, Zenon
<1>2. ASSUME NEW a \in Nat, NEW b \in Nat, a < b PROVE <<a, b>> \in OpToRel(<, Nat)
  <2>1. <<a, b>> \in Nat \X Nat /\ <<a, b>>[1] < <<a, b>>[2]
    BY <1>2
  <2> QED
    BY <2>1, Zenon DEF OpToRel
<1> QED
  BY <1>1, <1>2, Zenon

\* A run stays among the states its steps keep.
LEMMA RunType ==
  ASSUME NEW S, NEW s \in S, NEW n \in Nat, NEW F \in [1 .. n -> [S -> S]], NEW h, Follows(h, S, s, F, n)
  PROVE  \A r \in 0 .. n : h[r] \in S
<1> DEFINE A == {r \in 0 .. n : h[r] \notin S}
<1>1. SUFFICES ASSUME A # {} PROVE FALSE
  OBVIOUS
<1>2. A \in SUBSET Nat
  OBVIOUS
<1>3. PICK m \in A : \A a \in A : ~(a < m)
  BY <1>1, <1>2, LeastNat
<1>4. m \in 0 .. n /\ h[m] \notin S
  OBVIOUS
<1>5. m # 0
  BY <1>4 DEF Follows
<1>6. m - 1 \in 0 .. n /\ m \in 1 .. n /\ m - 1 < m
  BY <1>4, <1>5
<1>7. h[m - 1] \in S
  BY <1>3, <1>6
<1>8. F[m] \in [S -> S]
  BY <1>6
<1>9. F[m][h[m - 1]] \in S
  BY <1>7, <1>8
<1> QED
  BY <1>4, <1>6, <1>7, <1>9 DEF Follows

\* Two runs of the same steps are the same as far as the shorter one goes.
LEMMA RunUnique ==
  ASSUME NEW S, NEW s \in S, NEW n \in Nat, NEW F \in [1 .. n -> [S -> S]], NEW h, Follows(h, S, s, F, n),
         NEW g, Follows(g, S, s, F, n)
  PROVE  \A r \in 0 .. n : h[r] = g[r]
<1> DEFINE A == {r \in 0 .. n : h[r] # g[r]}
<1>1. SUFFICES ASSUME A # {} PROVE FALSE
  OBVIOUS
<1>2. A \in SUBSET Nat
  OBVIOUS
<1>3. PICK m \in A : \A a \in A : ~(a < m)
  BY <1>1, <1>2, LeastNat
<1>4. m \in 0 .. n /\ h[m] # g[m]
  OBVIOUS
<1>5. m # 0
  BY <1>4 DEF Follows
<1>6. m - 1 \in 0 .. n /\ m \in 1 .. n /\ m - 1 < m
  BY <1>4, <1>5
<1>7. h[m - 1] = g[m - 1]
  BY <1>3, <1>6
<1>8. h[m - 1] \in S /\ g[m - 1] \in S
  BY <1>6, RunType
<1>9. h[m] = F[m][h[m - 1]] /\ g[m] = F[m][g[m - 1]]
  BY <1>6, <1>8 DEF Follows
<1> QED
  BY <1>4, <1>7, <1>9

\* There is a run.
LEMMA RunExists ==
  ASSUME NEW S, NEW s \in S, NEW n \in Nat, NEW F \in [1 .. n -> [S -> S]]
  PROVE  \E h : Run(h, s, F, n) /\ Follows(h, S, s, F, n)
<1>0. ASSUME NEW h, Run(h, s, F, n) PROVE Follows(h, S, s, F, n)
  BY <1>0 DEF Run, Follows
<1> DEFINE A == {k \in 0 .. n : ~\E h : Run(h, s, F, k)}
<1>1. SUFFICES ASSUME A # {} PROVE FALSE
  BY <1>0
<1>2. A \in SUBSET Nat
  OBVIOUS
<1>3. PICK m \in A : \A a \in A : ~(a < m)
  BY <1>1, <1>2, LeastNat
<1>4. m \in 0 .. n /\ ~\E h : Run(h, s, F, m)
  OBVIOUS
<1>5. CASE m = 0
  <2>1. PICK h : h = [r \in 0 .. 0 |-> s]
    OBVIOUS
  <2>2. h = [r \in 0 .. 0 |-> IF r = 0 THEN s ELSE F[r][h[r - 1]]]
    BY <2>1
  <2> QED
    BY <1>4, <1>5, <2>2 DEF Run
<1>6. CASE m # 0
  <2>1. m - 1 \in 0 .. n /\ m - 1 < m /\ m \in 1 .. n
    BY <1>4, <1>6
  <2>2. PICK g : Run(g, s, F, m - 1)
    BY <1>3, <2>1
  <2>3. \A r \in 0 .. m - 1 : g[r] = IF r = 0 THEN s ELSE F[r][g[r - 1]]
    BY <2>2 DEF Run
  <2>4. PICK h : h = [r \in 0 .. m |-> IF r < m THEN g[r] ELSE F[m][g[m - 1]]]
    OBVIOUS
  <2>5. ASSUME NEW r \in 0 .. m PROVE h[r] = IF r = 0 THEN s ELSE F[r][h[r - 1]]
    <3>1. CASE r = m
      <4>1. h[m - 1] = g[m - 1] /\ h[m] = F[m][g[m - 1]]
        BY <2>1, <2>4
      <4> QED
        BY <1>6, <3>1, <4>1
    <3>2. CASE r # m
      <4>1. r \in 0 .. m - 1 /\ h[r] = g[r]
        BY <1>4, <2>4, <3>2
      <4>2. r # 0 => h[r - 1] = g[r - 1]
        BY <1>4, <2>4
      <4> QED
        BY <2>3, <4>1, <4>2
    <3> QED
      BY <3>1, <3>2
  <2>6. h = [r \in 0 .. m |-> h[r]]
    BY <2>4
  <2>7. Run(h, s, F, m)
    BY <2>5, <2>6 DEF Run
  <2> QED
    BY <1>4, <2>7
<1> QED
  BY <1>5, <1>6

-----------------------------------------------------------------------------
(***************************************************************************)
(* Colours.                                                                *)
(***************************************************************************)
\* A colour is bright or dim again a colour.
LEMMA ShadeFacts ==
  ASSUME NEW col \in Colors
  PROVE  bright(col) \in Colors /\ dim(col) \in Colors
<1>1. \A c \in 0 .. 255 : Brighter(c) \in 0 .. 255 /\ Darker(c) \in 0 .. 255
  BY DEF Brighter, Darker, BRIGHTNESS_SHIFT
<1>2. \A i \in 1 .. 3 : col[i] \in 0 .. 255
  BY DEF Colors
<1> QED
  BY <1>1, <1>2 DEF bright, dim, Colors

\* The eight ANSI colours.
LEMMA AnsiFacts ==
  /\ WHITE \in Colors /\ BLACK \in Colors
  /\ \A i \in 1 .. 8 : AnsiColors[i] \in Colors
<1>1. WHITE \in Colors /\ BLACK \in Colors
  BY DEF WHITE, BLACK, Colors
<1>2. /\ <<170, 0, 0>> \in Colors /\ <<0, 170, 0>> \in Colors /\ <<170, 170, 0>> \in Colors
      /\ <<0, 0, 170>> \in Colors /\ <<170, 0, 170>> \in Colors /\ <<0, 170, 170>> \in Colors
  BY DEF Colors
<1>3. PICK c1, c2, c3, c4, c5, c6 :
        /\ c1 = <<170, 0, 0>> /\ c2 = <<0, 170, 0>> /\ c3 = <<170, 170, 0>>
        /\ c4 = <<0, 0, 170>> /\ c5 = <<170, 0, 170>> /\ c6 = <<0, 170, 170>>
  OBVIOUS
<1>4. AnsiColors = <<BLACK, c1, c2, c3, c4, c5, c6, WHITE>>
  BY <1>3 DEF AnsiColors
<1>5. c1 \in Colors /\ c2 \in Colors /\ c3 \in Colors /\ c4 \in Colors /\ c5 \in Colors /\ c6 \in Colors
  BY <1>2, <1>3
<1>6. ASSUME NEW i \in 1 .. 8 PROVE AnsiColors[i] \in {BLACK, c1, c2, c3, c4, c5, c6, WHITE}
  <2>1. i = 1 \/ i = 2 \/ i = 3 \/ i = 4 \/ i = 5 \/ i = 6 \/ i = 7 \/ i = 8
    OBVIOUS
  <2> QED
    BY <1>4, <2>1
<1> QED
  BY <1>1, <1>5, <1>6

\* Every entry of the table of 256 colours is a colour.
LEMMA TableFacts ==
  \A index \in 0 .. 255 : COLOR_TABLE_256(index) \in Colors
<1> SUFFICES ASSUME NEW index \in 0 .. 255 PROVE COLOR_TABLE_256(index) \in Colors
  OBVIOUS
<1>1. CASE index \in 0 .. 15
  <2>1. COLOR_TABLE_256(index) = AnsiColor(index)
    BY <1>1 DEF COLOR_TABLE_256
  <2>2. CASE index < 8
    BY <2>1, <2>2, AnsiFacts DEF AnsiColor
  <2>3. CASE ~(index < 8)
    <3>1. index - 7 \in 1 .. 8
      BY <1>1, <2>3
    <3>2. AnsiColors[index - 7] \in Colors
      BY <3>1, AnsiFacts
    <3> QED
      BY <2>1, <2>3, <3>2, ShadeFacts DEF AnsiColor
  <2> QED
    BY <2>2, <2>3
<1>2. CASE index \in 16 .. 231
  <2>1. COLOR_TABLE_256(index) = CubeColor(index - 16)
    BY <1>2 DEF COLOR_TABLE_256
  <2>2. PICK n \in Nat : n = index - 16
    BY <1>2
  <2>3. \A j \in 1 .. 6 : CubeLevels[j] \in 0 .. 255
    <3> SUFFICES ASSUME NEW j \in 1 .. 6 PROVE CubeLevels[j] \in 0 .. 255
      OBVIOUS
    <3>1. j = 1 \/ j = 2 \/ j = 3 \/ j = 4 \/ j = 5 \/ j = 6
      OBVIOUS
    <3> QED
      BY <3>1 DEF CubeLevels
  <2>4. ASSUME NEW i \in 1 .. 3 PROVE ((n \div <<36, 6, 1>>[i]) % 6) + 1 \in 1 .. 6
    <3>1. PICK a \in Nat \ {0} : a = <<36, 6, 1>>[i]
      <4>1. i = 1 \/ i = 2 \/ i = 3
        OBVIOUS
      <4> QED
        BY <4>1
    <3>2. n \div a \in Int
      OBVIOUS
    <3> QED
      BY <3>1, <3>2
  <2>5. CubeColor(n) \in Colors
    BY <2>3, <2>4 DEF CubeColor, Colors
  <2> QED
    BY <2>1, <2>2, <2>5
<1>3. CASE index \in 232 .. 255
  <2>1. COLOR_TABLE_256(index) = Grey(index - 232)
    BY <1>3 DEF COLOR_TABLE_256
  <2>2. 8 + 10 * (index - 232) \in 0 .. 255
    BY <1>3
  <2> QED
    BY <2>1, <2>2 DEF Grey, Colors
<1> QED
  BY <1>1, <1>2, <1>3

\* What ansi_color() returns: how many parameters it used, and perhaps a colour.
Found(col) == col.used \in Nat /\ (col.result.some => col.result.col \in Colors)

LEMMA SomeFacts ==
  /\ ~None.some /\ \A c : Some(c).some /\ Some(c).col = c
  /\ \A u \in Nat : Found([used |-> u, result |-> None])
  /\ \A u \in Nat, c \in Colors : Found([used |-> u, result |-> Some(c)])
<1>1. ~None.some /\ \A c : Some(c).some /\ Some(c).col = c
  BY DEF None, Some
<1>2. PICK n : n = None /\ ~n.some
  BY <1>1
<1>3. \A u \in Nat : Found([used |-> u, result |-> n])
  BY <1>2 DEF Found
<1>4. ASSUME NEW u \in Nat, NEW c \in Colors PROVE Found([used |-> u, result |-> Some(c)])
  <2>1. PICK s : s = Some(c) /\ s.some /\ s.col = c
    BY <1>1
  <2>2. Found([used |-> u, result |-> s])
    BY <2>1 DEF Found
  <2> QED
    BY <2>1, <2>2
<1> QED
  BY <1>1, <1>2, <1>3, <1>4

\* A colour from the parameters of a sequence.
LEMMA ComplexColor ==
  ASSUME NEW params \in Seq(0 .. U16 - 1), NEW i \in Nat
  PROVE  Found(parse_complex_color(params, i))
<1>1. PICK col : col = parse_complex_color(params, i)
  OBVIOUS
<1>2. CASE Param(params, i + 1) = 2
  <2>1. CASE i + 4 <= Len(params)
    <3>1. PICK c : c = [j \in 1 .. 3 |-> params[i + 1 + j] % 256]
      OBVIOUS
    <3>2. \A j \in 1 .. 3 : params[i + 1 + j] % 256 \in 0 .. 255
      <4> SUFFICES ASSUME NEW j \in 1 .. 3 PROVE params[i + 1 + j] % 256 \in 0 .. 255
        OBVIOUS
      <4>1. PICK p \in Nat : p = params[i + 1 + j]
        <5>1. i + 1 + j \in 1 .. Len(params)
          BY <2>1, ParamFacts
        <5>2. params[i + 1 + j] \in 0 .. U16 - 1
          BY <5>1, ParamFacts
        <5> QED
          BY <5>2, ScreenFacts
      <4>2. p % 256 \in 0 .. 255
        OBVIOUS
      <4> QED
        BY <4>1, <4>2
    <3>3. c \in Colors
      BY <3>1, <3>2 DEF Colors
    <3>4. col = [used |-> 4, result |-> Some(c)]
      BY <1>1, <1>2, <2>1, <3>1 DEF parse_complex_color
    <3> QED
      BY <1>1, <3>3, <3>4, SomeFacts
  <2>2. CASE ~(i + 4 <= Len(params))
    <3>1. col = [used |-> 4, result |-> None]
      BY <1>1, <1>2, <2>2 DEF parse_complex_color
    <3> QED
      BY <1>1, <3>1, SomeFacts
  <2> QED
    BY <2>1, <2>2
<1>3. CASE Param(params, i + 1) = 5
  <2>1. CASE Param(params, i + 2) \in 0 .. 255
    <3>1. PICK c \in Colors : c = COLOR_TABLE_256(Param(params, i + 2))
      BY <2>1, TableFacts
    <3>2. col = [used |-> 2, result |-> Some(c)]
      BY <1>1, <1>3, <2>1, <3>1 DEF parse_complex_color
    <3> QED
      BY <1>1, <3>1, <3>2, SomeFacts
  <2>2. CASE ~(Param(params, i + 2) \in 0 .. 255)
    <3>1. col = [used |-> 2, result |-> None]
      BY <1>1, <1>3, <2>2 DEF parse_complex_color
    <3> QED
      BY <1>1, <3>1, SomeFacts
  <2> QED
    BY <2>1, <2>2
<1>4. CASE Param(params, i + 1) # 2 /\ Param(params, i + 1) # 5
  <2>1. col = [used |-> 1, result |-> None]
    BY <1>1, <1>4 DEF parse_complex_color
  <2> QED
    BY <1>1, <2>1, SomeFacts
<1> QED
  BY <1>2, <1>3, <1>4

\* One of the eight, the default, or a complex colour.
LEMMA AnsiColorFound ==
  ASSUME NEW params \in Seq(0 .. U16 - 1), NEW i \in Nat, NEW code \in 0 .. 9
  PROVE  Found(ansi_color(code, params, i))
<1>1. CASE code \in 0 .. 7
  <2>1. PICK c \in Colors : c = AnsiColors[code + 1]
    BY <1>1, AnsiFacts
  <2>2. ansi_color(code, params, i) = [used |-> 0, result |-> Some(c)]
    BY <1>1, <2>1 DEF ansi_color
  <2> QED
    BY <2>1, <2>2, SomeFacts
<1>2. CASE code = 9
  <2>1. ansi_color(code, params, i) = [used |-> 0, result |-> Some(WHITE)]
    BY <1>2 DEF ansi_color
  <2> QED
    BY <2>1, SomeFacts, AnsiFacts
<1>3. CASE code = 8
  <2>1. ansi_color(code, params, i) = parse_complex_color(params, i)
    BY <1>3 DEF ansi_color
  <2> QED
    BY <2>1, ComplexColor
<1> QED
  BY <1>1, <1>2, <1>3

\* The state of the loop over the parameters.
Rounds == [n : Nat, k : ColorState]

\* Attributes and base colours keep the type of the colours.
LEMMA ColorUpdates ==
  ASSUME NEW k \in ColorState
  PROVE  /\ \A code : handle_ansi_graphic_rendition(k, code) \in ColorState
         /\ \A c \in Colors, b \in BOOLEAN :
              /\ [k EXCEPT !.fg_base_color = c, !.fg_bright = b] \in ColorState
              /\ [k EXCEPT !.bg_base_color = c, !.bg_bright = b] \in ColorState
         /\ Applied(k) \in ColorState
<1>1. NewColorState \in ColorState
  BY AnsiFacts DEF NewColorState, ColorState
<1>2. \A code : handle_ansi_graphic_rendition(k, code) \in ColorState
  <2>1. [k EXCEPT !.bright = TRUE] \in ColorState /\ [k EXCEPT !.dim = TRUE] \in ColorState
    BY DEF ColorState
  <2>2. [k EXCEPT !.invert = TRUE] \in ColorState /\ [k EXCEPT !.invert = FALSE] \in ColorState
    BY DEF ColorState
  <2>3. [k EXCEPT !.bright = FALSE, !.dim = FALSE] \in ColorState
    BY DEF ColorState
  <2> TAKE code
  <2>4. handle_ansi_graphic_rendition(k, code) \in
          {NewColorState, k, [k EXCEPT !.bright = TRUE], [k EXCEPT !.dim = TRUE],
           [k EXCEPT !.invert = TRUE], [k EXCEPT !.invert = FALSE],
           [k EXCEPT !.bright = FALSE, !.dim = FALSE]}
    BY DEF handle_ansi_graphic_rendition
  <2> QED
    BY <1>1, <2>1, <2>2, <2>3, <2>4
<1>3. ASSUME NEW c \in Colors, NEW b \in BOOLEAN
      PROVE  /\ [k EXCEPT !.fg_base_color = c, !.fg_bright = b] \in ColorState
             /\ [k EXCEPT !.bg_base_color = c, !.bg_bright = b] \in ColorState
  BY DEF ColorState
<1>4. Applied(k) \in ColorState
  <2> DEFINE fg  == IF k.invert THEN k.bg_base_color ELSE k.fg_base_color
             bg  == IF k.invert THEN k.fg_base_color ELSE k.bg_base_color
             fg1 == IF k.bright \/ k.fg_bright THEN bright(fg) ELSE fg
             fg2 == IF k.dim THEN dim(fg1) ELSE fg1
             bg2 == IF k.bg_bright THEN bright(bg) ELSE bg
  <2>1. fg \in Colors /\ bg \in Colors
    BY DEF ColorState
  <2>2. Applied(k) = [k EXCEPT !.fg_color = fg2, !.bg_color = bg2]
    BY DEF Applied
  <2> HIDE DEF fg, bg
  <2>3. fg1 \in Colors /\ bg2 \in Colors
    BY <2>1, ShadeFacts
  <2> HIDE DEF fg1
  <2>4. fg2 \in Colors
    BY <2>3, ShadeFacts
  <2> HIDE DEF fg2, bg2
  <2>5. [k EXCEPT !.fg_color = fg2, !.bg_color = bg2] \in ColorState
    BY <2>3, <2>4 DEF ColorState
  <2> QED
    BY <2>2, <2>5
<1> QED
  BY <1>2, <1>3, <1>4

\* One round of the loop.
LEMMA RoundWorks ==
  ASSUME NEW params \in Seq(0 .. U16 - 1), NEW s \in Rounds, s.n < Len(params)
  PROVE  ColorRound(s, params) \in Rounds
<1>1. s.n \in Nat /\ s.k \in ColorState /\ s = [n |-> s.n, k |-> s.k]
  BY DEF Rounds
<1> DEFINE i == s.n + 1
           code == params[i]
           base == IF code < 90 THEN (code \div 10) * 10 ELSE IF code < 100 THEN 90 ELSE 100
           col == ansi_color(code - base, params, i)
           isBright == base >= 90
           next == [s EXCEPT !.n = i + col.used]
           coloured == code \in 30 .. 39 \/ code \in 90 .. 97 \/ code \in 40 .. 49 \/ code \in 100 .. 107
           rendered == [s EXCEPT !.n = i, !.k = handle_ansi_graphic_rendition(s.k, code)]
           skipped == [s EXCEPT !.n = i]
           fore == [next EXCEPT !.k.fg_base_color = col.result.col, !.k.fg_bright = isBright]
           back == [next EXCEPT !.k.bg_base_color = col.result.col, !.k.bg_bright = isBright]
<1>9. ColorRound(s, params) =
        IF code \in 0 .. 29 THEN rendered
        ELSE IF code \in 30 .. 39 \/ code \in 90 .. 97 THEN IF col.result.some THEN fore ELSE next
        ELSE IF code \in 40 .. 49 \/ code \in 100 .. 107 THEN IF col.result.some THEN back ELSE next
        ELSE skipped
  BY DEF ColorRound
<1>2. i \in Nat /\ i \in 1 .. Len(params)
  BY <1>1, ParamFacts
<1>3. code \in Nat
  BY <1>2, ParamFacts, ScreenFacts
<1> HIDE DEF i, code
<1>4. rendered \in Rounds
  <2>1. handle_ansi_graphic_rendition(s.k, code) \in ColorState
    BY <1>1, ColorUpdates
  <2> QED
    BY <1>1, <1>2, <2>1 DEF Rounds
<1>5. skipped \in Rounds
  BY <1>1, <1>2 DEF Rounds
<1>6. coloured => Found(col)
  <2>1. coloured => code - base \in 0 .. 9
    <3>1. CASE code \in 30 .. 39
      <4>1. code \div 10 = 3
        BY <3>1
      <4> QED
        BY <3>1, <4>1
    <3>2. CASE code \in 40 .. 49
      <4>1. code \div 10 = 4
        BY <3>2
      <4> QED
        BY <3>2, <4>1
    <3>3. CASE code \in 90 .. 97
      BY <3>3
    <3>4. CASE code \in 100 .. 107
      BY <3>4
    <3> QED
      BY <3>1, <3>2, <3>3, <3>4
  <2> QED
    BY <1>2, <2>1, AnsiColorFound
<1>7. isBright \in BOOLEAN
  OBVIOUS
<1> HIDE DEF isBright, col
<1>8. coloured => next \in Rounds /\ (col.result.some => fore \in Rounds /\ back \in Rounds)
  <2> SUFFICES ASSUME coloured PROVE next \in Rounds /\ (col.result.some => fore \in Rounds /\ back \in Rounds)
    OBVIOUS
  <2>1. PICK m \in Nat : m = i + col.used
    BY <1>2, <1>6 DEF Found
  <2>2. PICK z : z = next
    OBVIOUS
  <2>3. z = [n |-> m, k |-> s.k]
    BY <1>1, <2>1, <2>2
  <2>4. z \in Rounds
    BY <1>1, <2>1, <2>3 DEF Rounds
  <2>5. ASSUME col.result.some PROVE fore \in Rounds /\ back \in Rounds
    <3>1. PICK c \in Colors : c = col.result.col
      BY <1>6, <2>5 DEF Found
    <3>2. PICK b \in BOOLEAN : b = isBright
      BY <1>7
    <3>3. PICK kf : kf = [s.k EXCEPT !.fg_base_color = c, !.fg_bright = b]
      OBVIOUS
    <3>4. PICK kb : kb = [s.k EXCEPT !.bg_base_color = c, !.bg_bright = b]
      OBVIOUS
    <3>5. kf \in ColorState /\ kb \in ColorState
      BY <1>1, <3>3, <3>4, ColorUpdates
    <3>6. z.k = s.k
      BY <2>3
    <3>7. fore = [z EXCEPT !.k = kf]
      <4>1. fore = [z EXCEPT !.k.fg_base_color = c, !.k.fg_bright = b]
        BY <2>2, <3>1, <3>2
      <4> HIDE DEF fore
      <4> QED
        BY <2>3, <3>3, <3>6, <4>1
    <3>8. back = [z EXCEPT !.k = kb]
      <4>1. back = [z EXCEPT !.k.bg_base_color = c, !.k.bg_bright = b]
        BY <2>2, <3>1, <3>2
      <4> HIDE DEF back
      <4> QED
        BY <2>3, <3>4, <3>6, <4>1
    <3> HIDE DEF fore, back
    <3> QED
      BY <2>4, <3>5, <3>7, <3>8 DEF Rounds
  <2> QED
    BY <2>2, <2>4, <2>5
<1> HIDE DEF rendered, skipped, next, fore, back, base
<1> QED
  BY <1>4, <1>5, <1>8, <1>9, SMTT(30)

\* Every sequence of colours leaves colours.
LEMMA ColorWorks ==
  ASSUME NEW k \in ColorState, NEW params \in Seq(0 .. U16 - 1)
  PROVE  handle_ansi_color(k, params) \in ColorState
<1>1. PICK N \in Nat : N = Len(params)
  BY ParamFacts
<1> DEFINE s0 == [n |-> 0, k |-> k]
           step == [s \in Rounds |-> IF s.n >= N THEN s ELSE ColorRound(s, params)]
           F == [r \in 1 .. N |-> step]
           rounds[r \in 0 .. Len(params)] ==
             IF r = 0 THEN [n |-> 0, k |-> k]
             ELSE LET s == rounds[r - 1]
                  IN IF s.n >= Len(params) THEN s ELSE ColorRound(s, params)
<1>2. handle_ansi_color(k, params) = Applied(rounds[Len(params)].k)
  BY DEF handle_ansi_color
<1>3. s0 \in Rounds
  BY DEF Rounds
<1>4. step \in [Rounds -> Rounds]
  <2>1. ASSUME NEW s \in Rounds PROVE (IF s.n >= N THEN s ELSE ColorRound(s, params)) \in Rounds
    <3>1. s.n \in Nat
      BY DEF Rounds
    <3> QED
      BY <1>1, <3>1, RoundWorks
  <2> QED
    BY <2>1
<1>5. F \in [1 .. N -> [Rounds -> Rounds]]
  BY <1>4
<1>6. PICK h : Run(h, s0, F, N) /\ Follows(h, Rounds, s0, F, N)
  <2> HIDE DEF s0, F
  <2> QED
    BY <1>3, <1>5, RunExists
<1>7. \A r \in 0 .. N : h[r] \in Rounds
  <2> HIDE DEF s0, F
  <2> QED
    BY <1>3, <1>5, <1>6, RunType
<1>8. h = [r \in 0 .. Len(params) |->
             IF r = 0 THEN [n |-> 0, k |-> k]
             ELSE LET s == h[r - 1]
                  IN IF s.n >= Len(params) THEN s ELSE ColorRound(s, params)]
  <2>1. h = [r \in 0 .. N |-> IF r = 0 THEN s0 ELSE F[r][h[r - 1]]]
    BY <1>6 DEF Run
  <2>2. ASSUME NEW r \in 0 .. N, r # 0
        PROVE  F[r][h[r - 1]] = IF h[r - 1].n >= N THEN h[r - 1] ELSE ColorRound(h[r - 1], params)
    <3>1. r \in 1 .. N /\ r - 1 \in 0 .. N
      BY <2>2
    <3>2. h[r - 1] \in Rounds
      BY <1>7, <3>1
    <3> QED
      BY <3>1, <3>2
  <2> HIDE DEF F
  <2> QED
    BY <1>1, <2>1, <2>2
<1>9. rounds = [r \in 0 .. Len(params) |->
                  IF r = 0 THEN [n |-> 0, k |-> k]
                  ELSE LET s == rounds[r - 1]
                       IN IF s.n >= Len(params) THEN s ELSE ColorRound(s, params)]
  BY <1>8, Zenon
<1> HIDE DEF rounds
<1>10. Follows(rounds, Rounds, s0, F, N)
  <2>1. rounds[0] = s0
    BY <1>1, <1>9
  <2>2. ASSUME NEW r \in 1 .. N, rounds[r - 1] \in Rounds PROVE rounds[r] = F[r][rounds[r - 1]]
    <3>1. r \in 0 .. Len(params) /\ r # 0
      BY <1>1
    <3>2. rounds[r] = IF rounds[r - 1].n >= N THEN rounds[r - 1] ELSE ColorRound(rounds[r - 1], params)
      BY <1>1, <1>9, <3>1
    <3> QED
      BY <2>2, <3>2
  <2> HIDE DEF F, s0
  <2> QED
    BY <2>1, <2>2 DEF Follows
<1>11. rounds[N] \in Rounds
  <2> HIDE DEF s0, F
  <2> QED
    BY <1>3, <1>5, <1>10, RunType
<1>12. rounds[Len(params)].k \in ColorState
  BY <1>1, <1>11 DEF Rounds
<1> QED
  BY <1>2, <1>12, ColorUpdates

-----------------------------------------------------------------------------
(***************************************************************************)
(* What the parser dispatches.                                             *)
(***************************************************************************)
\* The character under a cursor on the screen is inside of the buffer.
LEMMA IndexFacts ==
  ASSUME NEW pos, pos[1] \in Nat, pos[1] <= Width, pos[2] \in 1 .. Height - 1
  PROVE  Index(pos) < Capacity
<1>1. PICK w \in Nat, h \in Nat, u \in Nat : w = Width /\ h = Height /\ u = U16 /\ u > 0
  BY ScreenFacts
<1>2. PICK s \in Nat : s = h * w /\ s = w * h /\ s < Capacity /\ Capacity < u /\ Capacity \in Nat
  BY <1>1, Sizes
<1>3. PICK x \in Nat, y \in 1 .. h - 1 : x = pos[1] /\ y = pos[2] /\ x <= w
  BY <1>1
<1>4. y * w \in Nat /\ y * w + w <= s
  <2>1. PICK z \in Nat : z = h - 1 - y
    BY <1>3
  <2>2. h = y + 1 + z
    BY <1>3, <2>1
  <2>3. (y + 1 + z) * w = y * w + w + z * w /\ z * w \in Nat /\ y * w \in Nat
    BY <1>1, <1>3, <2>1
  <2> QED
    BY <1>1, <1>2, <2>2, <2>3
<1>5. PICK m \in Nat : m = y * w + x /\ m < Capacity /\ m < u
  <2>1. PICK k \in Nat : k = y * w
    BY <1>4
  <2> QED
    BY <1>2, <1>3, <1>4, <2>1
<1>6. m % u = m
  BY <1>1, <1>5
<1>7. Index(pos) = m % u
  BY <1>1, <1>3, <1>5 DEF Index
<1> QED
  BY <1>5, <1>6, <1>7

\* The terminal with other colours.
LEMMA RecolorWorks ==
  ASSUME NEW t, Whole(t), NEW k \in ColorState
  PROVE  Works(t, [t EXCEPT !.k = k]) /\ [t EXCEPT !.k = k].c = t.c
<1>1. t \in Terminals /\ t.d \in Displays /\ Barred(t.d) /\ t.c \in Cursors
  BY TerminalFields DEF Whole
<1>2. [t EXCEPT !.k = k] \in Terminals /\ [t EXCEPT !.k = k].d = t.d /\ [t EXCEPT !.k = k].c = t.c
  BY <1>1 DEF Terminals
<1>3. Draws(t.d, t.d)
  BY <1>1 DEF Draws, KeepsBar
<1> QED
  BY <1>2, <1>3 DEF Works

\* Whether the call moves a row or a column out of u16.
Over(t, call) == call.call = "csi_dispatch" /\ Overflows(t, Normal(call.c), call.params)

\* Every call the parser makes.
LEMMA PerformWorks ==
  ASSUME NEW t, Whole(t), NEW call, call.c \in Values, call.params \in Seq(0 .. U16 - 1),
         ~OutOfBuffer(t, call)
  PROVE  /\ Works(t, Perform(t, call))
         /\ OnScreen(t) /\ ~Over(t, call) => OnScreen(Perform(t, call))
<1>1. PICK u : u = Perform(t, call)
  OBVIOUS
<1>2. t \in Terminals /\ t.d \in Displays /\ t.k \in ColorState /\ Barred(t.d)
  BY TerminalFields DEF Whole
<1>3. CASE call.call = "print"
  <2>1. u = print_char(t, call.c)
    BY <1>1, <1>3 DEF Perform
  <2>2. Index(t.c.pos) \in Int /\ Capacity \in Int
    <3>1. PICK x \in Int, y \in Int, w \in Int, z \in Nat \ {0} :
            x = t.c.pos[1] /\ y = t.c.pos[2] /\ w = Width /\ z = U16
      BY <1>2, TerminalFields, ScreenFacts
    <3>2. y * w + x \in Int
      OBVIOUS
    <3>3. (y * w + x) % z \in Int
      BY <3>2
    <3> QED
      BY <3>1, <3>3, Sizes DEF Index
  <2>3. HasGlyph(call.c) /\ call.c # "NL" => Index(t.c.pos) < Capacity
    BY <1>3, <2>2 DEF OutOfBuffer
  <2> QED
    BY <1>1, <2>1, <2>3, PrintWorks
<1>4. CASE call.call = "execute" /\ call.c = "NL"
  <2>1. u = print_char(t, "NL")
    BY <1>1, <1>4 DEF Perform
  <2> QED
    BY <1>1, <2>1, PrintWorks
<1>5. CASE call.call = "execute" /\ call.c = "TAB"
  <2>1. u = handle_tab(t)
    BY <1>1, <1>5 DEF Perform
  <2> QED
    BY <1>1, <2>1, TabWorks
<1>6. CASE call.call = "csi_dispatch" /\ call.c \in CursorActions
  <2>1. u = handle_ansi_cursor_sequence(t, Normal(call.c), call.params)
    BY <1>1, <1>6 DEF Perform, CursorActions
  <2> QED
    BY <1>1, <1>6, <2>1, CursorWorks DEF Over
<1>7. CASE call.call = "csi_dispatch" /\ call.c \in {"J", "K"}
  <2>1. u = handle_ansi_erase_sequence(t, call.c, call.params)
    BY <1>1, <1>7 DEF Perform, CursorActions
  <2> QED
    BY <1>1, <2>1, EraseWorks
<1>8. CASE call.call = "csi_dispatch" /\ call.c = "m"
  <2>1. PICK k \in ColorState : k = handle_ansi_color(t.k, call.params)
    BY <1>2, ColorWorks
  <2>2. u = [t EXCEPT !.k = k]
    BY <1>1, <1>8, <2>1 DEF Perform, CursorActions
  <2>3. Works(t, u) /\ u.c = t.c
    BY <2>2, RecolorWorks
  <2> QED
    BY <1>1, <2>3 DEF OnScreen
<1>9. CASE /\ call.call # "print"
           /\ ~(call.call = "execute" /\ call.c \in {"NL", "TAB"})
           /\ ~(call.call = "csi_dispatch" /\ call.c \in CursorActions \cup {"J", "K", "m"})
  <2>1. u = t
    BY <1>1, <1>9 DEF Perform
  <2>2. Works(t, u)
    BY <1>2, <2>1 DEF Works, Draws, KeepsBar
  <2> QED
    BY <1>1, <2>1, <2>2
<1> QED
  BY <1>3, <1>4, <1>5, <1>6, <1>7, <1>8, <1>9

\* What a byte dispatches, and what the parser collects.
LEMMA ParserFacts ==
  ASSUME NEW p \in Parsers, NEW b \in Bytes
  PROVE  /\ Dispatched(p, b).c \in Values /\ Dispatched(p, b).params \in Seq(0 .. U16 - 1)
         /\ ParserAfter(p, b) \in Parsers
         /\ Ground \in Parsers
<1>1. b.c \in Values
  BY DEF Values
<1>2. b.params \in Seq(0 .. U16 - 1) /\ p.params \in Seq(0 .. U16 - 1) /\ <<>> \in Seq(0 .. U16 - 1)
  BY StringsAssumption DEF Parsers
<1>3. PICK c, e, q, r : c = b.c /\ e = <<>> /\ q = p.params /\ r = b.params
  OBVIOUS
<1>4. Dispatched(p, b) \in {[call |-> "execute", c |-> c, params |-> e], [call |-> "print", c |-> c, params |-> e],
                            [call |-> "csi_dispatch", c |-> c, params |-> q], [call |-> "none", c |-> c, params |-> e]}
  BY <1>3 DEF Dispatched
<1>5. Dispatched(p, b).c = c /\ Dispatched(p, b).params \in {e, q}
  BY <1>4
<1>6. Ground \in Parsers /\ Escape \in Parsers /\ Collecting(r) \in Parsers
  BY <1>2, <1>3 DEF Ground, Escape, Collecting, Parsers
<1>7. ParserAfter(p, b) \in {p, Ground, Escape, Collecting(r)}
  BY <1>3 DEF ParserAfter
<1> QED
  BY <1>1, <1>2, <1>3, <1>5, <1>6, <1>7

-----------------------------------------------------------------------------
(***************************************************************************)
(* The inductive invariant: the variables have their types, the cursor is  *)
(* where position() may put it, and the bar is visible only where it is    *)
(* buffered, so that flush() does not erase it.                            *)
(***************************************************************************)
Writing == [text : Seq(Bytes), left : Seq(Bytes), copy : Parsers, from : Parsers]

Steady ==
  /\ parser \in Parsers
  /\ writer \in [Writers -> Writing]
  /\ blink \in [visible : BOOLEAN, sleep_counter : {0, 250, 500, 750}]
  /\ writes \in 0 .. MaxWrites /\ unchecked \in BOOLEAN /\ panicked \in BOOLEAN

IInv ==
  /\ Steady
  /\ Whole(Terminal)
  /\ ~unchecked => OnScreen(Terminal)

\* The terminal as its three parts.
LEMMA TerminalIs ==
  /\ Terminal.d = display /\ Terminal.c = cursor /\ Terminal.k = color
  /\ Terminal \in Terminals <=> display \in Displays /\ cursor \in Cursors /\ color \in ColorState
BY DEF Terminal, Terminals

\* A terminal put back into its three parts.
LEMMA SetFacts ==
  ASSUME NEW u \in Terminals, SetTerminal(u)
  PROVE  Terminal' = u /\ display' = u.d /\ cursor' = u.c /\ color' = u.k
<1>1. u = [d |-> u.d, c |-> u.c, k |-> u.k]
  BY DEF Terminals
<1>2. display' = u.d /\ cursor' = u.c /\ color' = u.k
  BY DEF SetTerminal
<1>3. Terminal' = [d |-> display', c |-> cursor', k |-> color']
  BY DEF Terminal
<1> QED
  BY <1>1, <1>2, <1>3

LEMMA InitIInv == Init => IInv
<1> SUFFICES ASSUME Init PROVE IInv
  OBVIOUS
<1>1. Ground \in Parsers /\ <<>> \in Seq(Bytes)
  BY DEF Ground, Parsers
<1>2. Idle \in Writing
  BY <1>1 DEF Idle, Writing
<1>3. Steady
  <2>1. parser \in Parsers
    BY <1>1 DEF Init
  <2>2. writer \in [Writers -> Writing]
    BY <1>2 DEF Init
  <2>3. blink \in [visible : BOOLEAN, sleep_counter : {0, 250, 500, 750}]
    BY DEF Init
  <2>4. writes \in 0 .. MaxWrites
    BY TerminalAssumption DEF Init
  <2>5. unchecked \in BOOLEAN /\ panicked \in BOOLEAN
    BY DEF Init
  <2> QED
    BY <2>1, <2>2, <2>3, <2>4, <2>5 DEF Steady
<1>4. color \in ColorState /\ BLACK \in Colors /\ NewColorState \in ColorState
  BY AnsiFacts DEF Init, NewColorState, ColorState
<1>5. Character(SPACE, NewColorState) \in Glyphs /\ Blank(BLACK) \in Glyphs
  BY <1>4, GlyphFacts DEF Values
<1>6. display \in Displays
  BY <1>5 DEF Init, Displays
<1>7. Barred(display)
  <2>1. display.target = display.lfb
    BY DEF Init
  <2> QED
    BY <2>1 DEF Barred
<1>8. cursor = [pos |-> <<0, 1>>, saved_pos |-> <<0, 1>>]
  BY DEF Init
<1>9. cursor \in Cursors /\ cursor.pos[1] = 0 /\ cursor.saved_pos[1] = 0
  <2>1. PICK p : p = <<0, 1>>
    OBVIOUS
  <2>2. p \in (0 .. U16 - 1) \X (1 .. Height - 1) /\ p[1] = 0
    BY <2>1, ScreenFacts
  <2>3. cursor = [pos |-> p, saved_pos |-> p]
    BY <1>8, <2>1
  <2> QED
    BY <2>2, <2>3 DEF Cursors
<1> QED
  BY <1>3, <1>4, <1>6, <1>7, <1>9, TerminalIs, ScreenFacts DEF IInv, Whole, OnScreen

\* What every step does.
Stepped == IInv' /\ KeepsBar(display, display')

\* A step that leaves the terminal alone.
LEMMA TerminalKept ==
  ASSUME IInv, Steady', UNCHANGED <<display, cursor, color, unchecked>>
  PROVE  Stepped
<1>1. Terminal' = Terminal /\ display' = display /\ unchecked' = unchecked
  BY DEF Terminal
<1> QED
  BY <1>1 DEF IInv, Stepped, KeepsBar

LEMMA CloneStep ==
  ASSUME IInv, NEW w \in Writers, NEW string \in Seq(Bytes), Clone(w, string)
  PROVE  Stepped
<1>1. [text |-> string, left |-> string, copy |-> parser, from |-> parser] \in Writing
  BY DEF IInv, Steady, Writing
<1>2. writer' \in [Writers -> Writing]
  BY <1>1 DEF IInv, Steady, Clone
<1>3. writes' \in 0 .. MaxWrites
  BY TerminalAssumption DEF IInv, Steady, Clone
<1>4. Steady'
  BY <1>2, <1>3 DEF IInv, Steady, Clone
<1> QED
  BY <1>4, TerminalKept DEF Clone

LEMMA SwapStep ==
  ASSUME IInv, NEW w \in Writers, Swap(w)
  PROVE  Stepped
<1>1. Idle \in Writing
  <2>1. Ground \in Parsers /\ <<>> \in Seq(Bytes)
    BY DEF Ground, Parsers
  <2> QED
    BY <2>1 DEF Idle, Writing
<1>2. writer' \in [Writers -> Writing]
  BY <1>1 DEF IInv, Steady, Swap
<1>3. parser' \in Parsers
  BY DEF IInv, Steady, Swap, Writing
<1>4. Steady'
  BY <1>2, <1>3 DEF IInv, Steady, Swap
<1> QED
  BY <1>4, TerminalKept DEF Swap

LEMMA BlinkPanicsStep ==
  ASSUME IInv, BlinkPanics
  PROVE  Stepped
<1>1. Steady'
  BY DEF IInv, Steady, BlinkPanics
<1> QED
  BY <1>1, TerminalKept DEF BlinkPanics

\* A step that sets the terminal to what a call makes of it.
LEMMA TerminalSet ==
  ASSUME IInv, Steady', NEW u, Works(Terminal, u), SetTerminal(u), ~unchecked' => OnScreen(u)
  PROVE  Stepped
<1>1. u \in Terminals /\ Draws(display, u.d)
  BY TerminalIs DEF Works
<1>2. Terminal' = u /\ display' = u.d
  BY <1>1, SetFacts
<1>3. Barred(u.d) /\ KeepsBar(display, u.d)
  BY <1>1 DEF Draws
<1>4. Whole(Terminal')
  BY <1>1, <1>2, <1>3 DEF Whole
<1>5. ~unchecked' => OnScreen(Terminal')
  BY <1>2
<1>6. IInv'
  BY <1>4, <1>5 DEF IInv
<1> QED
  BY <1>2, <1>3, <1>6 DEF Stepped

LEMMA ClearStep ==
  ASSUME IInv, NEW w \in Writers, clear(w)
  PROVE  Stepped
<1>1. Steady'
  BY TerminalAssumption DEF IInv, Steady, clear
<1>2. PICK t : t = Terminal /\ Whole(t) /\ (~unchecked => OnScreen(t))
  BY DEF IInv
<1>3. PICK v : v = clear_screen(t)
  OBVIOUS
<1>4. Works(t, v) /\ v.c = t.c
  BY <1>2, <1>3, ClearWorks
<1>5. Whole(v)
  BY <1>4 DEF Works, Draws, Whole
<1>6. PICK u : u = position(v, <<0, 0>>)
  OBVIOUS
<1>7. Positioned(v, u, 0)
  BY <1>5, <1>6, PositionWorks, ScreenFacts
<1>8. Works(t, u) /\ (OnScreen(t) => OnScreen(u))
  BY <1>4, <1>7, ScreenFacts, DrawsTwice DEF Positioned, Works, OnScreen
<1>9. SetTerminal(u) /\ unchecked' = unchecked
  BY <1>2, <1>3, <1>6 DEF clear
<1> QED
  BY <1>1, <1>2, <1>8, <1>9, TerminalSet

LEMMA BlinkStep ==
  ASSUME IInv, Blink
  PROVE  Stepped
<1>1. Whole(Terminal) /\ Terminal \in Terminals /\ display \in Displays /\ Barred(display)
      /\ cursor.pos[2] \in 1 .. Height - 1
  BY TerminalIs, TerminalFields DEF IInv, Whole
<1>2. Index(cursor.pos) \in 0 .. Capacity - 1
  <2>1. PICK x \in Int, y \in Int, m \in Int, z \in Nat \ {0} :
          x = cursor.pos[1] /\ y = cursor.pos[2] /\ m = Width /\ z = U16
    BY <1>1, TerminalIs, TerminalFields, ScreenFacts
  <2>2. y * m + x \in Int
    OBVIOUS
  <2>3. (y * m + x) % z \in 0 .. z - 1
    BY <2>2
  <2>4. Index(cursor.pos) \in Nat
    BY <2>1, <2>3 DEF Index
  <2> QED
    BY <2>4, Sizes DEF Blink
<1>3. PICK ch : ch = display.chars[Index(cursor.pos)]
  OBVIOUS
<1>4. ch \in Glyphs
  BY <1>1, <1>2, <1>3 DEF Displays
<1>5. PICK g : g = IF blink.visible THEN ch ELSE [ch EXCEPT !.value = CURSOR]
  OBVIOUS
<1>6. g \in Glyphs
  BY <1>4, <1>5, GlyphFacts
<1>7. PICK B \in [Cells -> Glyphs] : /\ B = draw_char(display.target, cursor.pos, g)
                                     /\ \A x \in 0 .. Width - 1 : B[<<x, 0>>] = display.target[<<x, 0>>]
  <2>1. display.target \in [Cells -> Glyphs] /\ cursor.pos[2] # 0
    BY <1>1 DEF Displays
  <2> QED
    BY <1>6, <2>1, PictureFacts
<1>8. PICK e : e = [display EXCEPT !.target = B]
  OBVIOUS
<1>9. e \in Displays /\ e.lfb = display.lfb /\ e.target = B
  BY <1>1, <1>8 DEF Displays
<1>10. Draws(display, e)
  BY <1>1, <1>7, <1>9 DEF Draws, Barred, KeepsBar
<1>11. Draws(display, draw_status_bar(e))
  BY <1>1, <1>9, BarDrawn
<1>12. display' = e \/ display' = draw_status_bar(e)
  BY <1>3, <1>5, <1>7, <1>8 DEF Blink
<1>13. Draws(display, display')
  BY <1>10, <1>11, <1>12
<1>14. Steady'
  <2>1. blink.sleep_counter \in {0, 250, 500, 750}
    BY DEF IInv, Steady
  <2>2. PICK slept \in {250, 500, 750, 1000} : slept = blink.sleep_counter + CURSOR_UPDATE_INTERVAL
    BY <2>1 DEF CURSOR_UPDATE_INTERVAL
  <2>3. PICK v, c : v = ~blink.visible /\ c = IF slept >= 1000 THEN 0 ELSE slept
    OBVIOUS
  <2>4. blink' = [visible |-> v, sleep_counter |-> c]
    BY <2>2, <2>3 DEF Blink
  <2>5. c \in {0, 250, 500, 750}
    BY <2>3
  <2>6. v \in BOOLEAN
    BY <2>3, ZenonT(30)
  <2>7. blink' \in [visible : BOOLEAN, sleep_counter : {0, 250, 500, 750}]
    BY <2>4, <2>5, <2>6
  <2> QED
    BY <2>7 DEF IInv, Steady, Blink
<1>15. PICK u : u = [d |-> display', c |-> cursor, k |-> color]
  OBVIOUS
<1>16. u.d = display' /\ u.c = cursor /\ u.k = color
  BY <1>15
<1>17. u \in Terminals
  BY <1>1, <1>13, <1>15, TerminalIs DEF Draws, Terminals
<1>18. Works(Terminal, u)
  BY <1>13, <1>16, <1>17, TerminalIs DEF Works
<1>19. SetTerminal(u)
  BY <1>16 DEF SetTerminal, Blink
<1>20. ~unchecked' => OnScreen(u)
  BY <1>16, TerminalIs DEF IInv, OnScreen, Blink
<1> QED
  BY <1>14, <1>18, <1>19, <1>20, TerminalSet

LEMMA AdvanceStep ==
  ASSUME IInv, NEW w \in Writers, Advance(w)
  PROVE  Stepped
<1>1. writer[w] \in Writing /\ writer \in [Writers -> Writing]
  BY DEF IInv, Steady
<1>2. PICK left \in Seq(Bytes), p \in Parsers : left = writer[w].left /\ p = writer[w].copy /\ left # <<>>
  BY <1>1 DEF Writing, Advance
<1>3. PICK b \in Bytes : b = Head(left)
  BY <1>2
<1>4. Tail(left) \in Seq(Bytes)
  BY <1>2
<1>5. PICK call : call = Dispatched(p, b) /\ call.c \in Values /\ call.params \in Seq(0 .. U16 - 1)
  BY ParserFacts
<1>6. PICK t : t = Terminal /\ Whole(t) /\ (~unchecked => OnScreen(t))
  BY DEF IInv
<1>7. CASE /\ ~OutOfBuffer(Terminal, call)
           /\ SetTerminal(Perform(Terminal, call))
           /\ writer' = [writer EXCEPT ![w].left = Tail(@), ![w].copy = ParserAfter(@, b)]
           /\ unchecked' = (unchecked \/ Over(Terminal, call))
           /\ UNCHANGED <<panicked, parser, blink, writes>>
  <2>1. PICK u : u = Perform(t, call)
    OBVIOUS
  <2>2. Works(t, u) /\ (OnScreen(t) /\ ~Over(t, call) => OnScreen(u))
    BY <1>5, <1>6, <1>7, <2>1, PerformWorks
  <2>3. PICK q \in Parsers, r \in Seq(Bytes) : q = ParserAfter(p, b) /\ r = Tail(left)
    BY <1>4, ParserFacts
  <2>4. writer' = [writer EXCEPT ![w] = [@ EXCEPT !.left = r, !.copy = q]]
    BY <1>1, <1>2, <1>7, <2>3
  <2>5. [writer[w] EXCEPT !.left = r, !.copy = q] \in Writing
    BY <1>1 DEF Writing
  <2>6. writer' \in [Writers -> Writing]
    BY <1>1, <2>4, <2>5
  <2>7. unchecked' \in BOOLEAN
    BY <1>7, Zenon
  <2>8. Steady'
    BY <1>7, <2>6, <2>7 DEF IInv, Steady
  <2>9. SetTerminal(u)
    BY <1>6, <1>7, <2>1
  <2>10. ~unchecked' => OnScreen(u)
    BY <1>6, <1>7, <2>2
  <2> QED
    BY <1>6, <2>2, <2>8, <2>9, <2>10, TerminalSet
<1>8. CASE panicked' = TRUE /\ UNCHANGED <<display, cursor, color, writer, unchecked, parser, blink, writes>>
  <2>1. Steady'
    BY <1>8 DEF IInv, Steady
  <2> QED
    BY <1>8, <2>1, TerminalKept
<1> QED
  BY <1>2, <1>3, <1>5, <1>7, <1>8 DEF Advance, Over

\* Every step keeps the invariant, and the bar.
LEMMA NextStep == IInv /\ [Next]_vars => Stepped
<1> SUFFICES ASSUME IInv, [Next]_vars PROVE Stepped
  OBVIOUS
<1>1. CASE UNCHANGED vars
  <2>1. Steady'
    BY <1>1 DEF vars, IInv, Steady
  <2> QED
    BY <1>1, <2>1, TerminalKept DEF vars
<1>2. ASSUME NEW w \in Writers, write_str(w) PROVE Stepped
  <2>1. PICK string \in Strings : Clone(w, string)
    BY <1>2 DEF write_str
  <2>2. string \in Seq(Bytes)
    BY StringsAssumption
  <2> QED
    BY <2>1, <2>2, CloneStep
<1>3. ASSUME NEW w \in Writers, read_byte(w) PROVE Stepped
  <2>1. PICK key \in Keys : Clone(w, <<key>>)
    BY <1>3 DEF read_byte
  <2>2. key \in Bytes
    BY DEF Bytes
  <2>3. <<key>> \in Seq(Bytes)
    BY <2>2
  <2> QED
    BY <2>1, <2>3, CloneStep
<1>4. ASSUME NEW w \in Writers, Advance(w) PROVE Stepped
  BY <1>4, AdvanceStep
<1>5. ASSUME NEW w \in Writers, Swap(w) PROVE Stepped
  BY <1>5, SwapStep
<1>6. ASSUME NEW w \in Writers, clear(w) PROVE Stepped
  BY <1>6, ClearStep
<1>7. CASE Blink
  BY <1>7, BlinkStep
<1>8. CASE BlinkPanics
  BY <1>8, BlinkPanicsStep
<1> QED
  BY <1>1, <1>2, <1>3, <1>4, <1>5, <1>6, <1>7, <1>8 DEF Next

\* The invariant says where the cursor is.
LEMMA InBounds == IInv => CursorInBounds
<1> SUFFICES ASSUME IInv PROVE CursorInBounds
  OBVIOUS
<1>1. display \in Displays /\ cursor \in Cursors /\ color \in ColorState
  BY TerminalIs DEF IInv, Whole
<1>2. ASSUME NEW pos \in {cursor.pos, cursor.saved_pos}
      PROVE  /\ pos \in (0 .. U16 - 1) \X (1 .. Height - 1)
             /\ pos[2] \in 1 .. Height - 1
             /\ ~unchecked => pos[1] <= Width /\ Index(pos) < Capacity
  <2>1. pos \in (0 .. U16 - 1) \X (1 .. Height - 1)
    BY <1>1 DEF Cursors
  <2>2. pos[1] \in Nat /\ pos[2] \in 1 .. Height - 1
    BY <2>1, ScreenFacts
  <2>3. ~unchecked => pos[1] <= Width
    BY TerminalIs DEF IInv, OnScreen
  <2> QED
    BY <2>1, <2>2, <2>3, IndexFacts
<1>3. (0 .. U16 - 1) \X (1 .. Height - 1) \subseteq Positions
  <2>1. Height <= U16
    <3>1. PICK h \in Nat, m \in Nat, u \in Nat : h = Height /\ m = Width /\ u = U16 /\ m >= 1 /\ m * h < u
      BY ScreenFacts, Sizes
    <3>2. PICK z \in Nat : z = m - 1
      BY <3>1
    <3>3. m * h = h + z * h /\ z * h \in Nat
      BY <3>1, <3>2
    <3> QED
      BY <3>1, <3>3
  <2>2. 1 .. Height - 1 \subseteq 0 .. U16 - 1
    BY <2>1, ScreenFacts
  <2> QED
    BY <2>2 DEF Positions
<1>4. cursor \in [pos : Positions, saved_pos : Positions]
  BY <1>1, <1>3 DEF Cursors
<1>5. TypeOK
  BY <1>1, <1>4 DEF TypeOK, IInv, Steady, Writing
<1> QED
  BY <1>2, <1>5 DEF CursorInBounds

(***************************************************************************)
(* On a screen of any size, whatever strings any number of threads write   *)
(* at the same time, the cursor stays below the status bar, and, unless a  *)
(* build without overflow checks has wrapped a position, within the        *)
(* columns of the screen and the bounds of the character buffer            *)
(* (position(), print_char(), lfb_terminal.rs:206, 303).                   *)
(***************************************************************************)
THEOREM CursorStaysInBounds == Spec => []CursorInBounds
<1>1. Init => IInv
  BY InitIInv
<1>2. IInv /\ [Next]_vars => IInv'
  BY NextStep DEF Stepped
<1>3. IInv => CursorInBounds
  BY InBounds
<1> QED
  BY <1>1, <1>2, <1>3, PTL DEF Spec

(***************************************************************************)
(* No step erases the status bar from either picture, whatever scrolls,    *)
(* clears, prints or blinks (scroll_up(), clear_screen(),                  *)
(* lfb_terminal.rs:299, 342).                                              *)
(***************************************************************************)
THEOREM StatusBarStays == Spec => StatusBarKept
<1>1. Init => IInv
  BY InitIInv
<1>2. IInv /\ [Next]_vars => IInv'
  BY NextStep DEF Stepped
<1>3. IInv /\ [Next]_vars =>
        [\A x \in 0 .. Width - 1 :
           /\ display.lfb[<<x, 0>>] = Status => display'.lfb[<<x, 0>>] = Status
           /\ display.target[<<x, 0>>] = Status => display'.target[<<x, 0>>] = Status]_vars
  BY NextStep DEF Stepped, KeepsBar
<1> QED
  BY <1>1, <1>2, <1>3, PTL DEF Spec, StatusBarKept

-----------------------------------------------------------------------------
(***************************************************************************)
(* Strings are parsed whole: what is left of a string is its end, and the  *)
(* copy of the parser is where the bytes before lead.                      *)
(***************************************************************************)
Parses(h, from, text, n) == h[0] = from /\ \A r \in 1 .. n : h[r] = ParserAfter(h[r - 1], text[r])

Parsed(x) ==
  LET done == Len(x.text) - Len(x.left)
  IN /\ Len(x.left) <= Len(x.text)
     /\ \A i \in 1 .. Len(x.left) : x.left[i] = x.text[done + i]
     /\ \E h : Parses(h, x.from, x.text, done) /\ x.copy = h[done]

AllParsed == \A w \in Writers : Parsed(writer[w])

\* A string of which nothing is parsed.
LEMMA FreshParsed ==
  ASSUME NEW s \in Seq(Bytes), NEW p, NEW x, x = [text |-> s, left |-> s, copy |-> p, from |-> p]
  PROVE  Parsed(x)
<1>1. x.text = s /\ x.left = s /\ x.copy = p /\ x.from = p
  OBVIOUS
<1>2. PICK m \in Nat : m = Len(s)
  OBVIOUS
<1>3. PICK h : h = [r \in 0 .. 0 |-> p]
  OBVIOUS
<1>4. Parses(h, p, s, 0) /\ h[0] = p
  BY <1>3 DEF Parses
<1>5. Len(x.text) = m /\ Len(x.left) = m /\ m - m = 0 /\ m <= m
  BY <1>1, <1>2
<1>6. \A i \in 1 .. m : s[i] = s[0 + i]
  OBVIOUS
<1>7. \E g : Parses(g, x.from, x.text, 0) /\ x.copy = g[0]
  BY <1>1, <1>4
<1> HIDE DEF Parses
<1> QED
  BY <1>1, <1>5, <1>6, <1>7 DEF Parsed

\* A byte more is parsed.
LEMMA MoreParsed ==
  ASSUME NEW x \in Writing, Parsed(x), x.left # <<>>, NEW y,
         y = [x EXCEPT !.left = Tail(x.left), !.copy = ParserAfter(x.copy, Head(x.left))]
  PROVE  Parsed(y)
<1>0. PICK p, from : p = x.copy /\ from = x.from
  OBVIOUS
<1>1. PICK text \in Seq(Bytes), left \in Seq(Bytes) :
        text = x.text /\ left = x.left /\ p = x.copy /\ from = x.from /\ left # <<>>
  BY <1>0 DEF Writing
<1>2. PICK rest : rest = Tail(left)
  OBVIOUS
<1>3. PICK b : b = Head(left)
  OBVIOUS
<1>4. PICK m \in Nat, n \in Nat : m = Len(text) /\ n = Len(left) /\ n >= 1
  BY <1>1
<1>5. Len(rest) = n - 1 /\ b = left[1] /\ \A i \in 1 .. n - 1 : rest[i] = left[i + 1]
  BY <1>1, <1>2, <1>3, <1>4
<1>6. n <= m /\ (\A i \in 1 .. n : left[i] = text[m - n + i])
      /\ \E h : Parses(h, from, text, m - n) /\ p = h[m - n]
  BY <1>1, <1>4 DEF Parsed
<1>7. PICK d \in Nat : d = m - n /\ d + 1 = m - (n - 1) /\ d + 1 <= m
  BY <1>4, <1>6
<1>8. PICK h : Parses(h, from, text, d) /\ p = h[d]
  BY <1>6, <1>7
<1>9. b = text[d + 1]
  BY <1>4, <1>5, <1>6, <1>7
<1>10. \A i \in 1 .. n - 1 : rest[i] = text[d + 1 + i]
  <2> SUFFICES ASSUME NEW i \in 1 .. n - 1 PROVE rest[i] = text[d + 1 + i]
    OBVIOUS
  <2>1. rest[i] = left[i + 1] /\ i + 1 \in 1 .. n
    BY <1>4, <1>5
  <2>2. left[i + 1] = text[m - n + (i + 1)] /\ m - n + (i + 1) = d + 1 + i
    BY <1>4, <1>6, <1>7, <2>1
  <2> QED
    BY <2>1, <2>2
<1>11. PICK q : q = ParserAfter(p, b)
  OBVIOUS
<1>12. PICK g : g = [r \in 0 .. d + 1 |-> IF r <= d THEN h[r] ELSE q]
  OBVIOUS
<1>13. Parses(g, from, text, d + 1) /\ q = g[d + 1]
  <2>1. g[0] = from /\ q = g[d + 1]
    BY <1>8, <1>12 DEF Parses
  <2>2. ASSUME NEW r \in 1 .. d + 1 PROVE g[r] = ParserAfter(g[r - 1], text[r])
    <3>1. CASE r <= d
      <4>1. g[r] = h[r] /\ g[r - 1] = h[r - 1] /\ r \in 1 .. d
        BY <1>12, <3>1
      <4> QED
        BY <1>8, <4>1 DEF Parses
    <3>2. CASE ~(r <= d)
      <4>1. r = d + 1
        BY <3>2
      <4>2. g[r] = q /\ g[r - 1] = h[d]
        BY <1>12, <4>1
      <4> QED
        BY <1>8, <1>9, <1>11, <4>1, <4>2
    <3> QED
      BY <3>1, <3>2
  <2> QED
    BY <2>1, <2>2 DEF Parses
<1>14. y = [x EXCEPT !.left = rest, !.copy = q]
  BY <1>1, <1>2, <1>3, <1>11
<1>15. y.text = text /\ y.left = rest /\ y.copy = q /\ y.from = from
  BY <1>1, <1>14 DEF Writing
<1>16. Len(y.text) - Len(y.left) = d + 1 /\ Len(y.left) <= Len(y.text)
  <2>1. Len(y.text) = m /\ Len(y.left) = n - 1
    BY <1>4, <1>5, <1>15
  <2>2. m - (n - 1) = d + 1 /\ n - 1 <= m
    BY <1>4, <1>6, <1>7
  <2> QED
    BY <2>1, <2>2
<1>17. \A i \in 1 .. Len(y.left) : y.left[i] = y.text[d + 1 + i]
  BY <1>5, <1>10, <1>15
<1>18. \E f : Parses(f, y.from, y.text, d + 1) /\ y.copy = f[d + 1]
  BY <1>13, <1>15
<1> QED
  BY <1>16, <1>17, <1>18 DEF Parsed

\* Then the copy is what the recursion over the bytes says.
LEMMA ParsedIs ==
  ASSUME NEW x \in Writing, Parsed(x)
  PROVE  LET done == Len(x.text) - Len(x.left)
             after[n \in 0 .. done] == IF n = 0 THEN x.from ELSE ParserAfter(after[n - 1], x.text[n])
         IN  x.copy = after[done]
<1> DEFINE done == Len(x.text) - Len(x.left)
           after[n \in 0 .. done] == IF n = 0 THEN x.from ELSE ParserAfter(after[n - 1], x.text[n])
<1>1. PICK text \in Seq(Bytes), from \in Parsers : text = x.text /\ from = x.from
  BY DEF Writing
<1>2. PICK d \in Nat : d = done /\ d <= Len(text)
  <2>1. PICK m \in Nat, n \in Nat : m = Len(x.text) /\ n = Len(x.left) /\ n <= m
    BY DEF Writing, Parsed
  <2>2. n <= m
    BY <2>1
  <2>3. m - n \in Nat /\ m - n <= m
    BY <2>2
  <2>4. PICK d \in Nat : d = m - n /\ d <= m
    BY <2>3
  <2>5. d = done /\ d <= Len(text)
    BY <1>1, <2>1, <2>4
  <2> QED
    BY <2>5
<1>3. PICK h : Parses(h, from, text, d) /\ x.copy = h[d]
  BY <1>1, <1>2 DEF Parsed
<1>4. PICK g : g = [r \in 0 .. d |-> h[r]]
  OBVIOUS
<1>5. g = [n \in 0 .. done |-> IF n = 0 THEN x.from ELSE ParserAfter(g[n - 1], x.text[n])]
  <2>1. ASSUME NEW n \in 0 .. d PROVE g[n] = IF n = 0 THEN from ELSE ParserAfter(g[n - 1], text[n])
    <3>1. CASE n = 0
      BY <1>3, <1>4, <3>1 DEF Parses
    <3>2. CASE n # 0
      <4>1. n \in 1 .. d /\ g[n] = h[n] /\ g[n - 1] = h[n - 1]
        BY <1>4, <3>2
      <4> QED
        BY <1>3, <3>2, <4>1 DEF Parses
    <3> QED
      BY <3>1, <3>2
  <2>2. g = [n \in 0 .. d |-> g[n]]
    BY <1>4
  <2> HIDE DEF done
  <2> QED
    BY <1>1, <1>2, <2>1, <2>2
<1>6. after = [n \in 0 .. done |-> IF n = 0 THEN x.from ELSE ParserAfter(after[n - 1], x.text[n])]
  BY <1>5, Zenon
<1> HIDE DEF after
<1> DEFINE F == [r \in 1 .. d |-> [p \in Parsers |-> ParserAfter(p, text[r])]]
<1>7. F \in [1 .. d -> [Parsers -> Parsers]]
  <2>1. ASSUME NEW r \in 1 .. d, NEW p \in Parsers PROVE ParserAfter(p, text[r]) \in Parsers
    <3>1. r \in 1 .. Len(text)
      BY <1>2
    <3>2. text[r] \in Bytes
      BY <3>1
    <3> QED
      BY <3>2, ParserFacts
  <2> QED
    BY <2>1
<1>8. Follows(h, Parsers, from, F, d)
  <2>1. \A r \in 1 .. d : h[r - 1] \in Parsers => h[r] = F[r][h[r - 1]]
    BY <1>3 DEF Parses
  <2> HIDE DEF F
  <2> QED
    BY <1>3, <2>1 DEF Parses, Follows
<1>9. Follows(after, Parsers, from, F, d)
  <2>1. after[0] = from
    BY <1>1, <1>2, <1>6
  <2>2. ASSUME NEW r \in 1 .. d PROVE after[r] = ParserAfter(after[r - 1], text[r])
    <3>1. r \in 0 .. done /\ r # 0
      BY <1>2
    <3> HIDE DEF done
    <3>2. after[r] = IF r = 0 THEN x.from ELSE ParserAfter(after[r - 1], x.text[r])
      BY <1>6, <3>1
    <3> QED
      BY <1>1, <3>1, <3>2
  <2>3. \A r \in 1 .. d : after[r - 1] \in Parsers => after[r] = F[r][after[r - 1]]
    BY <2>2
  <2> HIDE DEF F
  <2> QED
    BY <2>1, <2>3 DEF Follows
<1>10. d \in 0 .. d
  OBVIOUS
<1>11. after[d] = h[d]
  <2> HIDE DEF F
  <2> QED
    BY <1>7, <1>8, <1>9, <1>10, RunUnique
<1>12. x.copy = after[done]
  BY <1>2, <1>3, <1>11
<1> QED
  BY <1>12, Zenon DEF after

\* The parser's copies through every step.
LEMMA ParsedStep == IInv /\ AllParsed /\ [Next]_vars => AllParsed'
<1> SUFFICES ASSUME IInv, AllParsed, [Next]_vars PROVE AllParsed'
  OBVIOUS
<1>1. writer \in [Writers -> Writing] /\ parser \in Parsers
  BY DEF IInv, Steady
<1>2. CASE writer' = writer
  BY <1>2 DEF AllParsed
<1>3. ASSUME NEW w \in Writers, NEW x, Parsed(x), writer' = [writer EXCEPT ![w] = x] PROVE AllParsed'
  BY <1>1, <1>3 DEF AllParsed
<1>4. ASSUME NEW w \in Writers, NEW s \in Seq(Bytes), Clone(w, s) PROVE AllParsed'
  <2>1. PICK x : x = [text |-> s, left |-> s, copy |-> parser, from |-> parser]
    OBVIOUS
  <2>2. Parsed(x)
    BY <2>1, FreshParsed
  <2>3. writer' = [writer EXCEPT ![w] = x]
    BY <1>4, <2>1 DEF Clone
  <2> QED
    BY <1>3, <2>2, <2>3
<1>5. ASSUME NEW w \in Writers, write_str(w) PROVE AllParsed'
  <2>1. PICK s \in Strings : Clone(w, s)
    BY <1>5 DEF write_str
  <2>2. s \in Seq(Bytes)
    BY StringsAssumption
  <2> QED
    BY <1>4, <2>1, <2>2
<1>6. ASSUME NEW w \in Writers, read_byte(w) PROVE AllParsed'
  <2>1. PICK key \in Keys : Clone(w, <<key>>)
    BY <1>6 DEF read_byte
  <2>2. key \in Bytes
    BY DEF Bytes
  <2>3. <<key>> \in Seq(Bytes)
    BY <2>2
  <2> QED
    BY <1>4, <2>1, <2>3
<1>7. ASSUME NEW w \in Writers, Advance(w) PROVE AllParsed'
  <2>1. CASE writer' = writer
    BY <1>2, <2>1
  <2>2. CASE writer' = [writer EXCEPT ![w].left = Tail(@), ![w].copy = ParserAfter(@, Head(writer[w].left))]
    <3>1. writer[w] \in Writing /\ Parsed(writer[w]) /\ writer[w].left # <<>>
      BY <1>1, <1>7 DEF AllParsed, Advance
    <3>2. PICK x : x = writer[w]
      OBVIOUS
    <3>3. PICK rest, q : rest = Tail(x.left) /\ q = ParserAfter(x.copy, Head(x.left))
      OBVIOUS
    <3>4. PICK y : y = [x EXCEPT !.left = rest, !.copy = q]
      OBVIOUS
    <3>5. y = [x EXCEPT !.left = Tail(x.left), !.copy = ParserAfter(x.copy, Head(x.left))]
      BY <3>3, <3>4
    <3>6. Parsed(y)
      BY <3>1, <3>2, <3>5, MoreParsed
    <3>7. writer' = [writer EXCEPT ![w].left = rest, ![w].copy = q]
      BY <1>1, <2>2, <3>1, <3>2, <3>3 DEF Writing
    <3>8. writer' = [writer EXCEPT ![w] = y]
      BY <1>1, <3>1, <3>2, <3>4, <3>7 DEF Writing
    <3> QED
      BY <1>3, <3>6, <3>8
  <2> QED
    BY <1>7, <2>1, <2>2 DEF Advance
<1>8. ASSUME NEW w \in Writers, Swap(w) PROVE AllParsed'
  <2>0. PICK e : e = <<>>
    OBVIOUS
  <2>1. e = <<>> /\ e \in Seq(Bytes)
    BY <2>0
  <2>2. PICK x : x = [text |-> e, left |-> e, copy |-> Ground, from |-> Ground]
    OBVIOUS
  <2>3. Parsed(x)
    BY <2>1, <2>2, FreshParsed
  <2>4. writer' = [writer EXCEPT ![w] = x]
    BY <1>8, <2>1, <2>2 DEF Swap, Idle
  <2> QED
    BY <1>3, <2>3, <2>4
<1>9. ASSUME NEW w \in Writers, clear(w) PROVE AllParsed'
  BY <1>2, <1>9 DEF clear
<1>10. CASE Blink
  BY <1>2, <1>10 DEF Blink
<1>11. CASE BlinkPanics
  BY <1>2, <1>11 DEF BlinkPanics
<1>12. CASE UNCHANGED vars
  BY <1>2, <1>12 DEF vars
<1> QED
  BY <1>5, <1>6, <1>7, <1>8, <1>9, <1>10, <1>11, <1>12 DEF Next

(***************************************************************************)
(* Whatever other threads write in the meantime, a thread's string is      *)
(* parsed from the state the parser was in when the thread cloned it, byte *)
(* by byte: a clone of the parser keeps the bytes of two writers apart     *)
(* (write_str(), lfb_terminal.rs:141).                                     *)
(***************************************************************************)
THEOREM StringsAreParsedWhole == Spec => []StringsStayWhole
<1>1. Init => IInv /\ AllParsed
  <2> SUFFICES ASSUME Init PROVE AllParsed
    BY InitIInv
  <2>0. PICK e : e = <<>>
    OBVIOUS
  <2>1. e = <<>> /\ e \in Seq(Bytes)
    BY <2>0
  <2>2. PICK x : x = [text |-> e, left |-> e, copy |-> Ground, from |-> Ground]
    OBVIOUS
  <2>3. Parsed(x)
    BY <2>1, <2>2, FreshParsed
  <2>4. \A w \in Writers : writer[w] = x
    BY <2>1, <2>2 DEF Init, Idle
  <2> QED
    BY <2>3, <2>4 DEF AllParsed
<1>2. IInv /\ AllParsed /\ [Next]_vars => IInv' /\ AllParsed'
  BY NextStep, ParsedStep DEF Stepped
<1>3. IInv /\ AllParsed => StringsStayWhole
  <2> SUFFICES ASSUME IInv, AllParsed, NEW w \in Writers
               PROVE  LET done == Len(writer[w].text) - Len(writer[w].left)
                          after[n \in 0 .. done] == IF n = 0 THEN writer[w].from
                                                    ELSE ParserAfter(after[n - 1], writer[w].text[n])
                      IN  writer[w].copy = after[done]
    BY Zenon DEF StringsStayWhole
  <2>1. writer[w] \in Writing /\ Parsed(writer[w])
    BY DEF IInv, Steady, AllParsed
  <2> QED
    BY <2>1, ParsedIs, Zenon
<1> QED
  BY <1>1, <1>2, <1>3, PTL DEF Spec
=============================================================================
