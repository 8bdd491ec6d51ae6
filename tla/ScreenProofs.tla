---------------------------- MODULE ScreenProofs ----------------------------
(***************************************************************************)
(* Proofs about console output, for screens of every size: the cursor      *)
(* never leaves the region, scrolling output never leaves it either, and   *)
(* the region shows the text that is written to it.                        *)
(*                                                                         *)
(* For the last, the place of every character of the text on an endless    *)
(* page is a function, at (Path), of which there is one (PathUnique).  The *)
(* inductive invariant says of it that it goes down the page (Travelled),  *)
(* that the region is a window on the page and that the cursor is where    *)
(* the page goes on (Displays).  A character that is written lengthens     *)
(* the path (PathAppend) and marks the page (PageAppend).                  *)
(***************************************************************************)
EXTENDS ScreenText, Integers, WellFoundedInduction, TLAPS

Screens == [Row -> [Column -> Glyphs \cup {BLANK}]]

(* A bounded value is within its bounds, whatever it was.                  *)
LEMMA BoundInRange ==
  ASSUME NEW min \in Nat, NEW max \in Nat, min <= max, NEW value \in Nat
  PROVE  /\ bound(min, value, max) \in Nat
         /\ min <= bound(min, value, max)
         /\ bound(min, value, max) <= max
  BY DEF bound

(* The screen after __c_putchar_at is a screen.                            *)
LEMMA PutType ==
  ASSUME NEW s \in Screens, NEW x \in Nat, NEW y \in Nat,
         NEW c \in Glyphs \cup {BLANK}
  PROVE  Put(s, x, y, c) \in Screens
  BY ScreenConstants DEF Put, Screens, Row, Column, max_x, max_y

(* The screen after a part of a row was blanked is a screen.               *)
LEMMA EraseType ==
  ASSUME NEW s \in Screens, NEW y \in Row, NEW from, NEW to
  PROVE  Erase(s, y, from, to) \in Screens
  BY DEF Erase, Screens

(* The screen after a scroll is a screen.                                  *)
LEMMA LiftedType ==
  ASSUME TypeOK, NEW n \in Nat
  PROVE  Lifted(screen, n) \in Screens
<1>1. \A y \in Row : y + n <= region.max_y => y + n \in Row
  BY ScreenConstants DEF TypeOK, Row, InRows
<1> QED
  BY <1>1 DEF Lifted, Screens, TypeOK

(* The initial screen is blank and the cursor at home.                     *)
LEMMA InitType == Init => TypeOK
  BY ScreenConstants DEF Init, TypeOK, Row, Column, max_x, max_y, InColumns, InRows

(* The region that c_setscroll makes is on the screen and not empty.       *)
LEMMA SetscrollType ==
  ASSUME TypeOK, NEW x1 \in Nat, NEW y1 \in Nat, NEW x2 \in Nat, NEW y2 \in Nat,
         c_setscroll(x1, y1, x2, y2)
  PROVE  TypeOK'
<1> DEFINE left   == bound(0, x1, max_x)
           top    == bound(0, y1, max_y)
           right  == bound(left, x2, max_x)
           bottom == bound(top, y2, max_y)
<1>1. max_x \in Nat /\ max_y \in Nat
  BY ScreenConstants DEF max_x, max_y
<1>2. /\ left \in Nat /\ left <= max_x
      /\ top \in Nat /\ top <= max_y
  BY <1>1 DEF bound
<1>3. /\ right \in Nat /\ left <= right /\ right <= max_x
      /\ bottom \in Nat /\ top <= bottom /\ bottom <= max_y
  <2> HIDE DEF left, top
  <2> QED
    BY <1>1, <1>2 DEF bound
<1>4. /\ region' = [min_x |-> left, min_y |-> top, max_x |-> right, max_y |-> bottom]
      /\ curr_x' = left /\ curr_y' = top /\ screen' = screen
  BY DEF c_setscroll
<1> HIDE DEF left, top, right, bottom
<1> QED
  BY <1>1, <1>2, <1>3, <1>4 DEF TypeOK, Row, Column, max_x, max_y, InColumns, InRows

(* c_moveto stays in the region.                                           *)
LEMMA MovetoType ==
  ASSUME TypeOK, NEW x \in Nat, NEW y \in Nat, c_moveto(x, y)
  PROVE  TypeOK'
<1>1. /\ region.min_x \in Nat /\ region.max_x \in Nat /\ region.min_x <= region.max_x
      /\ region.min_y \in Nat /\ region.max_y \in Nat /\ region.min_y <= region.max_y
  BY ScreenConstants DEF TypeOK, Row, Column, InColumns
<1>2. /\ region.min_x <= curr_x' /\ curr_x' <= region.max_x
      /\ region.min_y <= curr_y' /\ curr_y' <= region.max_y
      /\ curr_x' \in Nat /\ curr_y' \in Nat
      /\ UNCHANGED <<screen, region>>
  BY <1>1 DEF c_moveto, bound
<1> QED
  BY <1>1, <1>2 DEF TypeOK, InColumns, InRows

(* The screen as a scroll that was due has left it.                        *)
Scrolled == {screen} \cup {Lifted(screen, n) : n \in Nat}

(* What c_putchar does with c at a place, on a screen s.                   *)
PutcharAt(c, s, x, y) ==
  \/ /\ c = LF
     /\ screen' = Erase(s, y, x, region.max_x)
     /\ curr_x' = region.min_x /\ curr_y' = y + 1
  \/ /\ c = CR
     /\ screen' = s
     /\ curr_x' = region.min_x /\ curr_y' = y
  \/ /\ c \notin {LF, CR}
     /\ screen' = Put(s, x, y, c)
     /\ curr_x' = IF AtEnd(x + 1) THEN region.min_x ELSE x + 1
     /\ curr_y' = IF AtEnd(x + 1) THEN y + 1 ELSE y

(* c_putchar acts at a place in the region.                                *)
LEMMA PutcharPlace ==
  ASSUME TypeOK, NEW c \in AnyChar, c_putchar(c)
  PROVE  \E x, y \in Nat, s \in Scrolled :
           InColumns(x) /\ y \in Row /\ InRows(y) /\ PutcharAt(c, s, x, y)
<1> DEFINE due == IF curr_y > region.max_y THEN curr_y - region.max_y ELSE 0
           all == due > region.max_y - region.min_y
           s   == IF due > 0 THEN Lifted(screen, due) ELSE screen
           x   == IF all THEN region.min_x ELSE curr_x
           y   == IF due > 0 THEN region.max_y ELSE curr_y
<1>1. /\ region.min_x \in Nat /\ region.max_x \in Nat
      /\ region.min_y \in Nat /\ region.max_y \in Nat /\ region.max_y <= max_y
      /\ max_y \in Nat
  BY ScreenConstants DEF TypeOK, Row, Column, max_y
<1>2. due \in Nat /\ x \in Nat /\ y \in Nat /\ InColumns(x) /\ InRows(y)
  BY <1>1 DEF TypeOK, InColumns, InRows
<1>3. y \in Row
  BY <1>1, <1>2, ScreenConstants DEF InRows, Row, max_y
<1>4. s \in Scrolled
  BY <1>2 DEF Scrolled
<1>5. PutcharAt(c, s, x, y)
  BY DEF c_putchar, PutcharAt
<1> HIDE DEF due, all, s, x, y
<1> QED
  BY <1>2, <1>3, <1>4, <1>5

(* c_putchar leaves a screen, and the cursor where it should be.           *)
LEMMA PutcharType ==
  ASSUME TypeOK, NEW c \in AnyChar, c_putchar(c)
  PROVE  TypeOK'
<1>1. PICK x \in Nat, y \in Nat, s \in Scrolled :
        InColumns(x) /\ y \in Row /\ InRows(y) /\ PutcharAt(c, s, x, y)
  BY PutcharPlace
<1>2. /\ region.min_x \in Nat /\ region.max_x \in Nat /\ region.min_x <= region.max_x
      /\ region.min_y \in Nat /\ region.max_y \in Nat
  BY ScreenConstants DEF TypeOK, Row, Column, InColumns
<1>3. s \in Screens
  BY LiftedType DEF TypeOK, Screens, Scrolled
<1>4. screen' \in Screens
  BY <1>1, <1>3, EraseType, PutType DEF AnyChar, PutcharAt
<1>5. /\ curr_x' \in Nat /\ curr_y' \in Nat /\ InColumns(curr_x')
      /\ InRows(curr_y') \/ (curr_y' = region.max_y + 1 /\ curr_x' = region.min_x)
  BY <1>1, <1>2 DEF InColumns, InRows, AtEnd, PutcharAt
<1> QED
  BY <1>4, <1>5 DEF c_putchar, TypeOK, Screens, InColumns, InRows

(* c_scroll and c_clearscroll.                                             *)
LEMMA ScrollType ==
  ASSUME TypeOK, \/ \E lines \in 1 .. SCREEN_Y_SIZE + 1 : c_scroll(lines)
                 \/ c_clearscroll
  PROVE  TypeOK'
<1>1. /\ region.min_x \in Nat /\ region.max_x \in Nat /\ region.min_x <= region.max_x
      /\ region.min_y \in Nat /\ region.max_y \in Nat /\ region.min_y <= region.max_y
  BY ScreenConstants DEF TypeOK, Row, Column, InColumns
<1>2. Cleared(screen) \in Screens
  BY <1>1, LiftedType DEF Cleared
<1>3. CASE c_clearscroll
  BY <1>2, <1>3 DEF c_clearscroll, TypeOK, Screens, InColumns, InRows
<1>4. ASSUME NEW lines \in 1 .. SCREEN_Y_SIZE + 1, c_scroll(lines)
      PROVE  TypeOK'
  <2>1. Lifted(screen, lines) \in Screens
    BY ScreenConstants, LiftedType
  <2>2. CASE lines > region.max_y - region.min_y
    BY <1>1, <1>2, <1>4, <2>2 DEF c_scroll, TypeOK, Screens, InColumns, InRows
  <2>3. CASE ~ (lines > region.max_y - region.min_y)
    BY <1>4, <2>1, <2>3 DEF c_scroll, TypeOK, Screens, InColumns, InRows
  <2> QED
    BY <2>2, <2>3
<1> QED
  BY <1>3, <1>4

(* The functions that write at fixed positions.                            *)
LEMMA FixedType ==
  ASSUME TypeOK, \/ \E x \in AnyX, y \in AnyY, c \in AnyChar \ {CR} : c_putchar_at(x, y, c)
                 \/ c_clearscreen
  PROVE  TypeOK'
<1>1. CASE c_clearscreen
  BY <1>1 DEF c_clearscreen, TypeOK, InColumns, InRows
<1>2. ASSUME NEW x \in AnyX, NEW y \in AnyY, NEW c \in AnyChar \ {CR}, c_putchar_at(x, y, c)
      PROVE  TypeOK'
  <2>1. screen \in Screens /\ x \in Nat /\ y \in Nat /\ (y <= max_y => y \in Row)
    BY ScreenConstants DEF TypeOK, Screens, AnyX, AnyY, Row, max_y
  <2>2. screen' \in Screens
    BY <1>2, <2>1, PutType, EraseType DEF c_putchar_at, AnyChar
  <2> QED
    BY <1>2, <2>2 DEF c_putchar_at, TypeOK, Screens, InColumns, InRows
<1> QED
  BY <1>1, <1>2

(* Every operation keeps the ranges.                                       *)
LEMMA NextType == TypeOK /\ [Next]_vars => TypeOK'
<1> SUFFICES ASSUME TypeOK, [Next]_vars
             PROVE  TypeOK'
  OBVIOUS
<1>1. AnyX \subseteq Nat /\ AnyY \subseteq Nat
  BY ScreenConstants DEF AnyX, AnyY
<1>2. CASE UNCHANGED vars
  BY <1>2 DEF vars, TypeOK, InColumns, InRows
<1>3. CASE \E x1, x2 \in AnyX, y1, y2 \in AnyY : c_setscroll(x1, y1, x2, y2)
  BY <1>1, <1>3, SetscrollType
<1>4. CASE \E x \in AnyX, y \in AnyY : c_moveto(x, y)
  BY <1>1, <1>4, MovetoType
<1>5. CASE \E c \in AnyChar : c_putchar(c)
  BY <1>5, PutcharType
<1>6. CASE (\E lines \in 1 .. SCREEN_Y_SIZE + 1 : c_scroll(lines)) \/ c_clearscroll
  BY <1>6, ScrollType
<1>7. CASE \/ \E x \in AnyX, y \in AnyY, c \in AnyChar \ {CR} : c_putchar_at(x, y, c)
           \/ c_clearscreen
  BY <1>7, FixedType
<1> QED
  BY <1>2, <1>3, <1>4, <1>5, <1>6, <1>7 DEF Next

(* Whatever the kernel prints and wherever, the cursor is in the scrolling *)
(* region or one row below it, and the region is on the screen.            *)
THEOREM CursorInRegion == Spec => []TypeOK
  BY InitType, NextType, PTL DEF Spec

(* Scrolling, clearing and writing in the region never change a cell       *)
(* outside it, whatever the sizes of the screen and the region.            *)
THEOREM RegionConfined == Spec => OutsideUntouched
<1> DEFINE Outside(y, x) == ~ (InRows(y) /\ InColumns(x))
           Kept(s) == \A y \in Row, x \in Column : Outside(y, x) => s[y][x] = screen[y][x]
<1>1. \A n : Kept(Lifted(screen, n))
  BY DEF Lifted
<1>2. ASSUME TypeOK, NEW c \in AnyChar, c_putchar(c)
      PROVE  Kept(screen')
  <2>1. PICK x \in Nat, y \in Nat, s \in Scrolled :
          InColumns(x) /\ y \in Row /\ InRows(y) /\ PutcharAt(c, s, x, y)
    BY <1>2, PutcharPlace
  <2>2. s \in Screens /\ Kept(s)
    BY <1>1, <1>2, LiftedType DEF TypeOK, Screens, Scrolled
  <2>3. region.min_x \in Nat /\ region.max_x \in Nat /\ \A x2 \in Column : x2 \in Nat
    BY <1>2, ScreenConstants DEF TypeOK, Column
  <2>4. ASSUME screen' = Erase(s, y, x, region.max_x),
               NEW y2 \in Row, NEW x2 \in Column, Outside(y2, x2)
        PROVE  screen'[y2][x2] = screen[y2][x2]
    <3>1. y2 # y \/ ~ (x <= x2 /\ x2 <= region.max_x)
      BY <2>1, <2>3, <2>4 DEF InColumns
    <3>2. screen'[y2][x2] = s[y2][x2]
      BY <2>2, <2>4, <3>1 DEF Erase, Screens
    <3> QED
      BY <2>2, <2>4, <3>2
  <2>5. ASSUME screen' = Put(s, x, y, c),
               NEW y2 \in Row, NEW x2 \in Column, Outside(y2, x2)
        PROVE  screen'[y2][x2] = screen[y2][x2]
    <3>1. y2 # y \/ x2 # x
      BY <2>1, <2>5
    <3>2. screen'[y2][x2] = s[y2][x2]
      BY <2>2, <2>5, <3>1 DEF Put, Screens
    <3> QED
      BY <2>2, <2>5, <3>2
  <2> QED
    BY <2>1, <2>2, <2>4, <2>5 DEF PutcharAt
<1>3. ASSUME NEW lines, c_scroll(lines)
      PROVE  Kept(screen')
  BY <1>1, <1>3 DEF c_scroll, Cleared
<1>4. ASSUME c_clearscroll
      PROVE  Kept(screen')
  BY <1>1, <1>4 DEF c_clearscroll, Cleared
<1>5. TypeOK => [ (\/ \E c \in AnyChar : c_putchar(c)
                   \/ \E lines \in 1 .. SCREEN_Y_SIZE + 1 : c_scroll(lines)
                   \/ c_clearscroll)
                  => \A y \in Row, x \in Column :
                       ~ (InRows(y) /\ InColumns(x)) => screen'[y][x] = screen[y][x] ]_vars
  BY <1>2, <1>3, <1>4
<1> QED
  BY CursorInRegion, <1>5, PTL DEF OutsideUntouched

-----------------------------------------------------------------------------
(* A non-empty set of naturals has a least element.                        *)
LEMMA LeastNat ==
  ASSUME NEW S \in SUBSET Nat, S # {}
  PROVE  \E m \in S : \A x \in S : m <= x
<1> DEFINE R == {ss \in Nat \X Nat : ss[1] < ss[2]}
<1>1. IsWellFoundedOn(R, Nat)
  BY NatLessThanWellFounded DEF OpToRel
<1>2. PICK m \in S : \A x \in S : ~ (<<x, m>> \in R)
  BY <1>1, WFMin
<1>3. \A x \in S : ~ (x < m)
  <2> SUFFICES ASSUME NEW x \in S, x < m PROVE FALSE
    OBVIOUS
  <2>1. <<x, m>> \in Nat \X Nat
    OBVIOUS
  <2>2. <<x, m>> \in R
    BY <2>1
  <2> QED
    BY <1>2, <2>2
<1> QED
  BY <1>3

(* A non-empty set of naturals up to n has a greatest element.             *)
LEMMA GreatestNat ==
  ASSUME NEW n \in Nat, NEW S \in SUBSET (1 .. n), S # {}
  PROVE  \E m \in S : \A x \in S : x <= m
<1> DEFINE R == {n - x : x \in S}
<1>1. R \in SUBSET Nat /\ R # {}
  <2>1. \A x \in S : n - x \in Nat
    OBVIOUS
  <2>2. \A y \in R : y \in Nat
    BY <2>1
  <2>3. PICK x \in S : TRUE
    OBVIOUS
  <2>4. n - x \in R
    BY <2>3
  <2> QED
    BY <2>2, <2>4
<1>2. PICK k \in R : \A x \in R : k <= x
  BY <1>1, LeastNat
<1>3. PICK m \in S : k = n - m
  OBVIOUS
<1>4. \A x \in S : n - m <= n - x
  BY <1>2, <1>3
<1> QED
  BY <1>4

-----------------------------------------------------------------------------
(* The endless page.                                                       *)
Corner   == [line |-> 0, col |-> 0]
Position == [line : Nat, col : Nat]

(* at is where the characters of a text go.                                *)
Path(t, width, at) ==
  at = [i \in 0 .. Len(t) |-> IF i = 0 THEN Corner ELSE Onward(at[i - 1], t[i], width)]

(* The line of the last character.                                         *)
LastLine(t, at) == IF t = <<>> THEN 0 ELSE at[Len(t) - 1].line

(* Places are on the page, from left to right and from line to line.       *)
Travelled(t, width, at) ==
  /\ Path(t, width, at)
  /\ at \in [0 .. Len(t) -> Position]
  /\ \A i \in 0 .. Len(t) : at[i].col < width
  /\ \A i \in 0 .. Len(t) : i # Len(t) => at[i].line <= LastLine(t, at)
  /\ LastLine(t, at) \in Nat
  /\ at[Len(t)].line \in {LastLine(t, at), LastLine(t, at) + 1}

HitsOn(t, at, line, col) ==
  {i \in 1 .. Len(t) :
     /\ t[i] # CR /\ at[i - 1].line = line
     /\ IF t[i] = LF THEN at[i - 1].col <= col ELSE at[i - 1].col = col}

PageOn(t, at, line, col) ==
  LET hits  == HitsOn(t, at, line, col)
      final == CHOOSE i \in hits : \A j \in hits : j <= i
  IN  IF hits = {} \/ t[final] = LF THEN BLANK ELSE t[final]

(* There is one such path.                                                 *)
LEMMA PathUnique ==
  ASSUME NEW t \in Seq(AnyChar), NEW width, NEW f, NEW g, Path(t, width, f), Path(t, width, g)
  PROVE  f = g
<1> DEFINE Bad == {i \in 0 .. Len(t) : f[i] # g[i]}
<1>0. PICK n \in Nat : n = Len(t)
  OBVIOUS
<1>1. /\ \A i \in 0 .. n : f[i] = IF i = 0 THEN Corner ELSE Onward(f[i - 1], t[i], width)
      /\ \A i \in 0 .. n : g[i] = IF i = 0 THEN Corner ELSE Onward(g[i - 1], t[i], width)
  BY <1>0 DEF Path
<1>2. Bad = {}
  <2> SUFFICES ASSUME Bad # {} PROVE FALSE
    OBVIOUS
  <2>1. Bad \in SUBSET Nat
    BY <1>0
  <2>2. PICK m \in Bad : \A x \in Bad : m <= x
    BY <2>1, LeastNat
  <2>3. m \in 0 .. n /\ f[m] # g[m]
    BY <1>0
  <2>4. m # 0
    BY <1>1, <2>3
  <2>5. m - 1 \in 0 .. n /\ m - 1 \notin Bad
    BY <2>1, <2>2, <2>3, <2>4
  <2>6. f[m - 1] = g[m - 1]
    BY <1>0, <2>5
  <2> QED
    BY <1>1, <2>3, <2>4, <2>6
<1>3. f = [i \in 0 .. Len(t) |-> f[i]] /\ g = [i \in 0 .. Len(t) |-> g[i]]
  BY DEF Path
<1>4. \A i \in 0 .. Len(t) : f[i] = g[i]
  BY <1>2
<1> QED
  BY <1>3, <1>4

(* PageAt is it.                                                           *)
LEMMA PageAtIs ==
  ASSUME typed \in Seq(AnyChar), NEW at, Path(typed, Width, at)
  PROVE  PageAt = at
<1>1. PageAt = CHOOSE f : Path(typed, Width, f)
  BY Zenon DEF PageAt, Path, Corner
<1>2. \A f : Path(typed, Width, f) => f = at
  BY PathUnique
<1> QED
  BY <1>1, <1>2

(* A character more on the path.                                           *)
LEMMA PathAppend ==
  ASSUME NEW t \in Seq(AnyChar), NEW width \in Nat \ {0}, NEW at, Travelled(t, width, at),
         NEW c \in AnyChar
  PROVE  \E g : /\ Travelled(Append(t, c), width, g)
                /\ \A i \in 0 .. Len(t) : g[i] = at[i]
                /\ g[Len(t) + 1] = Onward(at[Len(t)], c, width)
                /\ LastLine(Append(t, c), g) = at[Len(t)].line
<1>0. PICK n \in Nat : n = Len(t)
  OBVIOUS
<1> DEFINE a == at[n]
           b == Onward(a, c, width)
           u == Append(t, c)
           g == [i \in 0 .. n + 1 |-> IF i <= n THEN at[i] ELSE b]
<1>1. /\ Len(u) = n + 1 /\ u # << >> /\ u[n + 1] = c
      /\ \A i \in 1 .. n : u[i] = t[i]
  BY <1>0
<1>2. /\ at \in [0 .. n -> Position] /\ \A i \in 0 .. n : at[i].col < width
      /\ \A i \in 0 .. n : i # n => at[i].line <= LastLine(t, at)
      /\ LastLine(t, at) \in Nat /\ a.line \in {LastLine(t, at), LastLine(t, at) + 1}
  BY <1>0 DEF Travelled
<1>3. /\ at[0] = Corner
      /\ \A i \in 1 .. n : at[i] = Onward(at[i - 1], t[i], width)
  <2>1. \A i \in 0 .. n : at[i] = IF i = 0 THEN Corner ELSE Onward(at[i - 1], t[i], width)
    BY <1>0 DEF Travelled, Path
  <2> QED
    BY <2>1
<1>4. a \in Position /\ a.line \in Nat /\ a.col \in Nat /\ a.col < width
  BY <1>2 DEF Position
<1>5. b \in Position /\ b.col < width /\ b.line \in {a.line, a.line + 1}
  BY <1>4 DEF Onward, Position, LF, CR
<1> HIDE DEF a, b, u
<1>6. /\ \A i \in 0 .. n : g[i] = at[i]
      /\ g[n + 1] = b
      /\ g \in [0 .. n + 1 -> Position]
  BY <1>2, <1>5
<1>7. LastLine(u, g) = a.line
  BY <1>1, <1>6 DEF LastLine, a
<1>8. Path(u, width, g)
  <2>1. \A i \in 0 .. n + 1 :
          g[i] = IF i = 0 THEN Corner ELSE Onward(g[i - 1], u[i], width)
    <3> SUFFICES ASSUME NEW i \in 0 .. n + 1
                 PROVE  g[i] = IF i = 0 THEN Corner ELSE Onward(g[i - 1], u[i], width)
      OBVIOUS
    <3> HIDE DEF g
    <3>1. CASE i = 0
      BY <1>3, <1>6, <3>1
    <3>2. CASE i \in 1 .. n
      <4>1. i - 1 \in 0 .. n /\ i \in 0 .. n /\ i # 0
        BY <3>2
      <4> QED
        BY <1>1, <1>3, <1>6, <3>2, <4>1
    <3>3. CASE i = n + 1
      BY <1>1, <1>6, <3>3 DEF a, b
    <3> QED
      BY <3>1, <3>2, <3>3
  <2>2. g = [i \in 0 .. n + 1 |-> g[i]]
    OBVIOUS
  <2> HIDE DEF g
  <2> QED
    BY <1>1, <2>1, <2>2 DEF Path
<1>9. /\ \A i \in 0 .. n + 1 : g[i].col < width
      /\ \A i \in 0 .. n + 1 : i # n + 1 => g[i].line <= a.line
  <2> HIDE DEF g
  <2>1. \A i \in 0 .. n : at[i].line \in Nat /\ at[i].line <= a.line
    <3>1. \A i \in 0 .. n : at[i].line \in Nat
      BY <1>2 DEF Position
    <3> QED
      BY <1>2, <1>4, <3>1 DEF a
  <2>2. \A i \in 0 .. n + 1 : i # n + 1 => i \in 0 .. n
    OBVIOUS
  <2> QED
    BY <1>2, <1>5, <1>6, <2>1, <2>2
<1> HIDE DEF g
<1>10. Travelled(u, width, g)
  BY <1>1, <1>4, <1>5, <1>6, <1>7, <1>8, <1>9 DEF Travelled
<1> QED
  BY <1>0, <1>6, <1>7, <1>10 DEF a, b, u

(* A character more on the page: a newline erases the rest of its line, a  *)
(* carriage return leaves no mark.                                         *)
LEMMA PageAppend ==
  ASSUME NEW t \in Seq(AnyChar), NEW at, NEW c \in AnyChar, NEW g,
         \A i \in 0 .. Len(t) : g[i] = at[i], NEW line, NEW col
  PROVE  PageOn(Append(t, c), g, line, col) =
           IF c = LF /\ at[Len(t)].line = line /\ at[Len(t)].col <= col THEN BLANK
           ELSE IF c \notin {LF, CR} /\ at[Len(t)].line = line /\ at[Len(t)].col = col THEN c
           ELSE PageOn(t, at, line, col)
<1>0. PICK n \in Nat : n = Len(t)
  OBVIOUS
<1> DEFINE u    == Append(t, c)
           old  == HitsOn(t, at, line, col)
           new  == HitsOn(u, g, line, col)
           here == /\ c # CR /\ at[n].line = line
                   /\ IF c = LF THEN at[n].col <= col ELSE at[n].col = col
<1>1. /\ Len(u) = n + 1 /\ u[n + 1] = c
      /\ \A i \in 1 .. n : u[i] = t[i]
  BY <1>0
<1> HIDE DEF u
<1>2. \A i \in 1 .. n : i \in new <=> i \in old
  <2>1. \A i \in 1 .. n : i \in 1 .. n + 1 /\ i - 1 \in 0 .. n
    OBVIOUS
  <2> QED
    BY <1>0, <1>1, <2>1 DEF HitsOn
<1>3. n + 1 \in new <=> here
  <2>1. n + 1 \in 1 .. n + 1 /\ n + 1 - 1 = n /\ n \in 0 .. n
    OBVIOUS
  <2> QED
    BY <1>0, <1>1, <2>1 DEF HitsOn
<1>4. old \subseteq 1 .. n /\ new \subseteq 1 .. n + 1
  BY <1>0, <1>1 DEF HitsOn
<1>5. /\ PageOn(u, g, line, col) =
           LET final == CHOOSE i \in new : \A j \in new : j <= i
           IN  IF new = {} \/ u[final] = LF THEN BLANK ELSE u[final]
      /\ PageOn(t, at, line, col) =
           LET final == CHOOSE i \in old : \A j \in old : j <= i
           IN  IF old = {} \/ t[final] = LF THEN BLANK ELSE t[final]
  BY DEF PageOn
<1> HIDE DEF old, new
<1>6. CASE here
  <2>1. n + 1 \in new /\ \A j \in new : j <= n + 1
    BY <1>3, <1>4, <1>6
  <2>2. \A i \in new : (\A j \in new : j <= i) => i = n + 1
    BY <1>4, <2>1
  <2>3. (CHOOSE i \in new : \A j \in new : j <= i) = n + 1
    BY <2>1, <2>2
  <2>4. PageOn(u, g, line, col) = IF c = LF THEN BLANK ELSE c
    BY <1>1, <1>5, <2>1, <2>3
  <2> QED
    BY <1>0, <1>6, <2>4 DEF u
<1>7. CASE ~ here
  <2>1. new = old
    <3>1. new \subseteq 1 .. n
      BY <1>3, <1>4, <1>7
    <3> QED
      BY <1>2, <1>4, <3>1
  <2>2. ASSUME old = {} PROVE PageOn(u, g, line, col) = PageOn(t, at, line, col)
    BY <1>5, <2>1, <2>2
  <2>3. ASSUME old # {} PROVE PageOn(u, g, line, col) = PageOn(t, at, line, col)
    <3> DEFINE final == CHOOSE i \in old : \A j \in old : j <= i
    <3>1. \E m \in old : \A x \in old : x <= m
      BY <1>4, <2>3, GreatestNat
    <3>2. final \in old
      BY <3>1
    <3>3. u[final] = t[final]
      BY <1>1, <1>4, <3>2
    <3>4. PageOn(u, g, line, col) = PageOn(t, at, line, col)
      BY <1>5, <2>1, <3>3
    <3> QED
      BY <3>4
  <2>4. PageOn(u, g, line, col) = PageOn(t, at, line, col)
    BY <2>2, <2>3
  <2>5. /\ ~ (c = LF /\ at[n].line = line /\ at[n].col <= col)
        /\ ~ (c \notin {LF, CR} /\ at[n].line = line /\ at[n].col = col)
    BY <1>7 DEF LF, CR
  <2> QED
    BY <1>0, <2>4, <2>5 DEF u
<1> QED
  BY <1>6, <1>7

(* Below the line of the last character the page is blank.                 *)
LEMMA BelowBlank ==
  ASSUME NEW t \in Seq(AnyChar), NEW width, NEW at, Travelled(t, width, at),
         NEW line \in Nat, line > LastLine(t, at), NEW col
  PROVE  PageOn(t, at, line, col) = BLANK
<1>0. PICK n \in Nat : n = Len(t)
  OBVIOUS
<1>1. \A i \in 1 .. n : at[i - 1].line \in Nat /\ at[i - 1].line <= LastLine(t, at)
  <2>1. \A i \in 1 .. n : i - 1 \in 0 .. n /\ i - 1 # n
    OBVIOUS
  <2>2. \A i \in 0 .. n : at[i].line \in Nat
    BY <1>0 DEF Travelled, Position
  <2> QED
    BY <1>0, <2>1, <2>2 DEF Travelled
<1>2. LastLine(t, at) \in Nat
  BY DEF Travelled
<1>3. \A i \in 1 .. n : at[i - 1].line # line
  BY <1>1, <1>2
<1>4. HitsOn(t, at, line, col) = {}
  BY <1>0, <1>3 DEF HitsOn
<1> QED
  BY <1>4 DEF PageOn

-----------------------------------------------------------------------------
(* The line of the page that is in the first row of the region.            *)
Top(last, height) == IF last < height THEN 0 ELSE last - height + 1

(* The region shows the page, and the cursor is where the page goes on.    *)
Displays(t, at) ==
  LET top == Top(LastLine(t, at), Height)
  IN  /\ curr_x = region.min_x + at[Len(t)].col
      /\ curr_y + top = region.min_y + at[Len(t)].line
      /\ \A r \in 0 .. Height - 1, col \in 0 .. Width - 1 :
           screen[region.min_y + r][region.min_x + col] = PageOn(t, at, top + r, col)

(* The text is followed, and the next character goes to Here(at).          *)
Following(at) == typed \in Seq(AnyChar) /\ Travelled(typed, Width, at) /\ Displays(typed, at)
Here(at)      == at[Len(typed)]
Extends(g, at) == \A i \in 0 .. Len(typed) : g[i] = at[i]

Followed      == \E at : Following(at)

(* The inductive invariant.                                                *)
TextInv ==
  /\ TypeOK
  /\ typed \in Seq(AnyChar)
  /\ known => Followed

(* A region is not empty.                                                  *)
LEMMA RegionSize ==
  ASSUME TypeOK
  PROVE  /\ region.min_x \in Nat /\ region.max_x \in Nat /\ region.min_x <= region.max_x
         /\ region.min_y \in Nat /\ region.max_y \in Nat /\ region.min_y <= region.max_y
         /\ Width \in Nat \ {0} /\ Height \in Nat \ {0}
         /\ \A r \in 0 .. Height - 1 : region.min_y + r \in Row /\ InRows(region.min_y + r)
         /\ \A col \in 0 .. Width - 1 : region.min_x + col \in Column /\ InColumns(region.min_x + col)
<1>1. /\ region.min_x \in Column /\ region.max_x \in Column /\ region.min_x <= region.max_x
      /\ region.min_y \in Row /\ region.max_y \in Row /\ region.min_y <= region.max_y
  <2>1. \A x \in Column : x \in Nat
    BY ScreenConstants DEF Column
  <2> QED
    BY <2>1 DEF TypeOK, InColumns
<1>2. PICK x0 \in Column, x1 \in Column, y0 \in Row, y1 \in Row :
        /\ x0 = region.min_x /\ x1 = region.max_x /\ y0 = region.min_y /\ y1 = region.max_y
        /\ x0 <= x1 /\ y0 <= y1
  BY <1>1
<1>3. x0 \in Nat /\ x1 \in Nat /\ y0 \in Nat /\ y1 \in Nat
  BY ScreenConstants DEF Row, Column
<1>4. Width = x1 - x0 + 1 /\ Height = y1 - y0 + 1
  BY <1>2 DEF Width, Height
<1>5. Width \in Nat \ {0} /\ Height \in Nat \ {0}
  BY <1>2, <1>3, <1>4
<1>6. ASSUME NEW r \in 0 .. Height - 1 PROVE y0 + r \in Row /\ y0 <= y0 + r /\ y0 + r <= y1
  <2>1. r \in Nat /\ y0 + r <= y1
    BY <1>2, <1>3, <1>4
  <2> QED
    BY <1>2, <1>3, <2>1, ScreenConstants DEF Row
<1>7. ASSUME NEW col \in 0 .. Width - 1 PROVE x0 + col \in Column /\ x0 <= x0 + col /\ x0 + col <= x1
  <2>1. col \in Nat /\ x0 + col <= x1
    BY <1>2, <1>3, <1>4
  <2> QED
    BY <1>2, <1>3, <2>1, ScreenConstants DEF Column
<1> QED
  BY <1>2, <1>3, <1>5, <1>6, <1>7 DEF InRows, InColumns

(* The screen that c_putchar puts a character on, and where.               *)
Due      == IF curr_y > region.max_y THEN curr_y - region.max_y ELSE 0
Before   == IF Due > 0 THEN Lifted(screen, Due) ELSE screen
BeforeX  == IF Due > region.max_y - region.min_y THEN region.min_x ELSE curr_x
BeforeY  == IF Due > 0 THEN region.max_y ELSE curr_y

(* The scroll that is due makes room for the line of the next character.   *)
LEMMA RoomIsMade ==
  ASSUME TypeOK, NEW at, Following(at),
         NEW a, a = Here(at), NEW top, top = Top(a.line, Height)
  PROVE  /\ a.line \in Nat /\ a.col \in 0 .. Width - 1 /\ top \in Nat
         /\ BeforeX = region.min_x + a.col
         /\ BeforeY + top = region.min_y + a.line /\ BeforeY \in Row /\ InRows(BeforeY)
         /\ Before \in Screens
         /\ \A r \in 0 .. Height - 1, col \in 0 .. Width - 1 :
              Before[region.min_y + r][region.min_x + col] = PageOn(typed, at, top + r, col)
<1> DEFINE last == LastLine(typed, at)
           old  == Top(last, Height)
<1>1. /\ a.line \in Nat /\ a.col \in Nat /\ a.col < Width
      /\ last \in Nat /\ a.line \in {last, last + 1}
  BY DEF Following, Here, Travelled, Position
<1>2. /\ curr_x = region.min_x + a.col
      /\ curr_y + old = region.min_y + a.line
      /\ \A r \in 0 .. Height - 1, col \in 0 .. Width - 1 :
           screen[region.min_y + r][region.min_x + col] = PageOn(typed, at, old + r, col)
  BY DEF Following, Here, Displays
<1>3. PICK x0 \in Nat, x1 \in Nat, y0 \in Nat, y1 \in Nat, w \in Nat, h \in Nat :
        /\ x0 = region.min_x /\ x1 = region.max_x /\ y0 = region.min_y /\ y1 = region.max_y
        /\ x0 <= x1 /\ y0 <= y1 /\ w = Width /\ h = Height
        /\ w = x1 - x0 + 1 /\ h = y1 - y0 + 1
  BY RegionSize DEF Width, Height
<1> HIDE DEF last
<1>4. PICK l \in Nat, k \in Nat, m \in Nat :
        l = a.line /\ k = a.col /\ m = last /\ l \in {m, m + 1}
  BY <1>1
<1>5. /\ old = IF m < h THEN 0 ELSE m - h + 1
      /\ top = IF l < h THEN 0 ELSE l - h + 1
  BY <1>3, <1>4 DEF Top
<1>6. old \in Nat /\ top \in Nat
  <2> HIDE DEF old
  <2> QED
    BY <1>3, <1>4, <1>5
<1>7. curr_y \in Nat /\ \/ y0 <= curr_y /\ curr_y <= y1
                        \/ curr_y = y1 + 1 /\ curr_x = x0
  BY <1>3 DEF TypeOK, InRows
<1>8. /\ Due \in {0, 1} /\ top = old + Due
      /\ Due = 1 => l = m + 1 /\ top + h = l + 1
  <2>1. Due = IF curr_y > y1 THEN curr_y - y1 ELSE 0
    BY <1>3 DEF Due
  <2>2. PICK cy \in Nat, o \in Nat, tp \in Nat :
          /\ cy = curr_y /\ o = old /\ tp = top /\ cy + o = y0 + l
          /\ o = IF m < h THEN 0 ELSE m - h + 1
          /\ tp = IF l < h THEN 0 ELSE l - h + 1
          /\ cy <= y1 \/ cy = y1 + 1
    BY <1>2, <1>3, <1>4, <1>5, <1>6, <1>7
  <2>3. PICK d \in {0, 1} : d = IF cy > y1 THEN cy - y1 ELSE 0
    BY <2>2
  <2>4. y1 + 1 = y0 + h /\ h \in Nat \ {0}
    BY <1>3
  <2>5. tp = o + d /\ (d = 1 => l = m + 1 /\ tp + h = l + 1)
    <3>1. CASE l = m
      <4>1. tp = o
        BY <2>2, <3>1
      <4>2. o <= l /\ l < o + h
        BY <2>2, <2>4, <3>1
      <4>3. cy <= y1
        BY <2>2, <2>4, <4>2
      <4> QED
        BY <2>3, <4>1, <4>3
    <3>2. CASE l = m + 1
      <4>1. CASE l < h
        <5>1. tp = 0 /\ o = 0
          BY <2>2, <3>2, <4>1
        <5>2. cy <= y1
          BY <2>2, <2>4, <4>1, <5>1
        <5> QED
          BY <2>3, <5>1, <5>2
      <4>2. CASE ~ (l < h)
        <5>1. tp = o + 1 /\ tp + h = l + 1
          BY <2>2, <2>4, <3>2, <4>2
        <5>2. cy > y1
          BY <2>2, <2>4, <5>1
        <5>3. d = 1
          BY <2>2, <2>3, <5>2
        <5> QED
          BY <3>2, <5>1, <5>3
      <4> QED
        BY <4>1, <4>2
    <3> QED
      BY <1>4, <3>1, <3>2
  <2> QED
    BY <2>1, <2>2, <2>3, <2>5
<1> HIDE DEF old
<1>9. BeforeX = region.min_x + a.col
  BY <1>2, <1>3, <1>7, <1>8 DEF BeforeX, Due
<1>10. PICK o \in Nat, tp \in Nat, cy \in Nat :
         o = old /\ tp = top /\ cy = curr_y /\ cy + o = y0 + l
  BY <1>2, <1>3, <1>4, <1>6, <1>7
<1>11. /\ BeforeY + tp = y0 + l /\ y0 <= BeforeY /\ BeforeY <= y1 /\ BeforeY \in Nat
       /\ BeforeY + top = region.min_y + a.line
  <2>1. CASE Due = 0
    <3>1. BeforeY = cy /\ cy <= y1
      BY <1>3, <1>7, <1>10, <2>1 DEF BeforeY, Due
    <3>2. tp = o /\ y0 <= cy
      BY <1>3, <1>7, <1>8, <1>10, <2>1
    <3> QED
      BY <1>3, <1>4, <1>10, <3>1, <3>2
  <2>2. CASE Due = 1
    <3>1. BeforeY = y1
      BY <1>3, <2>2 DEF BeforeY
    <3>2. tp + h = l + 1
      BY <1>8, <1>10, <2>2
    <3>3. y1 + 1 = y0 + h
      BY <1>3
    <3>4. y1 + tp = y0 + l
      BY <3>2, <3>3
    <3>5. BeforeY + tp = y0 + l /\ y0 <= BeforeY /\ BeforeY <= y1 /\ BeforeY \in Nat
      BY <1>3, <3>1, <3>4
    <3> QED
      BY <1>3, <1>4, <1>10, <3>5
  <2> QED
    BY <1>8, <2>1, <2>2
<1>12. BeforeY \in Row /\ InRows(BeforeY)
  BY <1>3, <1>11, ScreenConstants DEF Row, InRows, TypeOK
<1>13. Before \in Screens
  BY <1>8, LiftedType DEF Before, TypeOK, Screens
<1>14. ASSUME NEW r \in 0 .. h - 1, NEW col \in 0 .. w - 1
       PROVE  Before[y0 + r][x0 + col] = PageOn(typed, at, top + r, col)
  <2>1. CASE Due = 0
    <3>1. top = old
      BY <1>6, <1>8, <2>1
    <3> QED
      BY <1>2, <1>3, <2>1, <3>1 DEF Before
  <2>2. CASE Due = 1
    <3>1. Before = Lifted(screen, 1)
      BY <2>2 DEF Before
    <3>2. /\ y0 + r \in Row /\ InRows(y0 + r)
          /\ x0 + col \in Column /\ InColumns(x0 + col)
      BY <1>3, RegionSize
    <3>3. Before[y0 + r][x0 + col] = IF y0 + r + 1 <= y1 THEN screen[y0 + r + 1][x0 + col] ELSE BLANK
      BY <1>3, <3>1, <3>2 DEF Lifted
    <3>4. CASE y0 + r + 1 <= y1
      <4>1. r + 1 \in 0 .. h - 1 /\ y0 + r + 1 = y0 + (r + 1) /\ old + (r + 1) = top + r
        <5>1. tp = o + 1
          BY <1>8, <1>10, <2>2
        <5>2. r + 1 \in 0 .. h - 1 /\ y0 + r + 1 = y0 + (r + 1) /\ o + (r + 1) = tp + r
          BY <1>3, <3>4, <5>1
        <5> QED
          BY <1>10, <5>2
      <4>2. screen[y0 + (r + 1)][x0 + col] = PageOn(typed, at, old + (r + 1), col)
        BY <1>2, <1>3, <4>1
      <4> QED
        BY <3>3, <3>4, <4>1, <4>2
    <3>5. CASE ~ (y0 + r + 1 <= y1)
      <4>1. top + r = last + 1 /\ top + r \in Nat
        <5>1. tp + h = m + 1 + 1
          BY <1>8, <1>10, <2>2
        <5>2. r = h - 1
          BY <1>3, <3>5
        <5>3. tp + r = m + 1
          BY <1>3, <5>1, <5>2
        <5> QED
          BY <1>4, <1>10, <5>3
      <4>2. PageOn(typed, at, top + r, col) = BLANK
        BY <1>1, <4>1, BelowBlank DEF last, Following
      <4> QED
        BY <3>3, <3>5, <4>2
    <3> QED
      BY <3>4, <3>5
  <2> QED
    BY <1>8, <2>1, <2>2
<1>15. a.col \in 0 .. Width - 1
  BY <1>1, <1>3
<1> QED
  BY <1>1, <1>3, <1>6, <1>9, <1>11, <1>12, <1>13, <1>14, <1>15

(* What c_putchar does, on that screen and there.                          *)
LEMMA PutcharThere ==
  ASSUME NEW c, c_putchar(c)
  PROVE  PutcharAt(c, Before, BeforeX, BeforeY) /\ region' = region
  BY DEF c_putchar, PutcharAt, Due, Before, BeforeX, BeforeY

(* A character that is written is put where the page has it.               *)
LEMMA CharacterPlaced ==
  ASSUME TypeOK, NEW at, Following(at), NEW c \in AnyChar, c_putchar(c),
         NEW g, Extends(g, at),
         NEW a, a = Here(at), NEW top, top = Top(a.line, Height),
         NEW r \in 0 .. Height - 1, NEW col \in 0 .. Width - 1
  PROVE  screen'[region.min_y + r][region.min_x + col] = PageOn(Append(typed, c), g, top + r, col)
<1>1. /\ a.line \in Nat /\ a.col \in 0 .. Width - 1 /\ top \in Nat
      /\ BeforeX = region.min_x + a.col
      /\ BeforeY + top = region.min_y + a.line /\ BeforeY \in Row
      /\ Before \in Screens
      /\ Before[region.min_y + r][region.min_x + col] = PageOn(typed, at, top + r, col)
  BY RoomIsMade
<1>2. PICK x0 \in Nat, x1 \in Nat, y0 \in Nat, w \in Nat, h \in Nat, x \in Nat, y \in Nat, s \in Screens :
        /\ x0 = region.min_x /\ x1 = region.max_x /\ y0 = region.min_y
        /\ w = Width /\ h = Height /\ w = x1 - x0 + 1
        /\ x = BeforeX /\ y = BeforeY /\ s = Before
  <2>1. BeforeX \in Nat /\ BeforeY \in Nat
    BY <1>1, RegionSize, ScreenConstants DEF Row, Column
  <2> QED
    BY <1>1, <2>1, RegionSize DEF Width
<1>3. y0 + r \in Row /\ x0 + col \in Column
  BY <1>2, RegionSize
<1>4. x = x0 + a.col /\ y + top = y0 + a.line /\ y \in Row
  BY <1>1, <1>2
<1>5. /\ y0 + r = y <=> a.line = top + r
      /\ (x <= x0 + col /\ x0 + col <= x1) <=> a.col <= col
      /\ x0 + col = x <=> a.col = col
  <2>1. PICK l \in Nat, k \in Nat, tp \in Nat :
          l = a.line /\ k = a.col /\ tp = top /\ x = x0 + k /\ y + tp = y0 + l
    BY <1>1, <1>2, <1>4
  <2>2. r \in Nat /\ col \in 0 .. w - 1
    BY <1>2
  <2>3. /\ y0 + r = y <=> l = tp + r
        /\ (x <= x0 + col /\ x0 + col <= x1) <=> k <= col
        /\ x0 + col = x <=> k = col
    BY <1>2, <2>1, <2>2
  <2> QED
    BY <2>1, <2>3
<1>6. s[y0 + r][x0 + col] = PageOn(typed, at, top + r, col)
  BY <1>1, <1>2
<1>7. PageOn(Append(typed, c), g, top + r, col) =
        IF c = LF /\ a.line = top + r /\ a.col <= col THEN BLANK
        ELSE IF c \notin {LF, CR} /\ a.line = top + r /\ a.col = col THEN c
        ELSE PageOn(typed, at, top + r, col)
  BY PageAppend DEF Following, Here, Extends
<1>8. PutcharAt(c, s, x, y)
  BY <1>2, PutcharThere
<1>9. CASE c = LF
  <2>1. screen' = Erase(s, y, x, x1)
    BY <1>2, <1>8, <1>9 DEF PutcharAt, LF, CR
  <2>2. screen'[y0 + r][x0 + col] =
          IF y0 + r = y /\ x <= x0 + col /\ x0 + col <= x1 THEN BLANK ELSE s[y0 + r][x0 + col]
    BY <1>2, <1>3, <1>4, <2>1 DEF Erase, Screens
  <2> QED
    BY <1>2, <1>5, <1>6, <1>7, <1>9, <2>2
<1>10. CASE c = CR
  <2>1. screen' = s
    BY <1>8, <1>10 DEF PutcharAt, LF, CR
  <2> QED
    BY <1>2, <1>6, <1>7, <1>10, <2>1 DEF LF, CR
<1>11. CASE c \notin {LF, CR}
  <2>1. screen' = Put(s, x, y, c)
    BY <1>8, <1>11 DEF PutcharAt
  <2>2. x \in Column
    BY <1>1, <1>2, <1>4, RegionSize
  <2>3. x <= max_x /\ y <= max_y
    BY <1>2, <1>4, <2>2, ScreenConstants DEF max_x, max_y, Row, Column
  <2>4. screen' = [s EXCEPT ![y][x] = c]
    BY <2>1, <2>3 DEF Put
  <2>5. screen'[y0 + r][x0 + col] =
          IF y0 + r = y /\ x0 + col = x THEN c ELSE s[y0 + r][x0 + col]
    BY <1>2, <1>3, <1>4, <2>2, <2>4 DEF Screens
  <2> QED
    BY <1>2, <1>5, <1>6, <1>7, <1>11, <2>5
<1> QED
  BY <1>9, <1>10, <1>11

(* And the cursor where the page goes on.                                  *)
LEMMA CursorPlaced ==
  ASSUME TypeOK, NEW at, Following(at), NEW c \in AnyChar, c_putchar(c),
         NEW a, a = Here(at), NEW b, b = Onward(a, c, Width),
         NEW top, top = Top(a.line, Height)
  PROVE  curr_x' = region.min_x + b.col /\ curr_y' + top = region.min_y + b.line
<1>1. /\ a.line \in Nat /\ a.col \in 0 .. Width - 1 /\ top \in Nat
      /\ BeforeX = region.min_x + a.col
      /\ BeforeY + top = region.min_y + a.line /\ BeforeY \in Row
  BY RoomIsMade
<1>2. PICK x0 \in Nat, x1 \in Nat, y0 \in Nat, w \in Nat, x \in Nat, y \in Nat :
        /\ x0 = region.min_x /\ x1 = region.max_x /\ y0 = region.min_y
        /\ w = Width /\ w = x1 - x0 + 1
        /\ x = BeforeX /\ y = BeforeY
  <2>1. BeforeX \in Nat /\ BeforeY \in Nat
    BY <1>1, RegionSize, ScreenConstants DEF Row, Column
  <2> QED
    BY <2>1, RegionSize DEF Width
<1>3. PICK l \in Nat, k \in 0 .. w - 1, tp \in Nat :
        l = a.line /\ k = a.col /\ tp = top /\ x = x0 + k /\ y + tp = y0 + l
  BY <1>1, <1>2
<1>4. PutcharAt(c, Before, x, y)
  BY <1>2, PutcharThere
<1>5. CASE c = LF
  <2>1. curr_x' = x0 /\ curr_y' = y + 1
    BY <1>2, <1>4, <1>5 DEF PutcharAt, LF, CR
  <2>2. b.line = l + 1 /\ b.col = 0
    BY <1>3, <1>5 DEF Onward, LF, CR
  <2>3. y + 1 + tp = y0 + (l + 1) /\ x0 + 0 = x0
    BY <1>3
  <2> QED
    BY <1>2, <1>3, <2>1, <2>2, <2>3
<1>6. CASE c = CR
  <2>1. curr_x' = x0 /\ curr_y' = y
    BY <1>2, <1>4, <1>6 DEF PutcharAt, LF, CR
  <2>2. b.line = l /\ b.col = 0
    BY <1>3, <1>6 DEF Onward, LF, CR
  <2> QED
    BY <1>2, <1>3, <2>1, <2>2
<1>7. CASE c \notin {LF, CR}
  <2>1. /\ curr_x' = IF x + 1 > x1 THEN x0 ELSE x + 1
        /\ curr_y' = IF x + 1 > x1 THEN y + 1 ELSE y
    BY <1>2, <1>4, <1>7 DEF PutcharAt, AtEnd
  <2>2. /\ b.line = IF k + 1 = w THEN l + 1 ELSE l
        /\ b.col = IF k + 1 = w THEN 0 ELSE k + 1
    BY <1>2, <1>3, <1>7 DEF Onward
  <2>3. x + 1 > x1 <=> k + 1 = w
    BY <1>2, <1>3
  <2>4. y + 1 + tp = y0 + (l + 1) /\ x0 + 0 = x0 /\ x + 1 = x0 + (k + 1)
    BY <1>3
  <2>5. /\ curr_x' = x0 + (IF k + 1 = w THEN 0 ELSE k + 1)
        /\ curr_y' + tp = y0 + (IF k + 1 = w THEN l + 1 ELSE l)
    BY <1>3, <2>1, <2>3, <2>4
  <2> QED
    BY <1>2, <1>3, <2>2, <2>5
<1> QED
  BY <1>5, <1>6, <1>7

(* Writing keeps the region a window on the page.                          *)
LEMMA PutcharDisplays ==
  ASSUME TextInv, known, NEW c \in AnyChar, c_putchar(c), typed' = Append(typed, c)
  PROVE  Followed'
<1>1. PICK at : Following(at)
  BY DEF TextInv, Followed
<1>2. TypeOK /\ typed \in Seq(AnyChar) /\ region' = region
  BY DEF TextInv, c_putchar
<1>3. Width \in Nat \ {0} /\ Width' = Width /\ Height' = Height
  BY <1>2, RegionSize DEF Width, Height
<1>4. PICK g : /\ Travelled(Append(typed, c), Width, g)
               /\ \A i \in 0 .. Len(typed) : g[i] = at[i]
               /\ g[Len(typed) + 1] = Onward(at[Len(typed)], c, Width)
               /\ LastLine(Append(typed, c), g) = at[Len(typed)].line
  BY <1>1, <1>3, PathAppend DEF Following
<1>5. PICK a, b, top : /\ a = Here(at) /\ b = g[Len(typed) + 1]
                       /\ top = Top(a.line, Height)
  OBVIOUS
<1>6. curr_x' = region.min_x + b.col /\ curr_y' + top = region.min_y + b.line
  BY <1>1, <1>2, <1>4, <1>5, CursorPlaced DEF Here
<1>7. \A r \in 0 .. Height - 1, col \in 0 .. Width - 1 :
        screen'[region.min_y + r][region.min_x + col] = PageOn(Append(typed, c), g, top + r, col)
  <2>1. Extends(g, at)
    BY <1>4 DEF Extends
  <2> QED
    BY <1>1, <1>2, <1>5, <2>1, CharacterPlaced
<1>8. Len(typed') = Len(typed) + 1
  BY <1>2
<1>9. Top(LastLine(typed', g), Height') = top
  BY <1>3, <1>4, <1>5 DEF Here
<1>10. Displays(typed, g)'
  BY <1>2, <1>3, <1>5, <1>6, <1>7, <1>8, <1>9 DEF Displays
<1>11. typed' \in Seq(AnyChar)'
  BY <1>2 DEF AnyChar
<1> QED
  BY <1>3, <1>4, <1>10, <1>11 DEF Followed, Following

(* The page of the empty text, on a blank screen with the cursor at home.  *)
LEMMA EmptyText ==
  ASSUME NEW width \in Nat \ {0}
  PROVE  \E at : /\ Travelled(<< >>, width, at) /\ LastLine(<< >>, at) = 0
                 /\ at[0] = Corner
                 /\ \A line, col : PageOn(<< >>, at, line, col) = BLANK
<1> DEFINE at == [i \in 0 .. 0 |-> Corner]
<1>1. Len(<< >>) = 0
  OBVIOUS
<1>2. \A i \in 0 .. 0 : i = 0
  OBVIOUS
<1>3. Path(<< >>, width, at)
  BY <1>1, <1>2 DEF Path
<1>4. at \in [0 .. 0 -> Position] /\ at[0] = Corner
  BY DEF Corner, Position
<1> HIDE DEF at
<1>5. LastLine(<< >>, at) = 0
  BY DEF LastLine
<1>6. Travelled(<< >>, width, at)
  BY <1>1, <1>2, <1>3, <1>4, <1>5 DEF Travelled, Corner
<1>7. \A line, col : HitsOn(<< >>, at, line, col) = {}
  BY <1>1 DEF HitsOn
<1>8. \A line, col : PageOn(<< >>, at, line, col) = BLANK
  BY <1>7 DEF PageOn
<1> QED
  BY <1>4, <1>5, <1>6, <1>8

(* The text begins.                                                        *)
TextBegins ==
  /\ TypeOK /\ typed = << >> /\ curr_x = region.min_x /\ curr_y = region.min_y
  /\ \A y \in Row, x \in Column : screen[y][x] = BLANK

LEMMA EmptyDisplays == TextBegins => Followed
<1> SUFFICES ASSUME TextBegins PROVE \E at : Following(at)
  BY DEF Followed
<1> USE DEF TextBegins
<1>1. PICK at : /\ Travelled(<< >>, Width, at) /\ LastLine(<< >>, at) = 0
                /\ at[0] = Corner
                /\ \A line, col : PageOn(<< >>, at, line, col) = BLANK
  BY RegionSize, EmptyText
<1>2. /\ Top(0, Height) = 0 /\ curr_x = region.min_x + 0 /\ curr_y + 0 = region.min_y + 0
      /\ \A r \in 0 .. Height - 1, col \in 0 .. Width - 1 :
           screen[region.min_y + r][region.min_x + col] = BLANK
  <2>1. PICK h \in Nat \ {0}, x0 \in Nat, y0 \in Nat : h = Height /\ x0 = region.min_x /\ y0 = region.min_y
    BY RegionSize
  <2>2. Top(0, h) = 0
    BY DEF Top
  <2> QED
    BY <2>1, <2>2, RegionSize
<1>3. << >> \in Seq(AnyChar) /\ Len(<< >>) = 0
  OBVIOUS
<1>4. Displays(<< >>, at)
  BY <1>1, <1>2, <1>3 DEF Displays, Corner
<1> QED
  BY <1>1, <1>3, <1>4 DEF Following

(* And with a new region.                                                  *)
LEMMA NewRegionDisplays ==
  ASSUME TypeOK', NewRegion, known', UNCHANGED screen,
         curr_x' = region'.min_x, curr_y' = region'.min_y
  PROVE  Followed'
<1>1. TextBegins'
  BY DEF NewRegion, TextBegins
<1> QED
  BY <1>1, EmptyDisplays, PTL

LEMMA InitFollowed == TextInit => TextInv
<1> SUFFICES ASSUME TextInit PROVE TextInv
  OBVIOUS
<1>1. TypeOK /\ typed = << >>
  BY InitType DEF TextInit
<1>2. TextBegins
  BY <1>1, ScreenConstants DEF TextBegins, TextInit, Init
<1> QED
  BY <1>1, <1>2, EmptyDisplays DEF TextInv

(* Every step keeps the invariant.                                         *)
LEMMA TextStep ==
  ASSUME TextInv, [TextNext]_textVars
  PROVE  TextInv'
<1>1. TypeOK'
  <2>1. [Next]_vars
    BY DEF TextNext, Next, textVars
  <2> QED
    BY <2>1, NextType DEF TextInv
<1>2. CASE UNCHANGED textVars
  <2>1. UNCHANGED <<screen, region, curr_x, curr_y, typed, known>>
    BY <1>2 DEF textVars, vars
  <2>2. Followed' <=> Followed
    BY <2>1 DEF Followed, Following, Displays, Width, Height
  <2> QED
    BY <1>1, <2>1, <2>2 DEF TextInv, AnyChar
<1>3. CASE \E c \in AnyChar : c_putchar(c) /\ Follow(c)
  <2>1. PICK c \in AnyChar : c_putchar(c) /\ Follow(c)
    BY <1>3
  <2>2. CASE Forget
    BY <1>1, <2>2 DEF Forget, TextInv
  <2>3. CASE known /\ known' = TRUE /\ typed' = Append(typed, c)
    <3>1. Followed'
      BY <2>1, <2>3, PutcharDisplays
    <3>2. typed' \in Seq(AnyChar)'
      BY <2>3 DEF TextInv, AnyChar
    <3> QED
      BY <1>1, <3>1, <3>2 DEF TextInv
  <2> QED
    BY <2>1, <2>2, <2>3 DEF Follow
<1>4. CASE \E x1, x2 \in AnyX, y1, y2 \in AnyY : c_setscroll(x1, y1, x2, y2) /\ NewRegion
  <2>1. /\ UNCHANGED screen /\ NewRegion
        /\ curr_x' = region'.min_x /\ curr_y' = region'.min_y
    BY <1>4 DEF c_setscroll
  <2>2. known' => Followed'
    BY <1>1, <2>1, NewRegionDisplays
  <2> QED
    BY <1>1, <2>1, <2>2 DEF TextInv, NewRegion
<1>5. CASE Forget
  BY <1>1, <1>5 DEF Forget, TextInv
<1> QED
  BY <1>2, <1>3, <1>4, <1>5 DEF TextNext

(* Whatever is written to a region of any size, it shows the end of the    *)
(* text as an endless page has it.                                         *)
THEOREM TextShown == TextSpec => []WindowShowsText
<1>1. TextInv => WindowShowsText
  <2> SUFFICES ASSUME TextInv, known PROVE WindowShowsText
    BY DEF WindowShowsText
  <2>1. PICK at : Following(at)
    BY DEF TextInv, Followed
  <2>2. PageAt = at
    BY <2>1, PageAtIs DEF Following, Travelled
  <2>3. \A line, col : Page(line, col) = PageOn(typed, at, line, col)
    BY <2>2 DEF Page, PageOn, Hits, HitsOn
  <2>4. (IF typed = << >> THEN 0 ELSE PageAt[Len(typed) - 1].line) = LastLine(typed, at)
    BY <2>2 DEF LastLine
  <2>5. \A r \in 0 .. Height - 1, col \in 0 .. Width - 1 :
          screen[region.min_y + r][region.min_x + col]
            = Page(Top(LastLine(typed, at), Height) + r, col)
    BY <2>1, <2>3 DEF Following, Displays
  <2> QED
    BY <2>4, <2>5 DEF WindowShowsText, Top
<1> QED
  BY InitFollowed, TextStep, <1>1, PTL DEF TextSpec
=============================================================================
