----------------------------- MODULE ScreenText -----------------------------
(***************************************************************************)
(* What the scrolling region shows of a text, compared with an endless     *)
(* page: Screen.tla with a record of what c_putchar has written since      *)
(* c_setscroll was called on a blank screen.  After anything else has been *)
(* called the text is not known.                                           *)
(***************************************************************************)
EXTENDS Screen

CONSTANT MAX_TYPED      \* characters of a text that is followed

VARIABLES
  known,        \* the region shows nothing but the text
  typed         \* the text
textVars == <<vars, known, typed>>

Forget == known' = FALSE /\ typed' = <<>>

TextInit == Init /\ known = TRUE /\ typed = <<>>

Follow(c) ==
  IF known /\ Len(typed) < MAX_TYPED
  THEN known' = TRUE /\ typed' = Append(typed, c)
  ELSE Forget

NewRegion ==
  /\ known' = \A y \in Row, x \in Column : screen[y][x] = BLANK
  /\ typed' = <<>>

TextNext ==
  \/ \E c \in AnyChar : c_putchar(c) /\ Follow(c)
  \/ \E x1, x2 \in AnyX, y1, y2 \in AnyY : c_setscroll(x1, y1, x2, y2) /\ NewRegion
  \/ \E x \in AnyX, y \in AnyY : c_moveto(x, y) /\ Forget
  \/ \E lines \in 1 .. SCREEN_Y_SIZE + 1 : c_scroll(lines) /\ Forget
  \/ c_clearscroll /\ Forget
  \/ \E x \in AnyX, y \in AnyY, c \in AnyChar \ {CR} : c_putchar_at(x, y, c) /\ Forget
  \/ c_clearscreen /\ Forget

TextSpec == TextInit /\ [][TextNext]_textVars

Width  == region.max_x - region.min_x + 1
Height == region.max_y - region.min_y + 1

(* Where a character after c goes on an endless page, if c goes to a.      *)
Onward(a, c, width) ==
  CASE c = LF -> [line |-> a.line + 1, col |-> 0]
    [] c = CR -> [line |-> a.line, col |-> 0]
    [] OTHER  -> IF a.col + 1 = width THEN [line |-> a.line + 1, col |-> 0]
                 ELSE [line |-> a.line, col |-> a.col + 1]

(* Where the next character goes, after the first i characters, on a page  *)
(* as wide as the region.                                                  *)
PageAt ==
  LET at[i \in 0 .. Len(typed)] ==
        IF i = 0 THEN [line |-> 0, col |-> 0] ELSE Onward(at[i - 1], typed[i], Width)
  IN  at

(* The characters that were put at a position, and the newlines that       *)
(* erased the rest of its line.                                            *)
Hits(at, line, col) ==
  {i \in 1 .. Len(typed) :
     /\ typed[i] # CR /\ at[i - 1].line = line
     /\ IF typed[i] = LF THEN at[i - 1].col <= col ELSE at[i - 1].col = col}

(* What the page has at a position: the last character that was put there, *)
(* or blank if a newline came after it.                                    *)
Page(line, col) ==
  LET hits  == Hits(PageAt, line, col)
      final == CHOOSE i \in hits : \A j \in hits : j <= i
  IN  IF hits = {} \/ typed[final] = LF THEN BLANK ELSE typed[final]

(* The region is a window on the page, and its last row is the line of the *)
(* last character, or a later row while the page is shorter: scrolling     *)
(* waits for the next output, loses no line and leaves no trace of an      *)
(* earlier one.                                                            *)
WindowShowsText ==
  LET last == IF typed = <<>> THEN 0 ELSE PageAt[Len(typed) - 1].line
      top  == IF last < Height THEN 0 ELSE last - Height + 1
  IN  known => \A r \in 0 .. Height - 1, col \in 0 .. Width - 1 :
        screen[region.min_y + r][region.min_x + col] = Page(top + r, col)
=============================================================================
