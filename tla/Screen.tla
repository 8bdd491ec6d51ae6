------------------------------- MODULE Screen -------------------------------
(***************************************************************************)
(* Console output, c_io.c: the screen, its scrolling region and the        *)
(* cursor, with the functions that scroll (c_putchar, c_scroll,            *)
(* c_clearscroll) and those that write at fixed positions.  c_puts,        *)
(* c_puts_at and the printf functions are sequences of calls of these.     *)
(*                                                                         *)
(* The screen is a function from rows to functions from columns to glyphs. *)
(* The video attributes and the hardware cursor are left out.              *)
(*                                                                         *)
(* An operator named Op_Something is Op with a plausible mistake, as in    *)
(* KernelOps.                                                              *)
(***************************************************************************)
EXTENDS Naturals, Sequences

CONSTANTS
  SCREEN_X_SIZE,    \* columns (80)
  SCREEN_Y_SIZE,    \* rows (25)
  Glyphs            \* characters with no special meaning, other than blank

LF    == 10
CR    == 13
BLANK == 32

ASSUME ScreenConstants ==
  /\ SCREEN_X_SIZE \in Nat \ {0} /\ SCREEN_Y_SIZE \in Nat \ {0}
  /\ Glyphs \cap {LF, CR, BLANK} = {}

VARIABLES
  screen,           \* the video memory
  region,           \* scroll_min_x, scroll_min_y, scroll_max_x, scroll_max_y
  curr_x, curr_y    \* the cursor; below the region if a scroll is due

vars == <<screen, region, curr_x, curr_y>>

Column == 0 .. SCREEN_X_SIZE - 1
Row    == 0 .. SCREEN_Y_SIZE - 1
max_x  == SCREEN_X_SIZE - 1
max_y  == SCREEN_Y_SIZE - 1

bound(min, value, max) ==
  LET low == IF value < min THEN min ELSE value
  IN  IF low > max THEN max ELSE low

InColumns(x) == region.min_x <= x /\ x <= region.max_x
InRows(y)    == region.min_y <= y /\ y <= region.max_y

-----------------------------------------------------------------------------
(* The screen's contents after a change.                                   *)

(* __c_putchar_at: nothing happens beyond the edges.                       *)
Put(s, x, y, c) ==
  IF x <= max_x /\ y <= max_y THEN [s EXCEPT ![y][x] = c] ELSE s

(* Columns from .. to of a row are blanked.                                *)
Erase(s, y, from, to) ==
  [s EXCEPT ![y] = [x \in Column |-> IF from <= x /\ x <= to THEN BLANK ELSE s[y][x]]]

(* The region's rows move up by n; blank rows enter at the bottom.         *)
Lifted_WholeRows(s, n) ==
  [y \in Row |-> IF ~ InRows(y) THEN s[y]
                 ELSE IF y + n <= region.max_y THEN s[y + n]
                 ELSE [x \in Column |-> BLANK]]
Lifted_KeepLast(s, n) ==
  [y \in Row |-> [x \in Column |->
    IF InRows(y) /\ InColumns(x) /\ y + n <= region.max_y THEN s[y + n][x]
    ELSE s[y][x]]]
Lifted(s, n) ==
  [y \in Row |-> [x \in Column |->
    IF ~ InRows(y) \/ ~ InColumns(x) THEN s[y][x]
    ELSE IF y + n <= region.max_y THEN s[y + n][x] ELSE BLANK]]

Cleared(s) == Lifted(s, region.max_y - region.min_y + 1)

-----------------------------------------------------------------------------
(* After c_io_init; the screen was cleared by whoever booted.              *)

Init ==
  /\ screen = [y \in Row |-> [x \in Column |-> BLANK]]
  /\ region = [min_x |-> 0, min_y |-> 0, max_x |-> max_x, max_y |-> max_y]
  /\ curr_x = 0 /\ curr_y = 0

c_setscroll(s_min_x, s_min_y, s_max_x, s_max_y) ==
  LET left == bound(0, s_min_x, max_x)
      top  == bound(0, s_min_y, max_y)
  IN  /\ region' = [min_x |-> left, min_y |-> top,
                    max_x |-> bound(left, s_max_x, max_x),
                    max_y |-> bound(top, s_max_y, max_y)]
      /\ curr_x' = left /\ curr_y' = top
      /\ UNCHANGED screen

c_moveto(x, y) ==
  /\ curr_x' = bound(region.min_x, x + region.min_x, region.max_x)
  /\ curr_y' = bound(region.min_y, y + region.min_y, region.max_y)
  /\ UNCHANGED <<screen, region>>

-----------------------------------------------------------------------------
(* Scrolling output.                                                       *)

(* c_putchar: first the scroll that the last output left due, which homes  *)
(* the cursor's column if it clears the region; then the character.        *)
AtEnd_Late(x) == x > region.max_x + 1
AtEnd(x) == x > region.max_x

c_putchar(c) ==
  LET due   == IF curr_y > region.max_y THEN curr_y - region.max_y ELSE 0
      all   == due > region.max_y - region.min_y
      s     == IF due > 0 THEN Lifted(screen, due) ELSE screen
      x     == IF all THEN region.min_x ELSE curr_x
      y     == IF due > 0 THEN region.max_y ELSE curr_y
  IN  /\ \/ /\ c = LF
            /\ screen' = Erase(s, y, x, region.max_x)
            /\ curr_x' = region.min_x /\ curr_y' = y + 1
         \/ /\ c = CR
            /\ screen' = s
            /\ curr_x' = region.min_x /\ curr_y' = y
         \/ /\ c \notin {LF, CR}
            /\ screen' = Put(s, x, y, c)
            /\ curr_x' = IF AtEnd(x + 1) THEN region.min_x ELSE x + 1
            /\ curr_y' = IF AtEnd(x + 1) THEN y + 1 ELSE y
      /\ UNCHANGED region

c_scroll(lines) ==
  /\ IF lines > region.max_y - region.min_y
     THEN /\ screen' = Cleared(screen)
          /\ curr_x' = region.min_x /\ curr_y' = region.min_y
     ELSE /\ screen' = Lifted(screen, lines)
          /\ UNCHANGED <<curr_x, curr_y>>
  /\ UNCHANGED region

c_clearscroll ==
  /\ screen' = Cleared(screen)
  /\ UNCHANGED <<region, curr_x, curr_y>>

-----------------------------------------------------------------------------
(* Output at fixed positions.                                              *)

(* A newline blanks the rest of the line, up to the region or its edge.    *)
Limit(x) ==
  IF x > region.max_x THEN max_x
  ELSE IF x >= region.min_x THEN region.max_x ELSE region.min_x - 1

c_putchar_at(x, y, c) ==
  /\ screen' = IF c # LF THEN Put(screen, x, y, c)
               ELSE IF y <= max_y THEN Erase(screen, y, x, Limit(x)) ELSE screen
  /\ UNCHANGED <<region, curr_x, curr_y>>

c_clearscreen ==
  /\ screen' = [y \in Row |-> [x \in Column |-> BLANK]]
  /\ UNCHANGED <<region, curr_x, curr_y>>

-----------------------------------------------------------------------------
(* Coordinates may be one beyond the screen.                               *)
AnyX == 0 .. SCREEN_X_SIZE
AnyY == 0 .. SCREEN_Y_SIZE
AnyChar == Glyphs \cup {LF, CR}

Next ==
  \/ \E x1, x2 \in AnyX, y1, y2 \in AnyY : c_setscroll(x1, y1, x2, y2)
  \/ \E x \in AnyX, y \in AnyY : c_moveto(x, y)
  \/ \E c \in AnyChar : c_putchar(c)
  \/ \E lines \in 1 .. SCREEN_Y_SIZE + 1 : c_scroll(lines)
  \/ c_clearscroll
  \/ \E x \in AnyX, y \in AnyY, c \in AnyChar \ {CR} : c_putchar_at(x, y, c)
  \/ c_clearscreen

Spec == Init /\ [][Next]_vars

-----------------------------------------------------------------------------
(* What is checked of it, and what a comment claims that is not so.        *)

(* The ranges of the variables; the cursor is in the region, or at the     *)
(* start of the row below it.                                              *)
TypeOK ==
  /\ screen \in [Row -> [Column -> Glyphs \cup {BLANK}]]
  /\ region.min_x \in Column /\ region.max_x \in Column
  /\ region.min_y \in Row /\ region.max_y \in Row
  /\ region.min_y <= region.max_y
  /\ curr_x \in Nat /\ InColumns(curr_x)
  /\ curr_y \in Nat
  /\ \/ InRows(curr_y)
     \/ curr_y = region.max_y + 1 /\ curr_x = region.min_x

(* Whatever is written to the scrolling region, and however it scrolls,    *)
(* "the remainder of the screen does not scroll" (c_io.h:82): no cell      *)
(* outside the region changes.                                             *)
OutsideUntouched ==
  [][ (\/ \E c \in AnyChar : c_putchar(c)
       \/ \E lines \in 1 .. SCREEN_Y_SIZE + 1 : c_scroll(lines)
       \/ c_clearscroll)
      => \A y \in Row, x \in Column :
           ~ (InRows(y) /\ InColumns(x)) => screen'[y][x] = screen[y][x] ]_vars

(* c_io.h:139, c_clearscroll "moves the cursor to (0,0)", the corner of    *)
(* the region.                                                             *)
ClearHomes ==
  [][ c_clearscroll => curr_x' = region.min_x /\ curr_y' = region.min_y ]_vars

=============================================================================
