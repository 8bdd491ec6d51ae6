------------------------------- MODULE Printf -------------------------------
(***************************************************************************)
(* c_printf and c_printf_at of c_io.c: the scanner of the format, the      *)
(* padding of a converted value, and where each character goes.            *)
(*                                                                         *)
(* A format is read a character at a time, any that a caller may have      *)
(* written; formats that end within a format code are left out, because    *)
(* the scanner then goes on after their NUL and no caller has one.         *)
(*                                                                         *)
(* A character that is put is a call of c_putchar, or of c_putchar_at with *)
(* a position on the screen (others it ignores); what these do is module   *)
(* Screen's subject.  BITS is small enough that every digit is a character *)
(* of a conversion of Convert.                                             *)
(***************************************************************************)
EXTENDS Convert, SequencesExt

CONSTANTS
  LITERALS,     \* characters of formats that are not part of a code
  CODES,        \* conversion types, defined ("c", "s", "d", "x", "o") or not
  CHARACTERS,   \* arguments of "c"
  STRINGS,      \* arguments of "s"
  NUMBERS,      \* arguments of "d", "x" and "o"
  PLACES,       \* positions that c_printf_at is called with
  MAX_X,        \* max_x, the last column of the screen
  MIN_X,        \* scroll_min_x
  MAX_ITEMS,    \* literals and codes of a format (a bound)
  MAX_WIDTH     \* largest field width (a bound)

NUL     == "NUL"
LF      == "LF"
CR      == "CR"
NoPlace == [x |-> -1, y |-> -1]

ASSUME PrintfConstants ==
  /\ "%" \notin LITERALS \cup {"-"} /\ NUMBERS \subseteq Values
  /\ \A p \in PLACES : p.x \in Nat /\ p.y \in Nat
  /\ {MAX_X, MIN_X, MAX_ITEMS, MAX_WIDTH} \subseteq Nat

VARIABLES
  scan,     \* the scanner: where it is in a code, and the code so far
  place,    \* x and y of __c_do_printf: the next character's, or (-1,-1)
  out,      \* the characters put
  items,    \* literals and codes so far
  field     \* the last code: [code, text, at, put], its value's text, where
            \* it began and what it put

printVars == <<scan, place, out, items, field>>

Text    == [in |-> "text", leftadjust |-> FALSE, padchar |-> " ", width |-> 0, code |-> <<>>]
NoField == [code |-> <<>>, text |-> <<>>, at |-> NoPlace, put |-> <<>>]

-----------------------------------------------------------------------------
(* Characters on their way to the screen.                                  *)

Fixed(p) == p.x # -1 \/ p.y # -1

(* c_putchar or c_putchar_at of a sequence of characters.                  *)
Put(p, chars) ==
  SelectSeq([i \in 1 .. Len(chars) |->
               [x |-> IF Fixed(p) THEN p.x + i - 1 ELSE -1, y |-> p.y, ch |-> chars[i]]],
            LAMBDA c : c.x <= MAX_X)

Right(p, n) == IF Fixed(p) THEN [p EXCEPT !.x = @ + n] ELSE p

(* pad(): n fill characters, and the position after them.                  *)
Pad_StaysPut(r, n, padchar) ==
  [r EXCEPT !.put = @ \o Put(r.at, [i \in 1 .. n |-> padchar])]
Pad(r, n, padchar) ==
  [put |-> r.put \o Put(r.at, [i \in 1 .. n |-> padchar]), at |-> Right(r.at, n)]

(* c_puts() or c_puts_at(), and the position that padstr works out itself. *)
Puts(r, chars, len) == [put |-> r.put \o Put(r.at, chars), at |-> Right(r.at, len)]

Positive(n) == IF n > 0 THEN n ELSE 0

PadStr(p, chars, len, s) ==
  LET extra == Positive(s.width - len)
      start == [put |-> <<>>, at |-> p]
  IN  IF s.leftadjust THEN Pad(Puts(start, chars, len), extra, s.padchar)
      ELSE Puts(Pad(start, extra, s.padchar), chars, len)

-----------------------------------------------------------------------------
(* The text of an argument, and the length that padstr is given.           *)

Digit(d) == <<"0","1","2","3","4","5","6","7","8","9","A","B","C","D","E","F">>[d + 1]

Digits(t) ==
  (IF t.minus THEN <<"-">> ELSE <<>>) \o [i \in DOMAIN t.digits |-> Digit(t.digits[i])]

(* A string ends at its NUL, and so does what "c" makes of a NUL.          *)
Arguments(code) ==
  LET Counted(chars) == [chars |-> chars, len |-> Len(chars)] IN
  CASE code = "c" -> {[chars |-> IF c = NUL THEN <<>> ELSE <<c>>, len |-> 1] : c \in CHARACTERS}
    [] code = "s" -> {Counted(s) : s \in STRINGS}
    [] code = "d" -> {Counted(Digits(cvtdec(n))) : n \in NUMBERS}
    [] code = "x" -> {Counted(Digits(cvthex(n))) : n \in NUMBERS}
    [] code = "o" -> {Counted(Digits(cvtoct(n))) : n \in NUMBERS}

Types == {"c", "s", "d", "x", "o"}

-----------------------------------------------------------------------------
(* __c_do_printf: one action for each way a character of the format goes.  *)

PrintInit ==
  /\ scan = Text /\ place = NoPlace
  /\ out = <<>> /\ items = 0 /\ field = NoField

InText == scan.in = "text"

Percent_KeepsFlags ==
  /\ InText /\ items < MAX_ITEMS
  /\ scan' = [scan EXCEPT !.in = "adjust", !.width = 0, !.code = <<>>]
  /\ UNCHANGED <<place, out, items, field>>
Percent ==
  /\ InText /\ items < MAX_ITEMS
  /\ scan' = [Text EXCEPT !.in = "adjust"]
  /\ UNCHANGED <<place, out, items, field>>

(* Everything that is not a code is put as it is.                          *)
Literal ==
  /\ InText /\ items < MAX_ITEMS
  /\ \E ch \in LITERALS :
       /\ out' = out \o Put(place, <<ch>>)
       /\ place' = IF ~ Fixed(place) THEN place
                   ELSE IF ch = LF THEN [x |-> MIN_X, y |-> place.y + 1]
                   ELSE IF ch = CR THEN [place EXCEPT !.x = MIN_X]
                   ELSE Right(place, 1)
  /\ items' = items + 1
  /\ UNCHANGED <<scan, field>>

(* '-' first, then '0', then the digits of the width.                      *)
LeftAdjust ==
  /\ scan.in = "adjust"
  /\ scan' = [scan EXCEPT !.in = "fill", !.leftadjust = TRUE, !.code = Append(@, "-")]
  /\ UNCHANGED <<place, out, items, field>>

ZeroFill ==
  /\ scan.in \in {"adjust", "fill"}
  /\ scan' = [scan EXCEPT !.in = "width", !.padchar = "0", !.code = Append(@, "0")]
  /\ UNCHANGED <<place, out, items, field>>

WidthDigit ==
  /\ ~ InText
  /\ \E d \in 0 .. 9 :
       /\ d = 0 => scan.in = "width"
       /\ scan.width * 10 + d <= MAX_WIDTH /\ Len(scan.code) < 4
       /\ scan' = [scan EXCEPT !.in = "width", !.width = @ * 10 + d,
                               !.code = Append(@, Digit(d))]
  /\ UNCHANGED <<place, out, items, field>>

(* Any other character ends the code; one that is no type puts nothing.    *)
Conversion ==
  /\ ~ InText
  /\ \E code \in CODES :
       IF code \in Types
       THEN \E arg \in Arguments(code) :
              LET r == PadStr(place, arg.chars, arg.len, scan)
              IN  /\ out' = out \o r.put
                  /\ place' = r.at
                  /\ field' = [code |-> Append(scan.code, code), text |-> arg.chars,
                               at |-> place, put |-> r.put]
       ELSE /\ code = "-" => scan.in # "adjust"
            /\ UNCHANGED <<out, place, field>>
  /\ scan' = [scan EXCEPT !.in = "text"]
  /\ items' = items + 1

(* The end of the format, and another call: of c_printf or c_printf_at.    *)
NextCall ==
  /\ InText
  /\ scan' = Text /\ place' \in PLACES \cup {NoPlace}
  /\ out' = <<>> /\ items' = 0 /\ field' = NoField

PrintNext ==
  \/ Percent \/ Literal \/ LeftAdjust \/ ZeroFill \/ WidthDigit \/ Conversion \/ NextCall

-----------------------------------------------------------------------------
(* A field is what c_io.h says of "%-0WC": the text of the value in at     *)
(* least W characters, adjusted to the right or, with "-", to the left,    *)
(* filled with spaces or, with "0", with zeros; a field that starts on the *)
(* screen is cut off at its edge.                                          *)
FieldRight ==
  field.code # <<>> =>
    LET flags  == IF field.code[1] = "-" THEN Tail(field.code) ELSE field.code
        left   == field.code[1] = "-"
        zero   == flags[1] = "0"
        digits == SubSeq(flags, 1, Len(flags) - 1)
        W      == Number([i \in DOMAIN digits |->
                            CHOOSE d \in 0 .. 9 : Digit(d) = digits[i]], 10)
        fill   == [i \in 1 .. Positive(W - Len(field.text)) |-> IF zero THEN "0" ELSE " "]
        whole  == IF left THEN field.text \o fill ELSE fill \o field.text
    IN  field.put = Put(field.at, whole)

(* c_printf_at puts its characters from left to right with no gap and no   *)
(* overlap, whatever codes they come from; only a newline or a return in   *)
(* the format itself starts again at the left.                             *)
LeftToRight ==
  \A i \in 1 .. Len(out) - 1 :
    \/ out[i + 1].x = -1 /\ out[i].x = -1
    \/ out[i + 1].x = out[i].x + 1 /\ out[i + 1].y = out[i].y
    \/ out[i + 1].x = MIN_X /\ out[i].x = MAX_X   \* a newline beyond the edge
    \/ out[i].ch \in {LF, CR} /\ out[i + 1].x = MIN_X

(* c_io.h:38, the default of the minimum field width is 1.                 *)
AtLeastOne == field.code # <<>> => field.put # <<>>
=============================================================================
