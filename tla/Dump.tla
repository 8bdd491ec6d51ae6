-------------------------------- MODULE Dump --------------------------------
(***************************************************************************)
(* _stk_dump of stack.c, which prints a stack four words to a line and     *)
(* leaves out the lines that repeat the one before.                        *)
(***************************************************************************)
EXTENDS Integers, Sequences, SequencesExt

CONSTANTS
  LINES,    \* what the text of four words can be
  N_LINES   \* lines of a stack (256)

ASSUME DumpConstants == N_LINES \in Nat /\ "" \notin LINES

VARIABLES
  words,    \* the stack: its lines; <<>> before the call
  start,    \* the next line, from 1
  eliding,  \* lines skipped since one was printed
  oldbuf,   \* the line printed last; before the first, ""
  shown     \* the lines printed: [addr, star, line]

dumpVars == <<words, start, eliding, oldbuf, shown>>

NoLine == ""

DumpInit ==
  /\ words = <<>>
  /\ start = 1 /\ eliding = 0 /\ oldbuf = NoLine /\ shown = <<>>

(* Any stack.                                                              *)
StkDump ==
  /\ words = <<>> /\ words' \in [1 .. N_LINES -> LINES]
  /\ UNCHANGED <<start, eliding, oldbuf, shown>>

(* A line like the one before is counted.                                  *)
Skip ==
  /\ start <= Len(words) /\ words[start] = oldbuf
  /\ eliding' = eliding + 1 /\ start' = start + 1
  /\ UNCHANGED <<words, oldbuf, shown>>

PrintLine_KeepsOld ==
  /\ start <= Len(words) /\ words[start] # oldbuf
  /\ shown' = Append(shown, [addr |-> start, star |-> eliding > 0, line |-> words[start]])
  /\ eliding' = 0 /\ oldbuf' = IF oldbuf = NoLine THEN words[start] ELSE oldbuf
  /\ start' = start + 1
  /\ UNCHANGED words

(* Another is printed after its address, with a star after skipped ones.   *)
PrintLine ==
  /\ start <= Len(words) /\ words[start] # oldbuf
  /\ shown' = Append(shown, [addr |-> start, star |-> eliding > 0, line |-> words[start]])
  /\ eliding' = 0 /\ oldbuf' = words[start] /\ start' = start + 1
  /\ UNCHANGED words

DumpNext == StkDump \/ Skip \/ PrintLine

DumpSpec == DumpInit /\ [][DumpNext]_dumpVars

-----------------------------------------------------------------------------
(* Whoever reads the dump can tell every word of the stack: a line that is *)
(* not printed is the same as the printed one before it, and a star stands *)
(* exactly where lines are missing.                                        *)
DumpTellsAll ==
  /\ \A i \in 1 .. start - 1 :
       \E k \in DOMAIN shown :
         /\ shown[k].addr <= i /\ shown[k].line = words[i]
         /\ k < Len(shown) => i < shown[k + 1].addr
  /\ \A k \in 2 .. Len(shown) :
       shown[k].star <=> shown[k].addr > shown[k - 1].addr + 1
=============================================================================
