----------------------------- MODULE DumpProofs -----------------------------
(***************************************************************************)
(* A dump tells every word of a stack of any size.  What has to be known   *)
(* besides the property is how far the loop is: the line in oldbuf is the  *)
(* last one printed, and eliding counts the lines since.                   *)
(***************************************************************************)
EXTENDS Dump, TLAPS

Entry == [addr : Nat, star : BOOLEAN, line : LINES]

DumpType ==
  /\ words \in Seq(LINES)
  /\ start \in Nat \ {0} /\ start <= Len(words) + 1
  /\ eliding \in Nat /\ shown \in Seq(Entry)

Progress ==
  IF shown = <<>> THEN start = 1 /\ oldbuf = NoLine /\ eliding = 0
  ELSE /\ shown[Len(shown)].line = oldbuf
       /\ shown[Len(shown)].addr + eliding + 1 = start

(* The two halves of DumpTellsAll.                                         *)
LinesTold ==
  \A i \in 1 .. start - 1 :
    \E k \in DOMAIN shown :
      /\ shown[k].addr <= i /\ shown[k].line = words[i]
      /\ k < Len(shown) => i < shown[k + 1].addr

StarsTold ==
  \A k \in 2 .. Len(shown) :
    shown[k].star <=> shown[k].addr > shown[k - 1].addr + 1

DumpInv == DumpType /\ Progress /\ LinesTold /\ StarsTold

-----------------------------------------------------------------------------
(* Before the call nothing has been printed.                               *)
LEMMA InitInv == DumpInit => DumpInv
  BY DEF DumpInit, DumpInv, DumpType, Progress, LinesTold, StarsTold

(* The loop starts with any stack, at its first line.                      *)
LEMMA StkDumpInv == DumpInv /\ StkDump => DumpInv'
<1> SUFFICES ASSUME DumpInv, StkDump PROVE DumpInv'
  OBVIOUS
<1>1. words' \in Seq(LINES) /\ Len(words') \in Nat
  <2>1. words' \in [1 .. N_LINES -> LINES] /\ N_LINES \in Nat
    BY DumpConstants DEF StkDump
  <2>2. words' \in Seq(LINES)
    BY <2>1
  <2> QED
    BY <2>2
<1>2. start = 1
  BY DEF DumpInv, DumpType, StkDump
<1>3. DumpType'
  BY <1>1, <1>2 DEF DumpInv, DumpType, StkDump
<1>4. Progress' /\ StarsTold'
  BY DEF DumpInv, Progress, StarsTold, StkDump
<1>5. LinesTold'
  BY <1>2 DEF LinesTold, StkDump
<1> QED
  BY <1>3, <1>4, <1>5 DEF DumpInv

(* A line is skipped only after one was printed, which it repeats.         *)
LEMMA SkipInv == DumpInv /\ Skip => DumpInv'
<1> SUFFICES ASSUME DumpInv, Skip PROVE DumpInv'
  OBVIOUS
<1>1. DumpType /\ words[start] \in LINES /\ start \in 1 .. Len(words)
  BY DEF DumpInv, DumpType, Skip
<1>2. shown # <<>>
  BY <1>1, DumpConstants DEF DumpInv, Progress, Skip, NoLine
<1>3. /\ Len(shown) \in DOMAIN shown /\ shown[Len(shown)].addr \in Nat
      /\ shown[Len(shown)].line = oldbuf
      /\ shown[Len(shown)].addr + eliding + 1 = start
  <2>1. shown \in Seq(Entry) /\ Len(shown) \in DOMAIN shown
    BY <1>1, <1>2 DEF DumpType
  <2>2. shown[Len(shown)] \in Entry
    BY <2>1
  <2> QED
    BY <2>1, <2>2, <1>2 DEF DumpInv, Progress, Entry
<1>4. DumpType'
  BY <1>1 DEF DumpType, Skip
<1>5. Progress'
  BY <1>1, <1>2, <1>3 DEF Progress, Skip, DumpType
<1>6. LinesTold'
  <2> SUFFICES ASSUME NEW i \in 1 .. start
               PROVE \E k \in DOMAIN shown :
                       /\ shown[k].addr <= i /\ shown[k].line = words[i]
                       /\ k < Len(shown) => i < shown[k + 1].addr
    BY <1>1 DEF LinesTold, Skip, DumpType
  <2>1. CASE i = start
    BY <2>1, <1>1, <1>3 DEF Skip, DumpType
  <2>2. CASE i < start
    BY <2>2, <1>1 DEF DumpInv, LinesTold, DumpType
  <2> QED
    BY <2>1, <2>2, <1>1 DEF DumpType
<1>7. StarsTold'
  BY DEF DumpInv, StarsTold, Skip
<1> QED
  BY <1>4, <1>5, <1>6, <1>7 DEF DumpInv

(* A line that is printed ends the lines of the one before it, and gets a  *)
(* star if it is not the next one.                                         *)
LEMMA PrintLineInv == DumpInv /\ PrintLine => DumpInv'
<1> SUFFICES ASSUME DumpInv, PrintLine PROVE DumpInv'
  OBVIOUS
<1> DEFINE entry == [addr |-> start, star |-> eliding > 0, line |-> words[start]]
           n     == Len(shown)
<1>1. DumpType /\ words[start] \in LINES /\ start \in 1 .. Len(words)
  BY DEF DumpInv, DumpType, PrintLine
<1>2. entry \in Entry /\ n \in Nat
  BY <1>1 DEF DumpType, Entry
<1>3. /\ shown' \in Seq(Entry) /\ Len(shown') = n + 1
      /\ shown'[n + 1] = entry /\ \A k \in 1 .. n : shown'[k] = shown[k]
  BY <1>1, <1>2 DEF PrintLine, DumpType
<1>4. \A k \in 1 .. n : shown[k].addr \in Nat
  <2>1. \A k \in 1 .. n : shown[k] \in Entry
    BY <1>1 DEF DumpType
  <2> QED
    BY <2>1 DEF Entry
<1>5. DumpType'
  BY <1>1, <1>3 DEF DumpType, PrintLine
<1>6. Progress'
  BY <1>1, <1>2, <1>3 DEF Progress, PrintLine, DumpType
<1>7. LinesTold'
  <2> SUFFICES ASSUME NEW i \in 1 .. start
               PROVE \E k \in 1 .. n + 1 :
                       /\ shown'[k].addr <= i /\ shown'[k].line = words[i]
                       /\ k < n + 1 => i < shown'[k + 1].addr
    <3>1. start' - 1 = start /\ words' = words
      BY <1>1 DEF PrintLine, DumpType
    <3>2. DOMAIN shown' = 1 .. n + 1
      BY <1>3
    <3> QED
      BY <3>1, <3>2, <1>3 DEF LinesTold
  <2>1. CASE i = start
    BY <2>1, <1>1, <1>2, <1>3
  <2>2. CASE i < start
    <3>1. PICK k \in 1 .. n : /\ shown[k].addr <= i /\ shown[k].line = words[i]
                              /\ k < n => i < shown[k + 1].addr
      BY <2>2, <1>1 DEF DumpInv, LinesTold, DumpType
    <3>2. shown'[k] = shown[k] /\ (k < n => shown'[k + 1] = shown[k + 1])
      BY <1>2, <1>3
    <3>3. k = n => shown'[k + 1].addr = start
      BY <1>3
    <3> QED
      BY <3>1, <3>2, <3>3, <2>2, <1>1, <1>2
  <2> QED
    BY <2>1, <2>2, <1>1 DEF DumpType
<1>8. StarsTold'
  <2> SUFFICES ASSUME NEW k \in 2 .. n + 1
               PROVE shown'[k].star <=> shown'[k].addr > shown'[k - 1].addr + 1
    BY <1>3 DEF StarsTold
  <2>1. CASE k <= n
    <3>1. shown'[k] = shown[k] /\ shown'[k - 1] = shown[k - 1]
      BY <2>1, <1>2, <1>3
    <3> QED
      BY <3>1, <2>1, <1>2 DEF DumpInv, StarsTold
  <2>2. CASE k = n + 1
    <3>1. n # 0 /\ shown # <<>>
      BY <2>2, <1>2
    <3>2. shown'[k - 1] = shown[n] /\ shown'[k] = entry
      BY <2>2, <3>1, <1>2, <1>3
    <3>3. shown[n].addr \in Nat /\ shown[n].addr + eliding + 1 = start
      BY <3>1, <1>2, <1>4 DEF DumpInv, Progress
    <3>4. shown'[k].star = (eliding > 0) /\ shown'[k].addr = start
      BY <3>2
    <3>5. eliding > 0 <=> start > shown[n].addr + 1
      BY <3>3, <1>1 DEF DumpType
    <3> QED
      BY <3>2, <3>4, <3>5, Zenon
  <2> QED
    BY <2>1, <2>2, <1>2
<1> QED
  BY <1>5, <1>6, <1>7, <1>8 DEF DumpInv

(* _stk_dump: whatever the stack and however large, a line that is not     *)
(* printed is the same as the printed one before it, and a star stands     *)
(* exactly where lines are missing.                                        *)
THEOREM DumpComplete == DumpSpec => []DumpTellsAll
<1>1. DumpInv /\ [DumpNext]_dumpVars => DumpInv'
  <2> SUFFICES ASSUME DumpInv, [DumpNext]_dumpVars PROVE DumpInv'
    OBVIOUS
  <2>1. CASE StkDump
    BY <2>1, StkDumpInv
  <2>2. CASE Skip
    BY <2>2, SkipInv
  <2>3. CASE PrintLine
    BY <2>3, PrintLineInv
  <2>4. CASE UNCHANGED dumpVars
    BY <2>4 DEF dumpVars, DumpInv, DumpType, Progress, LinesTold, StarsTold
  <2> QED
    BY <2>1, <2>2, <2>3, <2>4 DEF DumpNext
<1>2. DumpInv => DumpTellsAll
  BY DEF DumpInv, LinesTold, StarsTold, DumpTellsAll
<1> QED
  BY InitInv, <1>1, <1>2, PTL DEF DumpSpec
=============================================================================
