--------------------------- MODULE KeyboardProofs ---------------------------
(***************************************************************************)
(* Proofs about console input, for a circular buffer and a controller of   *)
(* every size and any keys: the buffer is the FIFO queue of CharStream,    *)
(* and what is stored is what the user meant.                              *)
(***************************************************************************)
EXTENDS Keyboard, SequenceTheorems, TLAPS

Byte == 0 .. 255

RingType ==
  /\ buffer \in [Index -> Byte]
  /\ next_char \in Index /\ next_space \in Index

-----------------------------------------------------------------------------
(* The circular buffer.                                                    *)

LEMMA Wrapped ==
  ASSUME NEW m \in Nat \ {0}, NEW a \in Nat, a < 2 * m
  PROVE  a % m = IF a < m THEN a ELSE a - m
OBVIOUS

(* The number of characters that a pair of pointers stands for.            *)
LEMMA QueueLength ==
  ASSUME RingType
  PROVE  /\ InputQueue = IF next_char <= next_space THEN next_space - next_char
                         ELSE next_space - next_char + C_BUFSIZE
         /\ InputQueue \in 0 .. C_BUFSIZE - 1
         /\ InputQueue = 0 <=> next_char = next_space
         /\ InputQueue = C_BUFSIZE - 1 <=> Increment(next_space) = next_char
         /\ C_BUFSIZE \in Nat /\ C_BUFSIZE > 1
BY KeyboardConstants DEF RingType, Index, InputQueue, Increment

(* The cells of the queue, counted from the oldest.                        *)
LEMMA Cells ==
  ASSUME RingType, NEW i \in 1 .. C_BUFSIZE
  PROVE  /\ (next_char + i - 1) % C_BUFSIZE \in Index
         /\ (next_char + i - 1) % C_BUFSIZE =
              IF next_char + i - 1 < C_BUFSIZE THEN next_char + i - 1
              ELSE next_char + i - 1 - C_BUFSIZE
<1>1. /\ C_BUFSIZE \in Nat \ {0} /\ next_char \in Nat /\ next_char < C_BUFSIZE
      /\ i \in Nat /\ 1 <= i /\ i <= C_BUFSIZE
  BY KeyboardConstants DEF RingType, Index
<1>2. next_char + i - 1 \in Nat /\ next_char + i - 1 < 2 * C_BUFSIZE
  BY <1>1
<1> DEFINE a == next_char + i - 1
<1>3. a % C_BUFSIZE = IF a < C_BUFSIZE THEN a ELSE a - C_BUFSIZE
  <2> HIDE DEF a
  <2> QED
    BY <1>1, <1>2, Wrapped DEF a
<1>4. a % C_BUFSIZE \in Index
  BY <1>1, <1>2, <1>3 DEF Index
<1> QED
  BY <1>1, <1>3, <1>4

WrapsOnce ==
  \A i \in 1 .. C_BUFSIZE :
    (next_char + i - 1) % C_BUFSIZE =
      IF next_char + i - 1 < C_BUFSIZE THEN next_char + i - 1
      ELSE next_char + i - 1 - C_BUFSIZE

LEMMA AllCells ==
  ASSUME RingType
  PROVE  WrapsOnce
BY Cells DEF WrapsOnce

LEMMA First ==
  ASSUME NEW S, NEW s \in Seq(S), s # <<>>
  PROVE  SubSeq(s, 1, 1) = <<s[1]>>
<1>1. Len(s) \in Nat /\ Len(s) > 0 /\ s[1] \in S
  BY EmptySeq, ElementOfSeq
<1> DEFINE t == SubSeq(s, 1, 1)
<1>2. t \in Seq(S) /\ Len(t) = 1 /\ t[1] = s[1]
  BY <1>1, SubSeqProperties
<1> HIDE DEF t
<1>3. t = <<s[1]>>
  BY <1>1, <1>2
<1> QED
  BY <1>3 DEF t

LEMMA ContentsType ==
  ASSUME RingType
  PROVE  Contents \in Seq(Byte) /\ Len(Contents) = InputQueue
<1>1. InputQueue \in Nat /\ InputQueue <= C_BUFSIZE
  BY QueueLength
<1>2. ASSUME NEW i \in 1 .. InputQueue
      PROVE  buffer[(next_char + i - 1) % C_BUFSIZE] \in Byte
  <2>1. i \in 1 .. C_BUFSIZE
    BY <1>1, QueueLength
  <2> QED
    BY <2>1, Cells DEF RingType
<1>3. Contents \in [1 .. InputQueue -> Byte]
  BY <1>2 DEF Contents
<1> QED
  BY <1>1, <1>3

(* A key is stored behind the others, unless the queue is full.            *)
LEMMA StoredLast ==
  ASSUME RingType, ctrl \in BOOLEAN, NEW ch \in Byte, StoreKey(ch)
  PROVE  /\ RingType'
         /\ Contents' = IF Len(Contents) = C_BUFSIZE - 1 THEN Contents
                        ELSE Append(Contents, Masked(ctrl, ch))
<1> DEFINE n == InputQueue
           c == Masked(ctrl, ch)
<1>1. /\ n \in 0 .. C_BUFSIZE - 1 /\ Len(Contents) = n
      /\ C_BUFSIZE \in Nat /\ C_BUFSIZE > 1
      /\ Contents \in Seq(Byte)
  BY QueueLength, ContentsType
<1>2. c \in Byte
  BY DEF Masked, Byte
<1>3. CASE Increment(next_space) = next_char
  <2>1. UNCHANGED ring
    BY <1>3 DEF StoreKey
  <2>2. n = C_BUFSIZE - 1
    BY <1>3, QueueLength
  <2>3. Contents' = Contents /\ RingType'
    BY <2>1 DEF ring, Contents, InputQueue, RingType
  <2> QED
    BY <1>1, <2>2, <2>3
<1>4. CASE Increment(next_space) # next_char
  <2>1. /\ buffer' = [buffer EXCEPT ![next_space] = c]
        /\ next_space' = Increment(next_space) /\ next_char' = next_char
    BY <1>4 DEF StoreKey, IsDefined, Byte
  <2>2. RingType'
    BY <1>1, <1>2, <2>1 DEF RingType, Increment, Index
  <2>3. n + 1 \in Nat /\ n + 1 <= C_BUFSIZE - 1 /\ n # C_BUFSIZE - 1
    BY <1>1, <1>4, QueueLength
  <2>4. InputQueue' = n + 1
    <3>1. InputQueue' = IF next_char' <= next_space' THEN next_space' - next_char'
                        ELSE next_space' - next_char' + C_BUFSIZE
      BY <2>2, <1>1, SMTT(30) DEF InputQueue, RingType, Index
    <3> QED
      BY <1>1, <1>4, <2>1, <3>1, QueueLength DEF Increment, RingType, Index
  <2>5. ASSUME NEW i \in 1 .. n + 1
        PROVE  Contents'[i] = IF i <= n THEN Contents[i] ELSE c
    <3>1. i \in 1 .. C_BUFSIZE
      BY <1>1, <2>3, <2>5
    <3> DEFINE at == (next_char + i - 1) % C_BUFSIZE
    <3>2. at \in Index /\ at = IF next_char + i - 1 < C_BUFSIZE THEN next_char + i - 1
                               ELSE next_char + i - 1 - C_BUFSIZE
      BY <3>1, Cells
    <3>3. Contents'[i] = buffer'[at]
      BY <2>1, <2>4, <2>5 DEF Contents
    <3>4. i <= n => Contents[i] = buffer[at]
      BY <1>1, <2>5 DEF Contents
    <3>5. at = next_space <=> i = n + 1
      BY <1>1, <2>5, <3>2, QueueLength DEF RingType, Index
    <3> HIDE DEF at, c, n
    <3>6. buffer'[at] = IF at = next_space THEN c ELSE buffer[at]
      BY <2>1, <3>2 DEF RingType
    <3> QED
      BY <1>1, <2>5, <3>3, <3>4, <3>5, <3>6
  <2>6. Contents' \in Seq(Byte) /\ Len(Contents') = n + 1
    <3>1. (Contents \in Seq(Byte) /\ Len(Contents) = InputQueue)'
      BY <2>2, ContentsType, PTL
    <3> QED
      BY <2>4, <3>1
  <2> HIDE DEF c, n
  <2>7. Contents' = Append(Contents, c)
    <3> DEFINE d == Append(Contents, c)
    <3>1. d \in Seq(Byte) /\ Len(d) = n + 1
      BY <1>1, <1>2
    <3>2. ASSUME NEW i \in 1 .. n + 1
          PROVE  d[i] = IF i <= n THEN Contents[i] ELSE c
      BY <1>1, <3>2
    <3>3. \A i \in 1 .. Len(d) : d[i] = Contents'[i]
      BY <2>5, <3>1, <3>2
    <3> HIDE DEF d
    <3>4. Contents' = d
      BY <2>6, <3>1, <3>3, SeqEqual
    <3> QED
      BY <3>4 DEF d
  <2>8. Len(Contents) # C_BUFSIZE - 1
    BY <1>1, <2>3 DEF n
  <2> QED
    BY <2>2, <2>7, <2>8 DEF c
<1> QED
  BY <1>3, <1>4

(* c_getchar takes the oldest.                                             *)
LEMMA OldestTaken ==
  ASSUME RingType, GetChar
  PROVE  /\ RingType'
         /\ Contents # <<>>
         /\ last' = SubSeq(Contents, 1, 1)
         /\ Contents' = SubSeq(Contents, 2, Len(Contents))
<1> DEFINE n == InputQueue
<1>1. /\ n \in 0 .. C_BUFSIZE - 1 /\ Len(Contents) = n
      /\ C_BUFSIZE \in Nat /\ C_BUFSIZE > 1
      /\ Contents \in Seq(Byte)
  BY QueueLength, ContentsType
<1>2. /\ next_char # next_space
      /\ last' = <<buffer[next_char]>>
      /\ buffer' = [buffer EXCEPT ![next_char] = 0]
      /\ next_char' = Increment(next_char) /\ next_space' = next_space
  BY DEF GetChar
<1>3. RingType'
  BY <1>1, <1>2 DEF RingType, Increment, Index, Byte
<1>4. n > 0
  BY <1>1, <1>2, QueueLength
<1>5. InputQueue' = n - 1
  BY <1>1, <1>2, <1>4, QueueLength DEF InputQueue, Increment, RingType, Index
<1>6. Contents'\in Seq(Byte) /\ Len(Contents') = n - 1
  <2>1. (Contents \in Seq(Byte) /\ Len(Contents) = InputQueue)'
    BY <1>3, ContentsType, PTL
  <2> QED
    BY <1>5, <2>1
<1>7. last' = SubSeq(Contents, 1, 1)
  <2>1. 1 \in 1 .. C_BUFSIZE /\ next_char + 1 - 1 = next_char /\ next_char < C_BUFSIZE
    BY <1>1 DEF RingType, Index
  <2>2. (next_char + 1 - 1) % C_BUFSIZE = next_char
    BY <2>1, Cells
  <2>3. Contents[1] = buffer[next_char]
    BY <1>1, <1>4, <2>2 DEF Contents
  <2> DEFINE s == SubSeq(Contents, 1, 1)
  <2>4. s = <<Contents[1]>>
    <3>1. Contents # <<>>
      BY <1>1, <1>4
    <3> QED
      BY <1>1, <3>1, First
  <2> QED
    BY <1>2, <2>3, <2>4
<1>8. ASSUME NEW i \in 1 .. n - 1
      PROVE  Contents'[i] = Contents[i + 1]
  <2>1. i \in 1 .. C_BUFSIZE /\ i + 1 \in 1 .. C_BUFSIZE /\ i + 1 \in 1 .. n
    BY <1>1
  <2> DEFINE at   == (next_char' + i - 1) % C_BUFSIZE
             from == (next_char + (i + 1) - 1) % C_BUFSIZE
  <2>2. /\ at = IF next_char' + i - 1 < C_BUFSIZE THEN next_char' + i - 1
                ELSE next_char' + i - 1 - C_BUFSIZE
    <3>1. WrapsOnce'
      BY <1>3, AllCells, PTL
    <3> QED
      BY <2>1, <3>1 DEF WrapsOnce
  <2>3. /\ from \in Index
        /\ from = IF next_char + (i + 1) - 1 < C_BUFSIZE THEN next_char + (i + 1) - 1
                ELSE next_char + (i + 1) - 1 - C_BUFSIZE
    BY <2>1, Cells
  <2>4. at = from /\ from # next_char
    <3>1. /\ next_char \in Nat /\ next_char < C_BUFSIZE
          /\ next_char' = IF next_char + 1 >= C_BUFSIZE THEN 0 ELSE next_char + 1
      BY <1>1, <1>2 DEF Increment, RingType, Index
    <3>2. i \in Nat /\ 1 <= i /\ i < C_BUFSIZE - 1
      BY <1>1
    <3> HIDE DEF at, from, n
    <3> QED
      BY <1>1, <2>2, <2>3, <3>1, <3>2
  <2>5. Contents'[i] = buffer'[at]
    BY <1>5 DEF Contents
  <2>6. Contents[i + 1] = buffer[from]
    BY <2>1 DEF Contents
  <2> HIDE DEF at, from
  <2> QED
    BY <1>2, <2>3, <2>4, <2>5, <2>6 DEF RingType
<1> DEFINE rest == SubSeq(Contents, 2, Len(Contents))
<1>9. Contents' = rest
  <2> HIDE DEF n
  <2>1. /\ rest \in Seq(Byte) /\ Len(rest) = n - 1
        /\ \A i \in 1 .. n - 1 : rest[i] = Contents[i + 1]
    BY <1>1, <1>4
  <2> HIDE DEF rest
  <2> QED
    BY <1>6, <1>8, <2>1, SeqEqual
<1> QED
  BY <1>1, <1>3, <1>4, <1>7, <1>9

-----------------------------------------------------------------------------
(* Scan codes.                                                             *)

ShiftDown == {L_SHIFT, R_SHIFT}
ShiftUp   == {L_SHIFT + 128, R_SHIFT + 128}
CtrlDown  == {CTRL}
CtrlUp    == {CTRL + 128}

(* A code of a key that stands for a character.                            *)
Ordinary(code) == code < 128 /\ code \notin ShiftDown \cup CtrlDown

(* A modifier key's state after a code that presses or releases it.        *)
Turned(on, code, down, up) == code \in down \/ (on /\ code \notin up)

LEMMA CodeHandled ==
  ASSUME RingType, shift \in BOOLEAN, ctrl \in BOOLEAN, NEW code \in Byte,
         InputScanCode(code)
  PROVE  /\ RingType' /\ shift' \in BOOLEAN /\ ctrl' \in BOOLEAN
         /\ shift' <=> Turned(shift, code, ShiftDown, ShiftUp)
         /\ ctrl' <=> Turned(ctrl, code, CtrlDown, CtrlUp)
         /\ Ordinary(code) =>
              /\ Masked(ctrl, ScanCode(shift, code)) \in Byte
              /\ Contents' = IF Len(Contents) = C_BUFSIZE - 1 THEN Contents
                             ELSE Append(Contents, Masked(ctrl, ScanCode(shift, code)))
         /\ ~ Ordinary(code) => Contents' = Contents
<1> USE DEF L_SHIFT, R_SHIFT, CTRL, ShiftDown, ShiftUp, CtrlDown, CtrlUp, Ordinary, Turned
<1>0. ASSUME UNCHANGED ring
      PROVE  RingType' /\ Contents' = Contents
  BY <1>0 DEF ring, RingType, Contents, InputQueue
<1>1. CASE code \in {L_SHIFT, R_SHIFT, L_SHIFT + 128, R_SHIFT + 128}
  <2>1. shift' = (code < 128) /\ UNCHANGED <<ring, ctrl>>
    BY <1>1 DEF InputScanCode, Byte
  <2>2. shift' \in BOOLEAN /\ ctrl' = ctrl /\ RingType' /\ Contents' = Contents
    BY <1>0, <2>1
  <2>3. code \in ShiftDown \cup ShiftUp /\ code \notin CtrlDown \cup CtrlUp
    BY <1>1
  <2>4. shift' <=> Turned(shift, code, ShiftDown, ShiftUp)
    <3>1. CASE code \in ShiftDown
      <4>1. code < 128
        BY <3>1
      <4>2. shift'
        BY <2>1, <4>1, Zenon
      <4> QED
        BY <3>1, <4>2
    <3>2. CASE code \in ShiftUp
      <4>1. ~ (code < 128) /\ code \notin ShiftDown
        BY <3>2
      <4>2. ~ shift'
        BY <2>1, <4>1, Zenon
      <4> QED
        BY <3>2, <4>1, <4>2
    <3> QED
      BY <2>3, <3>1, <3>2
  <2>5. ctrl' <=> Turned(ctrl, code, CtrlDown, CtrlUp)
    BY <2>2, <2>3
  <2>6. ~ Ordinary(code)
    BY <1>1
  <2> QED
    BY <2>2, <2>4, <2>5, <2>6
<1>2. CASE code \in {CTRL, CTRL + 128}
  <2>1. ctrl' = (code < 128) /\ UNCHANGED <<ring, shift>>
    BY <1>2 DEF InputScanCode, Byte
  <2>2. ctrl' \in BOOLEAN /\ shift' = shift /\ RingType' /\ Contents' = Contents
    BY <1>0, <2>1
  <2>3. code \in CtrlDown \cup CtrlUp /\ code \notin ShiftDown \cup ShiftUp
    BY <1>2
  <2>4. ctrl' <=> Turned(ctrl, code, CtrlDown, CtrlUp)
    <3>1. CASE code \in CtrlDown
      <4>1. code < 128
        BY <3>1
      <4>2. ctrl'
        BY <2>1, <4>1, Zenon
      <4> QED
        BY <3>1, <4>2
    <3>2. CASE code \in CtrlUp
      <4>1. ~ (code < 128) /\ code \notin CtrlDown
        BY <3>2
      <4>2. ~ ctrl'
        BY <2>1, <4>1, Zenon
      <4> QED
        BY <3>2, <4>1, <4>2
    <3> QED
      BY <2>3, <3>1, <3>2
  <2>5. shift' <=> Turned(shift, code, ShiftDown, ShiftUp)
    BY <2>2, <2>3
  <2>6. ~ Ordinary(code)
    BY <1>2
  <2> QED
    BY <2>2, <2>4, <2>5, <2>6
<1>3. CASE Ordinary(code)
  <2> DEFINE ch == ScanCode(shift, code)
  <2>1. ch \in Byte
    BY DEF ScanCode, KEY_D, ENTER, LF, UNDEFINED, Byte
  <2>2. StoreKey(ch) /\ UNCHANGED <<shift, ctrl>>
    BY <1>3 DEF InputScanCode, Byte
  <2>3. Masked(ctrl, ch) \in Byte
    BY <2>1 DEF Masked, Byte
  <2> HIDE DEF ch
  <2>4. /\ RingType'
        /\ Contents' = IF Len(Contents) = C_BUFSIZE - 1 THEN Contents
                       ELSE Append(Contents, Masked(ctrl, ch))
    BY <2>1, <2>2, StoredLast
  <2>5. /\ shift' <=> Turned(shift, code, ShiftDown, ShiftUp)
        /\ ctrl' <=> Turned(ctrl, code, CtrlDown, CtrlUp)
        /\ shift' \in BOOLEAN /\ ctrl' \in BOOLEAN
    BY <1>3, <2>2 DEF Byte
  <2> QED
    BY <1>3, <2>3, <2>4, <2>5 DEF ch
<1>4. CASE /\ code >= 128
           /\ code \notin {L_SHIFT, R_SHIFT, L_SHIFT + 128, R_SHIFT + 128}
           /\ code \notin {CTRL, CTRL + 128}
  <2>1. UNCHANGED <<ring, shift, ctrl>>
    BY <1>4 DEF InputScanCode, Byte
  <2> QED
    BY <1>0, <1>4, <2>1 DEF Byte
<1> QED
  BY <1>1, <1>2, <1>3, <1>4 DEF Byte

-----------------------------------------------------------------------------
(* The queue of scan codes.                                                *)

Code == [code : Byte, meant : Seq(Byte)]

KeyInv ==
  /\ RingType
  /\ shift \in BOOLEAN /\ ctrl \in BOOLEAN
  /\ codes \in Seq(Code) /\ held \subseteq Keys

(* What a key means is one character or none.                              *)
LEMMA PressedKey ==
  ASSUME NEW key \in Keys
  PROVE  /\ [code |-> key, meant |-> Meant(key)] \in Code
         /\ [code |-> key + 128, meant |-> <<>>] \in Code
<1>1. key \in Byte /\ key + 128 \in Byte
  BY KeyboardConstants DEF Byte
<1>2. ASSUME NEW on, NEW shifted
      PROVE  Masked(on, ScanCode(shifted, key)) \in Byte
  BY DEF Masked, ScanCode, KEY_D, ENTER, LF, UNDEFINED, Byte
<1>3. Meant(key) \in Seq(Byte)
  <2>1. Meant(key) = <<>> \/ \E c \in Byte : Meant(key) = <<c>>
    <3> DEFINE c == Masked(CTRL \in held,
                     ScanCode({L_SHIFT, R_SHIFT} \cap held # {}, key))
    <3>1. c \in Byte
      BY <1>2
    <3>2. Meant(key) = <<>> \/ Meant(key) = <<c>>
      BY DEF Meant
    <3> QED
      BY <3>1, <3>2
  <2>2. ASSUME NEW c \in Byte
        PROVE  <<c>> \in Seq(Byte)
    OBVIOUS
  <2> QED
    BY <2>1, <2>2, EmptySeq
<1> QED
  BY <1>1, <1>3 DEF Code

LEMMA InitKeys == Init => KeyInv
<1> SUFFICES ASSUME Init
             PROVE  KeyInv
  OBVIOUS
<1>1. 0 \in Index /\ 0 \in Byte /\ <<>> \in Seq(Code) /\ held \subseteq Keys
  BY KeyboardConstants DEF Index, Byte, Init
<1> QED
  BY <1>1 DEF Init, KeyInv, RingType

LEMMA OldestCode ==
  ASSUME codes \in Seq(Code), codes # <<>>
  PROVE  Head(codes).code \in Byte /\ Tail(codes) \in Seq(Code)
<1>1. Head(codes) \in Code /\ Tail(codes) \in Seq(Code)
  BY HeadTailProperties
<1> QED
  BY <1>1 DEF Code

(* The next scan code is handled, by the interrupt handler or by polling.  *)
LEMMA HandledKeeps ==
  ASSUME KeyInv, codes # <<>>, InputScanCode(Head(codes).code),
         codes' = Tail(codes), UNCHANGED held
  PROVE  KeyInv'
<1>1. Head(codes).code \in Byte /\ codes' \in Seq(Code)
  BY OldestCode DEF KeyInv
<1> QED
  BY <1>1, CodeHandled DEF KeyInv

LEMMA NextKeys ==
  ASSUME KeyInv, [Next]_vars
  PROVE  KeyInv'
<1>1. CASE UNCHANGED vars
  BY <1>1 DEF vars, KeyInv, RingType
<1>2. CASE KeyboardIsr \/ Poll
  BY <1>2, HandledKeeps DEF KeyboardIsr, Poll
<1>3. CASE (\E size \in Sizes : BeginGets(size)) \/ EndGets
  BY <1>3 DEF BeginGets, EndGets, ring, KeyInv, RingType
<1>4. CASE GetChar
  <2>1. RingType'
    BY <1>4, OldestTaken DEF KeyInv
  <2>2. UNCHANGED <<shift, ctrl, codes, held>>
    BY <1>4 DEF GetChar
  <2> QED
    BY <2>1, <2>2 DEF KeyInv
<1>5. ASSUME NEW key \in Keys, Press(key) \/ Release(key)
      PROVE  KeyInv'
  <2>1. codes' \in Seq(Code) /\ held' \subseteq Keys
    BY <1>5, PressedKey DEF KeyInv, Press, Release
  <2>2. UNCHANGED <<ring, shift, ctrl>>
    BY <1>5 DEF Press, Release
  <2> QED
    BY <2>1, <2>2 DEF KeyInv, RingType, ring
<1> QED
  BY <1>1, <1>2, <1>3, <1>4, <1>5 DEF Next

LEMMA KeysInv == Spec => []KeyInv
<1>1. KeyInv /\ [Next]_vars => KeyInv'
  BY NextKeys
<1> QED
  BY <1>1, InitKeys, PTL DEF Spec

-----------------------------------------------------------------------------
(* The refinement of CharStream.                                           *)

LEMMA StepOfStream ==
  ASSUME KeyInv, [Next]_vars
  PROVE  [Stream!Next]_<<Contents, last>>
<1>1. Contents \in Seq(Byte) /\ Len(Contents) \in 0 .. C_BUFSIZE - 1
  BY ContentsType, QueueLength DEF KeyInv
<1>2. ASSUME UNCHANGED <<ring, last>>
      PROVE  UNCHANGED <<Contents, last>>
  BY <1>2 DEF ring, Contents, InputQueue
<1>3. CASE UNCHANGED vars
  BY <1>2, <1>3 DEF vars, ring
<1>4. CASE KeyboardIsr \/ Poll
  <2> DEFINE code == Head(codes).code
             ch   == Masked(ctrl, ScanCode(shift, code))
  <2>1. code \in Byte
    BY <1>4, OldestCode DEF KeyInv, KeyboardIsr, Poll
  <2>2. InputScanCode(code) /\ last' = last
    BY <1>4 DEF KeyboardIsr, Poll
  <2>3. \/ Contents' = Contents
        \/ ch \in Byte /\ Len(Contents) # C_BUFSIZE - 1 /\ Contents' = Append(Contents, ch)
    BY <2>1, <2>2, CodeHandled DEF KeyInv
  <2> HIDE DEF code, ch
  <2>4. CASE Contents' = Contents
    BY <2>2, <2>4
  <2>5. CASE ch \in Byte /\ Len(Contents) # C_BUFSIZE - 1 /\ Contents' = Append(Contents, ch)
    <3>1. Len(Contents) < C_BUFSIZE - 1
      BY <1>1, <2>5, KeyboardConstants
    <3>2. Stream!Accept(ch)
      BY <2>2, <2>5, <3>1 DEF Stream!Accept
    <3> QED
      BY <2>5, <3>2 DEF Stream!Next, Byte
  <2> QED
    BY <2>3, <2>4, <2>5
<1>5. CASE (\E size \in Sizes : BeginGets(size)) \/ EndGets
  BY <1>2, <1>5 DEF BeginGets, EndGets
<1>6. CASE GetChar
  <2>1. /\ Contents # <<>>
        /\ last' = SubSeq(Contents, 1, 1)
        /\ Contents' = SubSeq(Contents, 2, Len(Contents))
    BY <1>6, OldestTaken DEF KeyInv
  <2>2. 1 \in 1 .. Len(Contents)
    BY <1>1, <2>1
  <2>3. Stream!Take(1)
    BY <2>1 DEF Stream!Take
  <2> QED
    BY <2>2, <2>3 DEF Stream!Next
<1>7. ASSUME NEW key \in Keys, Press(key) \/ Release(key)
      PROVE  UNCHANGED <<Contents, last>>
  BY <1>2, <1>7 DEF Press, Release
<1> QED
  BY <1>3, <1>4, <1>5, <1>6, <1>7 DEF Next

(* Console input, with its circular buffer, its interrupts and its polling,*)
(* is the FIFO queue of C_BUFSIZE - 1 characters that CharStream promises. *)
THEOREM KeyboardIsStream == Spec => ImplementsStream
<1>1. Init => Stream!Init
  <2> SUFFICES ASSUME Init
               PROVE  Contents = <<>> /\ last = <<>>
    BY DEF Stream!Init
  <2>1. Contents \in Seq(Byte) /\ Len(Contents) = InputQueue
    BY InitKeys, ContentsType DEF KeyInv
  <2>2. InputQueue = 0
    BY DEF Init, InputQueue
  <2> QED
    BY <2>1, <2>2, EmptySeq DEF Init
<1>2. KeyInv /\ [Next]_vars => [Stream!Next]_<<Contents, last>>
  BY StepOfStream
<1> QED
  BY <1>1, <1>2, KeysInv, PTL DEF Spec, ImplementsStream, Stream!Spec

-----------------------------------------------------------------------------
(* What the user meant.  A modifier is on after the first n scan codes     *)
(* that wait if its last change among them was a press, "now" being how it *)
(* stands before them.                                                     *)

OnAfter(cs, n, now, down, up) ==
  \/ now /\ \A j \in 1 .. n : cs[j].code \notin up
  \/ \E j \in 1 .. n : /\ cs[j].code \in down
                       /\ \A k \in j + 1 .. n : cs[k].code \notin up

LEMMA OnAfterNone ==
  ASSUME NEW cs, NEW now \in BOOLEAN, NEW down, NEW up
  PROVE  OnAfter(cs, 0, now, down, up) <=> now
BY DEF OnAfter

(* A code after n others.                                                  *)
LEMMA OnAfterOneMore ==
  ASSUME NEW n \in Nat, NEW cs, NEW now \in BOOLEAN,
         NEW down, NEW up, down \cap up = {}
  PROVE  OnAfter(cs, n + 1, now, down, up)
           <=> Turned(OnAfter(cs, n, now, down, up), cs[n + 1].code, down, up)
<1>1. /\ \A j \in 1 .. n : j \in 1 .. n + 1 /\ n + 1 \in j + 1 .. n + 1
      /\ \A j \in 1 .. n + 1 : j \in 1 .. n \/ j = n + 1
      /\ n + 1 \in 1 .. n + 1
      /\ \A k \in n + 1 + 1 .. n + 1 : FALSE
      /\ \A j \in 1 .. n : /\ \A k \in j + 1 .. n + 1 : k \in j + 1 .. n \/ k = n + 1
                           /\ \A k \in j + 1 .. n : k \in j + 1 .. n + 1
  OBVIOUS
<1> DEFINE c == cs[n + 1].code
<1>2. CASE c \in up
  <2>1. c \notin down
    BY <1>2
  <2>2. ~ \A j \in 1 .. n + 1 : cs[j].code \notin up
    BY <1>1, <1>2
  <2>3. ASSUME NEW j \in 1 .. n + 1, cs[j].code \in down
        PROVE  ~ \A k \in j + 1 .. n + 1 : cs[k].code \notin up
    <3>1. j \in 1 .. n
      BY <1>1, <2>1, <2>3
    <3>2. n + 1 \in j + 1 .. n + 1
      BY <1>1, <3>1
    <3> QED
      BY <1>2, <3>2
  <2>4. ~ OnAfter(cs, n + 1, now, down, up)
    BY <2>2, <2>3, Zenon DEF OnAfter
  <2> QED
    BY <1>2, <2>1, <2>4 DEF Turned
<1>3. CASE c \in down
  <2>1. \A k \in n + 1 + 1 .. n + 1 : cs[k].code \notin up
    BY <1>1
  <2>2. OnAfter(cs, n + 1, now, down, up)
    BY <1>1, <1>3, <2>1, Zenon DEF OnAfter
  <2> QED
    BY <1>3, <2>2 DEF Turned
<1>4. CASE c \notin down /\ c \notin up
  <2>1. (\A j \in 1 .. n + 1 : cs[j].code \notin up)
          <=> (\A j \in 1 .. n : cs[j].code \notin up)
    BY <1>1, <1>4
  <2>2. ASSUME NEW j \in 1 .. n
        PROVE  (\A k \in j + 1 .. n + 1 : cs[k].code \notin up)
                 <=> (\A k \in j + 1 .. n : cs[k].code \notin up)
    BY <1>1, <1>4
  <2>3. OnAfter(cs, n, now, down, up) => OnAfter(cs, n + 1, now, down, up)
    <3>1. CASE now /\ \A j \in 1 .. n : cs[j].code \notin up
      BY <2>1, <3>1, Zenon DEF OnAfter
    <3>2. ASSUME NEW j \in 1 .. n, cs[j].code \in down,
                 \A k \in j + 1 .. n : cs[k].code \notin up
          PROVE  OnAfter(cs, n + 1, now, down, up)
      <4>1. j \in 1 .. n + 1 /\ \A k \in j + 1 .. n + 1 : cs[k].code \notin up
        BY <1>1, <2>2, <3>2
      <4> QED
        BY <3>2, <4>1, Zenon DEF OnAfter
    <3> QED
      BY <3>1, <3>2, Zenon DEF OnAfter
  <2>4. OnAfter(cs, n + 1, now, down, up) => OnAfter(cs, n, now, down, up)
    <3>1. CASE now /\ \A j \in 1 .. n + 1 : cs[j].code \notin up
      BY <2>1, <3>1, Zenon DEF OnAfter
    <3>2. ASSUME NEW j \in 1 .. n + 1, cs[j].code \in down,
                 \A k \in j + 1 .. n + 1 : cs[k].code \notin up
          PROVE  OnAfter(cs, n, now, down, up)
      <4>1. j \in 1 .. n
        BY <1>1, <1>4, <3>2
      <4>2. \A k \in j + 1 .. n : cs[k].code \notin up
        BY <2>2, <3>2, <4>1
      <4> QED
        BY <3>2, <4>1, <4>2, Zenon DEF OnAfter
    <3> QED
      BY <3>1, <3>2, Zenon DEF OnAfter
  <2> QED
    BY <1>4, <2>3, <2>4 DEF Turned
<1> QED
  BY <1>2, <1>3, <1>4

(* The first of n + 1 codes is handled: it is the same to do so before or  *)
(* after they are counted.                                                 *)
LEMMA OnAfterShifted ==
  ASSUME NEW n \in Nat, NEW cs, NEW ds, \A j \in 1 .. n : ds[j] = cs[j + 1],
         NEW now \in BOOLEAN, NEW down, NEW up, down \cap up = {}
  PROVE  OnAfter(ds, n, Turned(now, cs[1].code, down, up), down, up)
           <=> OnAfter(cs, n + 1, now, down, up)
<1> DEFINE then == Turned(now, cs[1].code, down, up)
<1>1. /\ \A j \in 1 .. n + 1 : j # 1 => j - 1 \in 1 .. n /\ ds[j - 1] = cs[j]
      /\ \A j \in 1 .. n : j + 1 \in 1 .. n + 1
      /\ 1 \in 1 .. n + 1
      /\ \A k \in 1 + 1 .. n + 1 : k - 1 \in 1 .. n /\ ds[k - 1] = cs[k]
      /\ \A j \in 1 .. n : j + 1 \in 1 + 1 .. n + 1
      /\ \A k \in 1 + 1 .. n + 1 : k \in 1 .. n + 1
      /\ \A j \in 1 .. n + 1 : j # 1 => j \in 1 + 1 .. n + 1
  <2>1. \A j \in 1 .. n + 1 : j # 1 => j - 1 \in 1 .. n /\ j - 1 + 1 = j
    OBVIOUS
  <2> QED
    BY <2>1
<1> DEFINE quiet == \A j \in 1 .. n : ds[j].code \notin up
<1>2. (\A k \in 1 + 1 .. n + 1 : cs[k].code \notin up) <=> quiet
  BY <1>1
<1>3. (\A j \in 1 .. n + 1 : cs[j].code \notin up) <=> cs[1].code \notin up /\ quiet
  BY <1>1
<1>4. ASSUME NEW j \in 1 .. n
      PROVE  (\A k \in j + 1 + 1 .. n + 1 : cs[k].code \notin up)
               <=> (\A k \in j + 1 .. n : ds[k].code \notin up)
  <2>1. /\ \A k \in j + 1 + 1 .. n + 1 : k - 1 \in j + 1 .. n /\ ds[k - 1] = cs[k]
        /\ \A k \in j + 1 .. n : k + 1 \in j + 1 + 1 .. n + 1 /\ ds[k] = cs[k + 1]
    BY <1>1
  <2> QED
    BY <2>1
<1>5. OnAfter(ds, n, then, down, up) => OnAfter(cs, n + 1, now, down, up)
  <2>1. CASE then /\ quiet
    <3>1. CASE cs[1].code \in down
      BY <1>1, <1>2, <2>1, <3>1, Zenon DEF OnAfter
    <3>2. CASE now /\ cs[1].code \notin up
      BY <1>3, <2>1, <3>2, Zenon DEF OnAfter
    <3> QED
      BY <2>1, <3>1, <3>2 DEF Turned
  <2>2. ASSUME NEW j \in 1 .. n, ds[j].code \in down,
               \A k \in j + 1 .. n : ds[k].code \notin up
        PROVE  OnAfter(cs, n + 1, now, down, up)
    <3>1. /\ j + 1 \in 1 .. n + 1 /\ cs[j + 1].code \in down
          /\ \A k \in j + 1 + 1 .. n + 1 : cs[k].code \notin up
      BY <1>1, <1>4, <2>2
    <3> QED
      BY <3>1, Zenon DEF OnAfter
  <2> QED
    BY <2>1, <2>2, Zenon DEF OnAfter
<1>6. OnAfter(cs, n + 1, now, down, up) => OnAfter(ds, n, then, down, up)
  <2>1. CASE now /\ \A j \in 1 .. n + 1 : cs[j].code \notin up
    <3>1. then /\ quiet
      BY <1>3, <2>1 DEF Turned
    <3> QED
      BY <3>1, Zenon DEF OnAfter
  <2>2. ASSUME NEW j \in 1 .. n + 1, cs[j].code \in down,
               \A k \in j + 1 .. n + 1 : cs[k].code \notin up
        PROVE  OnAfter(ds, n, then, down, up)
    <3>1. CASE j = 1
      <4>1. then /\ quiet
        BY <1>2, <2>2, <3>1 DEF Turned
      <4> QED
        BY <4>1, Zenon DEF OnAfter
    <3>2. CASE j # 1
      <4>1. j - 1 \in 1 .. n /\ ds[j - 1].code \in down /\ j - 1 + 1 = j
        BY <1>1, <2>2, <3>2
      <4>2. \A k \in j - 1 + 1 .. n : ds[k].code \notin up
        BY <1>4, <2>2, <4>1
      <4> QED
        BY <4>1, <4>2, Zenon DEF OnAfter
    <3> QED
      BY <3>1, <3>2
  <2> QED
    BY <2>1, <2>2, Zenon DEF OnAfter
<1> QED
  BY <1>5, <1>6

-----------------------------------------------------------------------------
(* The modifiers, after the first n scan codes that wait.                  *)

ShiftOn(n) == OnAfter(codes, n, shift, ShiftDown, ShiftUp)
CtrlOn(n)  == OnAfter(codes, n, ctrl, CtrlDown, CtrlUp)

(* The driver has only one flag for two keys.                              *)
OneShiftKey == ~ ({L_SHIFT, R_SHIFT} \subseteq Keys)

(* Once all that waits has been handled, the flags are as the keys are     *)
(* held; and a code is translated as its key was meant.                    *)
MeantInv ==
  /\ ShiftOn(Len(codes)) <=> {L_SHIFT, R_SHIFT} \cap held # {}
  /\ CtrlOn(Len(codes)) <=> CTRL \in held
  /\ \A i \in 1 .. Len(codes) : codes[i].meant # <<>> =>
       /\ Ordinary(codes[i].code)
       /\ codes[i].meant = <<Masked(CtrlOn(i - 1), ScanCode(ShiftOn(i - 1), codes[i].code))>>

LEMMA ModifierCodes ==
  /\ ShiftDown \cap ShiftUp = {} /\ CtrlDown \cap CtrlUp = {}
  /\ \A key \in Keys : key + 128 \notin ShiftDown \cup CtrlDown
  /\ \A key \in Keys : key \notin ShiftUp \cup CtrlUp
  /\ \A key \in Keys : key + 128 \in ShiftUp <=> key \in ShiftDown
  /\ \A key \in Keys : key + 128 \in CtrlUp <=> key \in CtrlDown
BY KeyboardConstants
   DEF ShiftDown, ShiftUp, CtrlDown, CtrlUp, L_SHIFT, R_SHIFT, CTRL

(* The translation looks at the modifiers' truth only.                     *)
LEMMA SameMeaning ==
  ASSUME NEW c1, NEW c2, c1 <=> c2, NEW s1, NEW s2, s1 <=> s2, NEW code
  PROVE  Masked(c1, ScanCode(s1, code)) = Masked(c2, ScanCode(s2, code))
<1>1. ScanCode(s1, code) = ScanCode(s2, code)
  BY DEF ScanCode
<1> QED
  BY <1>1 DEF Masked

(* The user presses or releases a key.                                     *)
LEMMA QueuedAsMeant ==
  ASSUME OneShiftKey, KeyInv, MeantInv, NEW key \in Keys, Press(key) \/ Release(key)
  PROVE  MeantInv'
<1>0. PICK n \in Nat : n = Len(codes)
  BY DEF KeyInv
<1> DEFINE c == codes'[n + 1]
<1>1. /\ codes \in Seq(Code) /\ n \in Nat /\ shift \in BOOLEAN /\ ctrl \in BOOLEAN
      /\ held \subseteq Keys /\ shift' = shift /\ ctrl' = ctrl
  BY DEF KeyInv, Press, Release
<1>2. /\ Len(codes') = n + 1
      /\ \A i \in 1 .. n : codes'[i] = codes[i]
      /\ \/ /\ Press(key) /\ held' = held \cup {key}
            /\ c = [code |-> key, meant |-> Meant(key)]
         \/ /\ Release(key) /\ held' = held \ {key}
            /\ c = [code |-> key + 128, meant |-> <<>>]
  BY <1>0, <1>1, PressedKey DEF Press, Release
<1> HIDE DEF c
<1>3. ASSUME NEW i \in 0 .. n
      PROVE  (ShiftOn(i)' <=> ShiftOn(i)) /\ (CtrlOn(i)' <=> CtrlOn(i))
  <2>1. /\ \A j \in 1 .. i : codes'[j] = codes[j]
        /\ \A j \in 1 .. i : \A k \in j + 1 .. i : codes'[k] = codes[k]
    BY <1>1, <1>2
  <2> QED
    BY <1>1, <2>1 DEF ShiftOn, CtrlOn, OnAfter
<1>4. /\ ShiftOn(n + 1)' <=> Turned(ShiftOn(n)', c.code, ShiftDown, ShiftUp)
      /\ CtrlOn(n + 1)' <=> Turned(CtrlOn(n)', c.code, CtrlDown, CtrlUp)
  <2>1. OnAfter(codes', n + 1, shift', ShiftDown, ShiftUp)
          <=> Turned(OnAfter(codes', n, shift', ShiftDown, ShiftUp),
                     codes'[n + 1].code, ShiftDown, ShiftUp)
    BY <1>1, OnAfterOneMore, ModifierCodes
  <2>2. OnAfter(codes', n + 1, ctrl', CtrlDown, CtrlUp)
          <=> Turned(OnAfter(codes', n, ctrl', CtrlDown, CtrlUp),
                     codes'[n + 1].code, CtrlDown, CtrlUp)
    BY <1>1, OnAfterOneMore, ModifierCodes
  <2> QED
    BY <2>1, <2>2 DEF ShiftOn, CtrlOn, c
<1>5. /\ ShiftOn(n) <=> {L_SHIFT, R_SHIFT} \cap held # {}
      /\ CtrlOn(n) <=> CTRL \in held
      /\ n \in 0 .. n
  BY <1>0, <1>1 DEF MeantInv
<1>6. ShiftOn(n + 1)' <=> {L_SHIFT, R_SHIFT} \cap held' # {}
  <2>1. CASE Press(key) /\ held' = held \cup {key} /\ c.code = key
    <3>1. Turned(ShiftOn(n)', c.code, ShiftDown, ShiftUp)
            <=> key \in ShiftDown \/ {L_SHIFT, R_SHIFT} \cap held # {}
      <4>1. ShiftOn(n)' <=> {L_SHIFT, R_SHIFT} \cap held # {}
        BY <1>3, <1>5
      <4>2. (c.code \in ShiftDown <=> key \in ShiftDown) /\ c.code \notin ShiftUp
        BY <2>1, ModifierCodes
      <4> QED
        BY <4>1, <4>2, Zenon DEF Turned
    <3> QED
      BY <1>4, <2>1, <3>1 DEF ShiftDown
  <2>2. CASE Release(key) /\ held' = held \ {key} /\ c.code = key + 128
    <3>1. Turned(ShiftOn(n)', c.code, ShiftDown, ShiftUp)
            <=> key \notin ShiftDown /\ {L_SHIFT, R_SHIFT} \cap held # {}
      <4>1. ShiftOn(n)' <=> {L_SHIFT, R_SHIFT} \cap held # {}
        BY <1>3, <1>5
      <4>2. (c.code \in ShiftUp <=> key \in ShiftDown) /\ c.code \notin ShiftDown
        BY <2>2, ModifierCodes
      <4> QED
        BY <4>1, <4>2, Zenon DEF Turned
    <3>2. {L_SHIFT, R_SHIFT} \cap (held \ {key}) # {}
            <=> key \notin ShiftDown /\ {L_SHIFT, R_SHIFT} \cap held # {}
      BY <1>1 DEF OneShiftKey, ShiftDown
    <3> QED
      BY <1>4, <2>2, <3>1, <3>2
  <2> QED
    BY <1>2, <2>1, <2>2
<1>7. CtrlOn(n + 1)' <=> CTRL \in held'
  <2>1. CASE Press(key) /\ held' = held \cup {key} /\ c.code = key
    <3>1. Turned(CtrlOn(n)', c.code, CtrlDown, CtrlUp)
            <=> key \in CtrlDown \/ CTRL \in held
      <4>1. CtrlOn(n)' <=> CTRL \in held
        BY <1>3, <1>5
      <4>2. (c.code \in CtrlDown <=> key \in CtrlDown) /\ c.code \notin CtrlUp
        BY <2>1, ModifierCodes
      <4> QED
        BY <4>1, <4>2, Zenon DEF Turned
    <3> QED
      BY <1>4, <2>1, <3>1 DEF CtrlDown
  <2>2. CASE Release(key) /\ held' = held \ {key} /\ c.code = key + 128
    <3>1. Turned(CtrlOn(n)', c.code, CtrlDown, CtrlUp)
            <=> key \notin CtrlDown /\ CTRL \in held
      <4>1. CtrlOn(n)' <=> CTRL \in held
        BY <1>3, <1>5
      <4>2. (c.code \in CtrlUp <=> key \in CtrlDown) /\ c.code \notin CtrlDown
        BY <2>2, ModifierCodes
      <4> QED
        BY <4>1, <4>2, Zenon DEF Turned
    <3> QED
      BY <1>4, <2>2, <3>1 DEF CtrlDown
  <2> QED
    BY <1>2, <2>1, <2>2
<1>8. ASSUME NEW i \in 1 .. n + 1, codes'[i].meant # <<>>
      PROVE  /\ Ordinary(codes'[i].code)
             /\ codes'[i].meant =
                  <<Masked(CtrlOn(i - 1)', ScanCode(ShiftOn(i - 1)', codes'[i].code))>>
  <2>1. i - 1 \in 0 .. n
    BY <1>1
  <2>2. (ShiftOn(i - 1)' <=> ShiftOn(i - 1)) /\ (CtrlOn(i - 1)' <=> CtrlOn(i - 1))
    BY <1>3, <2>1
  <2>3. CASE i \in 1 .. n
    <3>1. /\ Ordinary(codes[i].code)
          /\ codes[i].meant = <<Masked(CtrlOn(i - 1), ScanCode(ShiftOn(i - 1), codes[i].code))>>
      BY <1>0, <1>2, <1>8, <2>3 DEF MeantInv
    <3>2. Masked(CtrlOn(i - 1), ScanCode(ShiftOn(i - 1), codes[i].code))
            = Masked(CtrlOn(i - 1)', ScanCode(ShiftOn(i - 1)', codes[i].code))
      BY <2>2, SameMeaning
    <3> QED
      BY <1>2, <2>3, <3>1, <3>2
  <2>4. CASE i = n + 1
    <3>1. c.meant # <<>> /\ c.code = key /\ c.meant = Meant(key)
      BY <1>2, <1>8, <2>4 DEF c
    <3>2. /\ key \notin {L_SHIFT, R_SHIFT, CTRL}
          /\ Meant(key) = <<Masked(CTRL \in held,
                              ScanCode({L_SHIFT, R_SHIFT} \cap held # {}, key))>>
      BY <3>1 DEF Meant
    <3>3. Masked(CTRL \in held, ScanCode({L_SHIFT, R_SHIFT} \cap held # {}, key))
            = Masked(CtrlOn(n)', ScanCode(ShiftOn(n)', key))
      <4>1. /\ CTRL \in held <=> CtrlOn(n)'
            /\ {L_SHIFT, R_SHIFT} \cap held # {} <=> ShiftOn(n)'
        BY <1>3, <1>5
      <4> QED
        BY <4>1 DEF Masked, ScanCode
    <3>4. Ordinary(key)
      BY <3>2, KeyboardConstants DEF Ordinary, ShiftDown, CtrlDown
    <3>5. i - 1 = n
      BY <1>1, <2>4
    <3> QED
      BY <2>4, <3>1, <3>2, <3>3, <3>4, <3>5 DEF c
  <2> QED
    BY <1>1, <2>3, <2>4
<1>9. \A i \in 1 .. n + 1 : codes'[i].meant # <<>> =>
        /\ Ordinary(codes'[i].code)
        /\ codes'[i].meant =
             <<Masked(CtrlOn(i - 1)', ScanCode(ShiftOn(i - 1)', codes'[i].code))>>
  BY <1>8
<1> QED
  BY <1>2, <1>6, <1>7, <1>9, Zenon DEF MeantInv

(* The oldest code is handled.                                             *)
LEMMA HandledAsMeant ==
  ASSUME KeyInv, MeantInv, codes # <<>>, InputScanCode(Head(codes).code),
         codes' = Tail(codes), UNCHANGED held
  PROVE  /\ MeantInv'
         /\ Head(codes).meant # <<>> =>
              Contents' = IF Len(Contents) = C_BUFSIZE - 1 THEN Contents
                          ELSE Contents \o Head(codes).meant
<1>0. PICK n \in Nat : n + 1 = Len(codes)
  <2>1. Len(codes) \in Nat /\ Len(codes) # 0
    BY DEF KeyInv
  <2>2. Len(codes) - 1 \in Nat /\ (Len(codes) - 1) + 1 = Len(codes)
    BY <2>1
  <2> QED
    BY <2>2
<1>1. /\ codes \in Seq(Code) /\ Head(codes) = codes[1] /\ codes[1].code \in Byte
      /\ Len(codes') = n /\ \A j \in 1 .. n : codes'[j] = codes[j + 1]
  <2>1. codes \in Seq(Code)
    BY DEF KeyInv
  <2>2. Head(codes).code \in Byte
    BY <2>1, OldestCode
  <2> QED
    BY <1>0, <2>1, <2>2, HeadTailProperties
<1>2. /\ shift \in BOOLEAN /\ ctrl \in BOOLEAN /\ shift' \in BOOLEAN /\ ctrl' \in BOOLEAN
      /\ shift' <=> Turned(shift, codes[1].code, ShiftDown, ShiftUp)
      /\ ctrl' <=> Turned(ctrl, codes[1].code, CtrlDown, CtrlUp)
  BY <1>1, CodeHandled DEF KeyInv
<1>3. ASSUME NEW i \in 0 .. n
      PROVE  (ShiftOn(i)' <=> ShiftOn(i + 1)) /\ (CtrlOn(i)' <=> CtrlOn(i + 1))
  <2> DEFINE cs == codes
             ds == codes'
             s1 == shift'
             c1 == ctrl'
  <2>1. /\ s1 <=> Turned(shift, cs[1].code, ShiftDown, ShiftUp)
        /\ c1 <=> Turned(ctrl, cs[1].code, CtrlDown, CtrlUp)
    BY <1>2
  <2>2. ShiftDown \cap ShiftUp = {} /\ CtrlDown \cap CtrlUp = {}
    BY ModifierCodes
  <2>3. i \in Nat /\ \A j \in 1 .. i : ds[j] = cs[j + 1]
    BY <1>1
  <2> HIDE DEF cs, ds, s1, c1
  <2>4. OnAfter(ds, i, s1, ShiftDown, ShiftUp)
          <=> OnAfter(cs, i + 1, shift, ShiftDown, ShiftUp)
    <3> DEFINE then == Turned(shift, cs[1].code, ShiftDown, ShiftUp)
    <3>1. OnAfter(ds, i, then, ShiftDown, ShiftUp)
            <=> OnAfter(cs, i + 1, shift, ShiftDown, ShiftUp)
      BY <1>2, <2>2, <2>3, OnAfterShifted
    <3>2. s1 <=> then
      BY <2>1
    <3> HIDE DEF then
    <3> QED
      BY <3>1, <3>2 DEF OnAfter
  <2>5. OnAfter(ds, i, c1, CtrlDown, CtrlUp)
          <=> OnAfter(cs, i + 1, ctrl, CtrlDown, CtrlUp)
    <3> DEFINE then == Turned(ctrl, cs[1].code, CtrlDown, CtrlUp)
    <3>1. OnAfter(ds, i, then, CtrlDown, CtrlUp)
            <=> OnAfter(cs, i + 1, ctrl, CtrlDown, CtrlUp)
      BY <1>2, <2>2, <2>3, OnAfterShifted
    <3>2. c1 <=> then
      BY <2>1
    <3> HIDE DEF then
    <3> QED
      BY <3>1, <3>2 DEF OnAfter
  <2> QED
    BY <2>4, <2>5 DEF ShiftOn, CtrlOn, cs, ds, s1, c1
<1>4. /\ ShiftOn(n)' <=> {L_SHIFT, R_SHIFT} \cap held' # {}
      /\ CtrlOn(n)' <=> CTRL \in held'
  <2>1. /\ ShiftOn(n + 1) <=> {L_SHIFT, R_SHIFT} \cap held # {}
        /\ CtrlOn(n + 1) <=> CTRL \in held
    BY <1>0 DEF MeantInv
  <2>2. n \in 0 .. n
    OBVIOUS
  <2> QED
    BY <1>3, <2>1, <2>2
<1>5. ASSUME NEW i \in 1 .. n, codes'[i].meant # <<>>
      PROVE  /\ Ordinary(codes'[i].code)
             /\ codes'[i].meant =
                  <<Masked(CtrlOn(i - 1)', ScanCode(ShiftOn(i - 1)', codes'[i].code))>>
  <2>1. i - 1 \in 0 .. n /\ i - 1 + 1 = i /\ i + 1 - 1 = i
    OBVIOUS
  <2>2. i + 1 \in 1 .. Len(codes) /\ codes'[i] = codes[i + 1]
    BY <1>0, <1>1
  <2>3. /\ Ordinary(codes[i + 1].code)
        /\ codes[i + 1].meant = <<Masked(CtrlOn(i), ScanCode(ShiftOn(i), codes[i + 1].code))>>
    BY <1>5, <2>1, <2>2 DEF MeantInv
  <2>4. (ShiftOn(i - 1)' <=> ShiftOn(i)) /\ (CtrlOn(i - 1)' <=> CtrlOn(i))
    BY <1>3, <2>1
  <2>5. Masked(CtrlOn(i), ScanCode(ShiftOn(i), codes[i + 1].code))
          = Masked(CtrlOn(i - 1)', ScanCode(ShiftOn(i - 1)', codes[i + 1].code))
    BY <2>4, SameMeaning
  <2> QED
    BY <2>2, <2>3, <2>5
<1>6. \A i \in 1 .. n : codes'[i].meant # <<>> =>
        /\ Ordinary(codes'[i].code)
        /\ codes'[i].meant =
             <<Masked(CtrlOn(i - 1)', ScanCode(ShiftOn(i - 1)', codes'[i].code))>>
  BY <1>5
<1>7. MeantInv'
  BY <1>1, <1>4, <1>6, Zenon DEF MeantInv
<1>8. ASSUME Head(codes).meant # <<>>
      PROVE  Contents' = IF Len(Contents) = C_BUFSIZE - 1 THEN Contents
                         ELSE Contents \o Head(codes).meant
  <2> DEFINE ch == Masked(ctrl, ScanCode(shift, codes[1].code))
  <2>1. 1 \in 1 .. Len(codes) /\ 1 - 1 = 0
    BY <1>0
  <2>2. /\ Ordinary(codes[1].code)
        /\ codes[1].meant = <<Masked(CtrlOn(0), ScanCode(ShiftOn(0), codes[1].code))>>
    BY <1>1, <1>8, <2>1 DEF MeantInv
  <2>3. (CtrlOn(0) <=> ctrl) /\ (ShiftOn(0) <=> shift)
    BY <1>2, OnAfterNone DEF CtrlOn, ShiftOn
  <2>4. Masked(CtrlOn(0), ScanCode(ShiftOn(0), codes[1].code)) = ch
    BY <2>3, SameMeaning
  <2>5. /\ ch \in Byte
        /\ Contents' = IF Len(Contents) = C_BUFSIZE - 1 THEN Contents
                       ELSE Append(Contents, ch)
    BY <1>1, <2>2, CodeHandled DEF KeyInv
  <2>6. Contents \in Seq(Byte)
    BY ContentsType DEF KeyInv
  <2> HIDE DEF ch
  <2>7. Append(Contents, ch) = Contents \o <<ch>>
    BY <2>5, <2>6
  <2> QED
    BY <1>1, <2>2, <2>4, <2>5, <2>7
<1> QED
  BY <1>7, <1>8

LEMMA InitMeant == Init => MeantInv
<1> SUFFICES ASSUME Init
             PROVE  MeantInv
  OBVIOUS
<1>1. Len(codes) = 0 /\ ~ shift /\ ~ ctrl /\ held = {} /\ shift \in BOOLEAN /\ ctrl \in BOOLEAN
  BY DEF Init
<1>2. ~ ShiftOn(0) /\ ~ CtrlOn(0)
  BY <1>1, OnAfterNone DEF ShiftOn, CtrlOn
<1> QED
  BY <1>1, <1>2 DEF MeantInv

LEMMA NextMeant ==
  ASSUME OneShiftKey, KeyInv, MeantInv, [Next]_vars
  PROVE  MeantInv'
<1>1. ASSUME UNCHANGED <<codes, shift, ctrl, held>>
      PROVE  MeantInv'
  BY <1>1 DEF MeantInv, ShiftOn, CtrlOn
<1>2. CASE UNCHANGED vars
  BY <1>1, <1>2 DEF vars
<1>3. CASE KeyboardIsr \/ Poll
  BY <1>3, HandledAsMeant DEF KeyboardIsr, Poll
<1>4. CASE (\E size \in Sizes : BeginGets(size)) \/ EndGets \/ GetChar
  BY <1>1, <1>4 DEF BeginGets, EndGets, GetChar
<1>5. ASSUME NEW key \in Keys, Press(key) \/ Release(key)
      PROVE  MeantInv'
  BY <1>5, QueuedAsMeant
<1> QED
  BY <1>2, <1>3, <1>4, <1>5 DEF Next

(* A key is stored as the user meant it, whatever waited before it in the  *)
(* controller and whoever handled that, for any keys among which there is  *)
(* one Shift key at most (releasing one of two ends the shift).            *)
THEOREM TypedRight ==
  ASSUME OneShiftKey
  PROVE  Spec => TypedAsMeant
<1> DEFINE Typed ==
      (Handled /\ Head(codes).meant # <<>>)
        => Contents' = IF Len(Contents) = C_BUFSIZE - 1 THEN Contents
                       ELSE Contents \o Head(codes).meant
<1>1. MeantInv /\ KeyInv /\ [Next]_vars => MeantInv'
  BY NextMeant
<1>2. KeyInv /\ MeantInv /\ [Next]_vars => [Typed]_vars
  <2> SUFFICES ASSUME KeyInv, MeantInv, Next, Handled, Head(codes).meant # <<>>
               PROVE  Contents' = IF Len(Contents) = C_BUFSIZE - 1 THEN Contents
                                  ELSE Contents \o Head(codes).meant
    OBVIOUS
  <2>1. codes \in Seq(Code) /\ codes # <<>> /\ codes' = Tail(codes)
    BY DEF KeyInv, Handled
  <2>2. Len(codes') = Len(codes) - 1 /\ Len(codes) \in Nat
    BY <2>1, HeadTailProperties
  <2>3. codes' # codes /\ Len(codes') # Len(codes) + 1
    BY <2>2
  <2>4. CASE KeyboardIsr \/ Poll
    BY <2>1, <2>4, HandledAsMeant DEF KeyboardIsr, Poll
  <2>5. CASE (\E size \in Sizes : BeginGets(size)) \/ EndGets \/ GetChar
    BY <2>3, <2>5 DEF BeginGets, EndGets, GetChar
  <2>6. ASSUME NEW key \in Keys, Press(key) \/ Release(key)
        PROVE  FALSE
    <3>1. Len(codes') = Len(codes) + 1
      BY <2>1, <2>6, PressedKey DEF Press, Release
    <3> QED
      BY <2>3, <3>1
  <2> QED
    BY <2>4, <2>5, <2>6 DEF Next
<1>3. Spec => []MeantInv
  BY <1>1, InitMeant, KeysInv, PTL DEF Spec
<1>4. Spec => [][Typed]_vars
  BY <1>2, <1>3, KeysInv, PTL DEF Spec
<1> QED
  BY <1>4 DEF TypedAsMeant

=============================================================================
