----------------------------- MODULE SioProofs -----------------------------
(***************************************************************************)
(* Proofs about the serial line driver, for buffers of every size, any     *)
(* number of readers and any texts but those that begin with a newline and *)
(* go on (see CrThenLf; they can leave the output pointer past its array). *)
(***************************************************************************)
EXTENDS SioProps, SequenceTheorems, TLAPS

(* A newline is written alone, or after something else.                    *)
NewlineAlone == \A text \in Texts : Head(text) = LF => Len(text) = 1

Byte == 0 .. 255
Fifo == {<<>>} \cup {<<ch>> : ch \in Byte}

InType == [buffer : [Index -> Byte], last : Pointer, next : Pointer,
           count : 0 .. BUF_SIZE, wild : BOOLEAN, rbr : 0 .. NoChar]
OutType == [buffer : [Index -> Byte], last : Index, next : Index,
            count : 0 .. BUF_SIZE, wild : {FALSE}, sending : BOOLEAN,
            tx_int : BOOLEAN, thr : Fifo]

(* The characters that were received are the ones between the pointers:    *)
(* _sio_reads never gets to its wrap test, nor reads outside the array.    *)
Straight == ~ inp.wild => inp.next + inp.count = inp.last

(* PumpPrimed, of any output state.                                        *)
Primed(o) ==
  /\ Len(o.thr) <= 1
  /\ o.sending <=> o.tx_int
  /\ o.count > 0 => o.sending
  /\ ~ o.sending => o.thr = <<>> /\ o.last = 0 /\ o.next = 0

(* Inductive: the two halves of the driver are independent.                *)
InInv == /\ inp \in InType /\ Straight
         /\ reading \in 0 .. N_READERS
         /\ got \in [ret : Nat, text : Seq(Byte)]
OutInv == /\ out \in OutType /\ Primed(out)
          /\ wrote \in [ret : Nat, copied : Nat]

-----------------------------------------------------------------------------
(* The output side.                                                        *)

(* The transmitter's FIFO, empty or with one character.                    *)
LEMMA FifoFacts ==
  /\ \A c \in Byte : <<c>> \in Fifo /\ Len(<<c>>) = 1 /\ Append(<<>>, c) = <<c>>
                      /\ Tail(<<c>>) = <<>>
  /\ <<>> \in Fifo /\ Len(<<>>) = 0
  /\ \A f \in Fifo : f # <<>> => \E c \in Byte : f = <<c>>
<1>1. \A c \in Byte : <<c>> \in Fifo
  BY DEF Fifo
<1>2. <<>> \in Fifo
  BY DEF Fifo
<1>3. \A f \in Fifo : f # <<>> => \E c \in Byte : f = <<c>>
  BY DEF Fifo
<1>4. \A c \in Byte : Len(<<c>>) = 1 /\ Append(<<>>, c) = <<c>> /\ Tail(<<c>>) = <<>>
  OBVIOUS
<1> QED
  BY <1>1, <1>2, <1>3, <1>4

(* Remainders and sequences of the kind the driver's loops make.           *)
LEMMA OutFields ==
  ASSUME NEW o \in OutType, NEW f \in Fifo, NEW p \in Index, NEW k \in 0 .. BUF_SIZE
  PROVE  [o EXCEPT !.thr = f, !.next = p, !.count = k] \in OutType
BY DEF OutType

LEMMA InFields ==
  ASSUME NEW b \in InType, NEW l \in Pointer, NEW p \in Pointer, NEW k \in 0 .. BUF_SIZE
  PROVE  /\ [b EXCEPT !.count = k, !.last = l, !.next = p] \in InType
         /\ [b EXCEPT !.count = k, !.next = p] \in InType
BY DEF InType

LEMMA SmallRemainder ==
  ASSUME NEW a \in Nat, NEW m \in Nat, a < m
  PROVE  a % m = a
OBVIOUS

(* As much of a text as fits is copied, and the pointer stays in the       *)
(* array.                                                                  *)
LEMMA StoreTextType ==
  ASSUME NEW o \in OutType, NEW text \in Seq(Byte)
  PROVE  /\ StoreText(o, text) \in OutType
         /\ StoreText(o, text).count >= o.count
         /\ StoreText(o, text).sending = o.sending
         /\ StoreText(o, text).tx_int = o.tx_int
         /\ StoreText(o, text).thr = o.thr
         /\ StoreText(o, text).next = o.next
         /\ text = <<>> => /\ StoreText(o, text).last = o.last
                           /\ StoreText(o, text).count = o.count
<1> DEFINE n == Room(o, text)
<1>1. /\ BUF_SIZE \in Nat /\ BUF_SIZE > 1
      /\ o.last \in Nat /\ o.last < BUF_SIZE
      /\ o.count \in Nat /\ o.count <= BUF_SIZE
  BY SioConstants DEF OutType, Index
<1>2. /\ n \in Nat /\ n <= Len(text) /\ o.count + n <= BUF_SIZE
      /\ text = <<>> => n = 0
  BY <1>1 DEF Room, Least
<1>3. StoreText(o, text) = Copied(o, text, n)
  BY <1>1 DEF StoreText
<1> HIDE DEF n
<1>4. \A i \in Index : (i + BUF_SIZE - o.last) % BUF_SIZE \in Nat
  BY <1>1 DEF Index
<1>5. [i \in Index |->
         LET k == (i + BUF_SIZE - o.last) % BUF_SIZE
         IN  IF k < n THEN text[k + 1] ELSE o.buffer[i]] \in [Index -> Byte]
  <2> SUFFICES ASSUME NEW i \in Index, NEW k \in Nat, k < n
               PROVE  text[k + 1] \in Byte
    BY <1>4 DEF OutType
  <2> QED
    BY <1>2
<1>6. (IF n = 0 THEN o.last ELSE (o.last + n) % BUF_SIZE) \in Index
  BY <1>1, <1>2 DEF Index
<1>7. o.count + n \in 0 .. BUF_SIZE
  BY <1>1, <1>2
<1>8. Copied(o, text, n) \in OutType
  BY <1>5, <1>6, <1>7 DEF Copied, OutType
<1>9. /\ Copied(o, text, n).count = o.count + n
      /\ Copied(o, text, n).last = IF n = 0 THEN o.last ELSE (o.last + n) % BUF_SIZE
      /\ Copied(o, text, n).sending = o.sending
      /\ Copied(o, text, n).tx_int = o.tx_int
      /\ Copied(o, text, n).thr = o.thr
      /\ Copied(o, text, n).next = o.next
  BY DEF Copied, OutType
<1> QED
  BY <1>1, <1>2, <1>3, <1>8, <1>9

(* The first character goes to an idle transmitter; after a CR that was    *)
(* made from LF, the LF is queued.                                         *)
LEMMA WritecType ==
  ASSUME NEW o \in OutType, NEW ch \in Byte, ~ o.sending, o.thr = <<>>,
         ch = LF => o.last + 1 < BUF_SIZE /\ o.count < BUF_SIZE
  PROVE  Writec(o, ch) \in OutType /\ Primed(Writec(o, ch))
<1>1. ASSUME NEW c \in Byte
      PROVE  /\ Emit(o, c) \in OutType /\ Primed(Emit(o, c)) /\ Emit(o, c).sending
             /\ Emit(o, c).last = o.last /\ Emit(o, c).count = o.count
  <2>1. Emit(o, c) = [o EXCEPT !.sending = TRUE, !.tx_int = TRUE, !.thr = Append(@, c)]
    BY DEF Emit, Enable, OutType
  <2>2. Append(o.thr, c) = <<c>> /\ <<c>> \in Fifo /\ Len(<<c>>) = 1
    BY FifoFacts
  <2>3. Emit(o, c) = [o EXCEPT !.sending = TRUE, !.tx_int = TRUE, !.thr = <<c>>]
    BY <2>1, <2>2
  <2>4. Emit(o, c) \in OutType
    BY <2>2, <2>3 DEF OutType
  <2>5. /\ Emit(o, c).thr = <<c>> /\ Emit(o, c).sending = TRUE
        /\ Emit(o, c).tx_int = TRUE
        /\ Emit(o, c).last = o.last /\ Emit(o, c).count = o.count
    BY <2>3 DEF OutType
  <2> QED
    BY <2>2, <2>4, <2>5 DEF Primed
<1>2. CASE ch # LF
  BY <1>1, <1>2 DEF Writec
<1>3. CASE ch = LF
  <2> DEFINE p == Emit(o, CR)
  <2>1. CR \in Byte /\ LF \in Byte
    BY DEF CR, LF, Byte
  <2>2. /\ p \in OutType /\ Primed(p) /\ p.sending
        /\ p.last + 1 < BUF_SIZE /\ p.count < BUF_SIZE
    BY <1>1, <1>3, <2>1
  <2>3. Writec(o, ch) = Emit(p, LF)
    BY <1>3 DEF Writec
  <2> HIDE DEF p
  <2>4. p.last \in Index /\ p.last + 1 \in Index /\ p.last # BUF_SIZE /\ p.count + 1 \in 0 .. BUF_SIZE
    BY <2>2, SioConstants DEF OutType, Index
  <2>5. Emit(p, LF) = [p EXCEPT !.buffer[p.last] = LF, !.last = @ + 1, !.count = @ + 1]
    BY <2>2, <2>4 DEF Emit, Store
  <2>6. [p.buffer EXCEPT ![p.last] = LF] \in [Index -> Byte]
    BY <2>1, <2>2, <2>4 DEF OutType
  <2>7. Emit(p, LF) \in OutType
    BY <2>2, <2>4, <2>5, <2>6 DEF OutType
  <2>8. Primed(Emit(p, LF))
    BY <2>2, <2>5 DEF OutType, Primed
  <2> QED
    BY <2>3, <2>7, <2>8
<1> QED
  BY <1>2, <1>3

(* write() of a whole text or of nothing keeps the output side's           *)
(* invariant.                                                              *)
LEMMA WriteKeepsOut ==
  ASSUME NewlineAlone, OutInv, NEW text \in Texts, NEW size \in {0, Len(text)},
         Write(text, size)
  PROVE  OutInv'
<1> DEFINE first  == IF out.sending THEN 1 ELSE 2
           rest   == SubSeq(text, first, size)
           filled == StoreText(out, rest)
<1>1. /\ text \in Seq(Byte) /\ Len(text) \in Nat /\ Len(text) > 0 /\ Head(text) \in Byte
      /\ size \in Nat /\ size <= Len(text)
  <2>1. text \in Seq(Byte) /\ text # <<>>
    BY SioConstants DEF Byte
  <2>2. Len(text) \in Nat /\ Len(text) > 0 /\ Head(text) = text[1]
    BY <2>1, EmptySeq, LenProperties
  <2>3. Head(text) \in Byte
    BY <2>1, <2>2
  <2> QED
    BY <2>1, <2>2, <2>3
<1>2. rest \in Seq(Byte)
  BY <1>1, SubSeqProperties
<1>3. /\ filled \in OutType
      /\ filled.count >= out.count
      /\ filled.sending = out.sending /\ filled.tx_int = out.tx_int
      /\ filled.thr = out.thr /\ filled.next = out.next
      /\ rest = <<>> => filled.last = out.last /\ filled.count = out.count
  BY <1>2, StoreTextType DEF OutInv
<1>4. Head(text) = LF /\ ~ out.sending => rest = <<>>
  <2> SUFFICES ASSUME Head(text) = LF, ~ out.sending
               PROVE  SubSeq(text, 2, size) = <<>>
    OBVIOUS
  <2>1. size = 0 \/ size = 1
    BY <1>1 DEF NewlineAlone
  <2> QED
    BY <1>1, <2>1, SubSeqProperties
<1>5. /\ out' = IF out.sending THEN filled ELSE Writec(filled, Head(text))
      /\ wrote' = [ret |-> size,
                   copied |-> filled.count - out.count + IF ~ out.sending THEN 1 ELSE 0]
  BY DEF Write
<1> HIDE DEF first, rest, filled
<1>6. wrote' \in [ret : Nat, copied : Nat]
  BY <1>1, <1>3, <1>5 DEF OutInv, OutType
<1>7. CASE out.sending
  BY <1>3, <1>5, <1>6, <1>7 DEF OutInv, Primed
<1>8. CASE ~ out.sending
  <2>1. out.count = 0 /\ out.last = 0 /\ out.thr = <<>>
    BY <1>8 DEF OutInv, Primed, OutType
  <2>2. Head(text) = LF => filled.last + 1 < BUF_SIZE /\ filled.count < BUF_SIZE
    BY <1>3, <1>4, <1>8, <2>1, SioConstants
  <2> QED
    BY <1>1, <1>3, <1>5, <1>6, <1>8, <2>1, <2>2, WritecType DEF OutInv
<1> QED
  BY <1>7, <1>8

(* The transmitter's interrupt and the end of a character keep it, too.    *)
LEMMA TransmitKeepsOut ==
  ASSUME OutInv, TxPending, Transmit, UNCHANGED wrote
  PROVE  OutInv'
<1>1. /\ BUF_SIZE \in Nat /\ BUF_SIZE > 1 /\ 0 \in Index
      /\ out \in OutType /\ Primed(out) /\ out.thr = <<>> /\ out.tx_int
  BY SioConstants DEF OutInv, TxPending, Index
<1>2. CASE out.sending /\ out.count > 0
  <2>1. out.buffer[out.next] \in Byte /\ NextPointer(out.next) \in Index
    BY <1>1 DEF OutType, NextPointer, Index
  <2>2. /\ Append(out.thr, out.buffer[out.next]) = <<out.buffer[out.next]>>
        /\ out.count - 1 \in 0 .. BUF_SIZE
        /\ <<out.buffer[out.next]>> \in Fifo /\ Len(<<out.buffer[out.next]>>) = 1
    BY <1>1, <1>2, <2>1, FifoFacts DEF OutType
  <2>3. out' = [out EXCEPT !.thr = <<out.buffer[out.next]>>,
                           !.next = NextPointer(out.next), !.count = out.count - 1]
    BY <1>2, <2>2 DEF Transmit, SendNext
  <2>4. out' \in OutType
    <3> DEFINE f == <<out.buffer[out.next]>>
               p == NextPointer(out.next)
               k == out.count - 1
    <3>1. f \in Fifo /\ p \in Index /\ k \in 0 .. BUF_SIZE
      BY <2>1, <2>2
    <3>2. out' = [out EXCEPT !.thr = f, !.next = p, !.count = k]
      BY <2>3
    <3> HIDE DEF f, p, k
    <3> QED
      <4>1. [out EXCEPT !.thr = f, !.next = p, !.count = k] \in OutType
        BY <1>1, <3>1, OutFields
      <4> QED
        BY <3>2, <4>1
  <2>5. Primed(out')
    BY <1>1, <1>2, <2>3 DEF OutType, Primed
  <2> QED
    BY <2>4, <2>5 DEF OutInv
<1>3. CASE ~ (out.sending /\ out.count > 0)
  <2>1. out' = [out EXCEPT !.count = 0, !.last = 0, !.next = 0,
                           !.sending = FALSE, !.tx_int = FALSE]
    BY <1>1, <1>3 DEF Transmit, Finish, Disable, OutType
  <2>2. out' \in OutType
    <3> DEFINE mid == [out EXCEPT !.sending = FALSE, !.tx_int = FALSE]
    <3>1. mid \in OutType
      BY <1>1 DEF OutType
    <3>2. out' = [mid EXCEPT !.count = 0, !.last = 0, !.next = 0]
      BY <1>1, <2>1 DEF OutType
    <3>3. 0 \in 0 .. BUF_SIZE
      BY <1>1
    <3> HIDE DEF mid
    <3> QED
      BY <1>1, <3>1, <3>2, <3>3 DEF OutType
  <2>3. Primed(out')
    BY <1>1, <2>1 DEF OutType, Primed
  <2> QED
    BY <2>2, <2>3 DEF OutInv
<1> QED
  BY <1>2, <1>3

LEMMA ShiftedKeepsOut ==
  ASSUME OutInv, Shifted
  PROVE  OutInv'
<1>1. out \in OutType /\ Primed(out) /\ wrote \in [ret : Nat, copied : Nat]
  BY DEF OutInv
<1>2. PICK c \in Byte : out.thr = <<c>>
  BY <1>1, FifoFacts DEF Shifted, OutType
<1>3. out' = [out EXCEPT !.thr = <<>>] /\ wrote' = wrote
  BY <1>2, FifoFacts DEF Shifted
<1>4. out' \in OutType
  BY <1>1, <1>3, FifoFacts DEF OutType
<1>5. Primed(out')
  BY <1>1, <1>2, <1>3, FifoFacts DEF Primed, OutType
<1> QED
  BY <1>1, <1>3, <1>4, <1>5 DEF OutInv

-----------------------------------------------------------------------------
(* The input side.                                                         *)

(* The interrupt handler stores a character where Straight says the next   *)
(* one belongs, or leaves the array.                                       *)
LEMMA ReceiveKeepsIn ==
  ASSUME InInv, RxPending, Receive
  PROVE  InInv'
<1> DEFINE ch    == IF inp.rbr = CR THEN LF ELSE inp.rbr
           taken == [inp EXCEPT !.rbr = NoChar]
<1>1. /\ BUF_SIZE \in Nat /\ N_READERS \in Nat /\ NoChar \in 0 .. NoChar
      /\ inp \in InType /\ Straight /\ reading \in 0 .. N_READERS
      /\ got \in [ret : Nat, text : Seq(Byte)]
  BY SioConstants DEF InInv, NoChar
<1>2. ch \in Byte /\ ch \in Nat
  <2>1. inp.rbr \in 0 .. 256 /\ inp.rbr # 256
    BY <1>1 DEF RxPending, InType, NoChar
  <2> QED
    BY <2>1 DEF Byte, LF
<1>3. taken \in InType
  BY <1>1 DEF InType
<1>4. /\ taken.buffer = inp.buffer /\ taken.last = inp.last /\ taken.next = inp.next
      /\ taken.count = inp.count /\ taken.wild = inp.wild
  BY <1>1 DEF InType
<1>5. CASE reading > 0
  <2>1. got' = [ret |-> ch, text |-> <<>>] /\ reading' = reading - 1 /\ inp' = taken
    BY <1>5 DEF Receive
  <2> HIDE DEF ch, taken
  <2>2. Straight'
    BY <1>1, <1>4, <2>1 DEF Straight
  <2>3. got' \in [ret : Nat, text : Seq(Byte)]
    BY <1>2, <2>1
  <2> QED
    BY <1>1, <1>3, <1>5, <2>1, <2>2, <2>3 DEF InInv
<1>6. CASE ~ (reading > 0)
  <2>1. /\ inp' = IF HasRoom(inp) THEN Store(taken, ch) ELSE taken
        /\ UNCHANGED <<reading, got>>
    BY <1>6 DEF Receive
  <2> HIDE DEF ch, taken
  <2>2. CASE ~ HasRoom(inp)
    BY <1>1, <1>3, <1>4, <2>1, <2>2 DEF InInv, Straight
  <2>3. CASE HasRoom(inp) /\ inp.last = BUF_SIZE
    <3>1. inp' = [taken EXCEPT !.wild = TRUE]
      BY <1>4, <2>1, <2>3 DEF Store
    <3>2. inp' \in InType /\ inp'.wild
      BY <1>3, <3>1 DEF InType
    <3> QED
      BY <1>1, <2>1, <3>2 DEF InInv, Straight
  <2>4. CASE HasRoom(inp) /\ inp.last # BUF_SIZE
    <3>1. inp' = [taken EXCEPT !.buffer[inp.last] = ch, !.last = inp.last + 1,
                               !.count = inp.count + 1]
      BY <1>4, <2>1, <2>4 DEF Store
    <3>2. inp.last + 1 \in Pointer /\ inp.count + 1 \in 0 .. BUF_SIZE
      BY <1>1, <2>4 DEF InType, Pointer, HasRoom
    <3>3. [taken.buffer EXCEPT ![inp.last] = ch] \in [Index -> Byte]
      BY <1>2, <1>3 DEF InType
    <3>4. inp' \in InType
      BY <1>3, <3>1, <3>2, <3>3 DEF InType
    <3>5. Straight'
      BY <1>1, <1>3, <1>4, <3>1 DEF Straight, InType, Pointer
    <3> QED
      BY <1>1, <2>1, <3>4, <3>5 DEF InInv
  <2> QED
    BY <2>2, <2>3, <2>4
<1> QED
  BY <1>5, <1>6

(* read() finds its characters without wrapping around.                    *)
LEMMA ReadKeepsIn ==
  ASSUME InInv, ~ inp.wild, NEW size \in Nat, Read(size)
  PROVE  InInv'
<1> DEFINE n == Least(inp.count, size)
<1>1. /\ BUF_SIZE \in Nat /\ inp \in InType /\ reading \in 0 .. N_READERS
      /\ N_READERS \in Nat /\ got \in [ret : Nat, text : Seq(Byte)]
      /\ inp.next \in Nat /\ inp.count \in Nat /\ inp.last \in Nat
      /\ inp.next + inp.count = inp.last /\ inp.last <= BUF_SIZE
  BY SioConstants DEF InInv, InType, Straight, Pointer
<1>2. n \in Nat /\ n <= inp.count
  BY <1>1 DEF Least
<1>3. CASE n > 0
  <2>1. /\ got' = [ret  |-> n,
                   text |-> [i \in 1 .. n |->
                              inp.buffer[(inp.next + i - 1) % (BUF_SIZE + 1)]]]
        /\ inp' = Reads(n)
        /\ reading' = reading
    BY <1>3 DEF Read
  <2> HIDE DEF n
  <2>2. \A i \in 1 .. n : (inp.next + i - 1) % (BUF_SIZE + 1) \in Index
    <3> SUFFICES ASSUME NEW i \in 1 .. n
                 PROVE  (inp.next + i - 1) % (BUF_SIZE + 1) \in Index
      OBVIOUS
    <3>1. inp.next + i - 1 \in Nat /\ inp.next + i - 1 < BUF_SIZE
      BY <1>1, <1>2
    <3>2. (inp.next + i - 1) % (BUF_SIZE + 1) = inp.next + i - 1
      BY <1>1, <3>1, SmallRemainder, BUF_SIZE + 1 \in Nat, inp.next + i - 1 < BUF_SIZE + 1
    <3> QED
      BY <1>1, <3>1, <3>2 DEF Index
  <2>3. [i \in 1 .. n |-> inp.buffer[(inp.next + i - 1) % (BUF_SIZE + 1)]]
          \in [1 .. n -> Byte]
    BY <1>1, <2>2 DEF InType
  <2>4. got' \in [ret : Nat, text : Seq(Byte)]
    BY <1>2, <2>1, <2>3, SeqDef
  <2>5. CASE inp.count = n
    <3>1. inp' = [inp EXCEPT !.count = 0, !.last = 0, !.next = 0]
      BY <2>1, <2>5 DEF Reads
    <3>2. inp' \in InType
      <4>1. 0 \in Pointer /\ 0 \in 0 .. BUF_SIZE
        BY <1>1 DEF Pointer
      <4> QED
        BY <1>1, <3>1, <4>1, InFields
    <3>3. Straight'
      BY <1>1, <3>1 DEF InType, Straight
    <3> QED
      BY <1>1, <2>1, <2>4, <3>2, <3>3 DEF InInv
  <2>6. CASE inp.count # n
    <3>1. (inp.next + n) % (BUF_SIZE + 1) = inp.next + n
      BY <1>1, <1>2, SmallRemainder, BUF_SIZE + 1 \in Nat, inp.next + n \in Nat,
         inp.next + n < BUF_SIZE + 1
    <3>2. inp' = [inp EXCEPT !.count = inp.count - n, !.next = inp.next + n]
      BY <2>1, <2>6, <3>1 DEF Reads
    <3>3. inp' \in InType
      <4>1. inp.next + n \in Pointer /\ inp.count - n \in 0 .. BUF_SIZE
        BY <1>1, <1>2, SMTT(30) DEF Pointer
      <4> QED
        BY <1>1, <3>2, <4>1, InFields
    <3>4. Straight'
      BY <1>1, <1>2, <3>2 DEF InType, Straight
    <3> QED
      BY <1>1, <2>1, <2>4, <3>3, <3>4 DEF InInv
  <2> QED
    BY <2>5, <2>6
<1>4. CASE ~ (n > 0)
  <2>1. reading < N_READERS /\ reading' = reading + 1 /\ UNCHANGED <<inp, got>>
    BY <1>4 DEF Read
  <2> QED
    BY <1>1, <2>1 DEF InInv, Straight
<1> QED
  BY <1>3, <1>4

LEMMA ArriveKeepsIn ==
  ASSUME InInv, NEW ch \in Chars, Arrive(ch)
  PROVE  InInv'
<1>1. ch \in 0 .. NoChar
  BY SioConstants DEF NoChar
<1>2. inp' = [inp EXCEPT !.rbr = ch] /\ UNCHANGED <<reading, got>>
  BY DEF Arrive
<1>3. inp' \in InType /\ Straight'
  BY <1>1, <1>2 DEF InInv, InType, Straight
<1> QED
  BY <1>2, <1>3 DEF InInv

-----------------------------------------------------------------------------
(* The driver.                                                             *)

SioInv == InInv /\ OutInv

LEMMA InitInv == Init => SioInv
<1> SUFFICES ASSUME Init
             PROVE  SioInv
  OBVIOUS
<1>1. /\ BUF_SIZE \in Nat /\ 0 \in Index /\ 0 \in Pointer /\ 0 \in 0 .. BUF_SIZE
      /\ 0 \in 0 .. N_READERS /\ NoChar \in 0 .. NoChar /\ <<>> \in Seq(Byte)
  BY SioConstants DEF Index, Pointer, NoChar
<1>2. NoText \in [Index -> Byte]
  BY DEF NoText, Byte
<1>3. inp \in InType /\ Straight
  BY <1>1, <1>2 DEF Init, InType, Straight
<1>4. out \in OutType
  BY <1>1, <1>2, FifoFacts DEF Init, OutType
<1>5. Primed(out)
  BY DEF Init, Primed
<1> QED
  BY <1>1, <1>3, <1>4, <1>5 DEF Init, SioInv, InInv, OutInv

LEMMA NextInv ==
  ASSUME NewlineAlone, SioInv, [Next]_vars
  PROVE  SioInv'
<1> USE DEF SioInv
<1>1. CASE UNCHANGED vars
  BY <1>1 DEF vars, InInv, OutInv, Straight
<1>2. CASE Next
  <2>1. ~ inp.wild
    BY <1>2 DEF Next, InBounds
  <2>2. ASSUME UNCHANGED <<inp, reading, got>>
        PROVE  InInv'
    BY <2>2 DEF InInv, Straight
  <2>3. ASSUME UNCHANGED <<out, wrote>>
        PROVE  OutInv'
    BY <2>3 DEF OutInv
  <2>4. CASE SioIsr
    <3>1. InInv'
      BY <2>2, <2>4, ReceiveKeepsIn DEF SioIsr
    <3>2. OutInv'
      BY <2>3, <2>4, TransmitKeepsOut DEF SioIsr
    <3> QED
      BY <3>1, <3>2
  <2>5. ASSUME NEW size \in ReadSizes, Read(size)
        PROVE  SioInv'
    <3>1. InInv'
      BY <2>1, <2>5, ReadKeepsIn, SioConstants
    <3>2. OutInv'
      BY <2>3, <2>5 DEF Read
    <3> QED
      BY <3>1, <3>2
  <2>6. ASSUME NEW buf \in Texts, NEW size \in {0, Len(buf)}, Write(buf, size)
        PROVE  SioInv'
    <3>1. InInv'
      BY <2>2, <2>6 DEF Write
    <3>2. OutInv'
      BY <2>6, WriteKeepsOut
    <3> QED
      BY <3>1, <3>2
  <2>7. ASSUME NEW ch \in Chars, Arrive(ch)
        PROVE  SioInv'
    <3>1. InInv'
      BY <2>7, ArriveKeepsIn
    <3>2. OutInv'
      BY <2>3, <2>7 DEF Arrive
    <3> QED
      BY <3>1, <3>2
  <2>8. CASE Shifted
    <3>1. InInv'
      BY <2>2, <2>8 DEF Shifted
    <3>2. OutInv'
      BY <2>8, ShiftedKeepsOut
    <3> QED
      BY <3>1, <3>2
  <2> QED
    BY <1>2, <2>4, <2>5, <2>6, <2>7, <2>8 DEF Next
<1> QED
  BY <1>1, <1>2

LEMMA Invariance ==
  ASSUME NewlineAlone
  PROVE  Spec => []SioInv
<1>1. SioInv /\ [Next]_vars => SioInv'
  BY NextInv
<1> QED
  BY <1>1, InitInv, PTL DEF Spec

LEMMA InvType == SioInv => TypeOK
BY DEF SioInv, InInv, OutInv, InType, OutType, Fifo, Byte, TypeOK

(* The driver's variables keep to their ranges: pointers, counters and     *)
(* flags, the transmitter's FIFO and what a reader was given.  In          *)
(* particular a reader is given characters of the buffer, none from past   *)
(* its end, though _sio_reads wraps around one too late.                   *)
THEOREM PointersInRange ==
  ASSUME NewlineAlone
  PROVE  Spec => []TypeOK
BY Invariance, InvType, PTL

(* The pump stays primed: the transmitter is never given a second          *)
(* character, "sending" says what its interrupt enable bit says, and what  *)
(* is queued will have an interrupt to send it, whichever way writes,      *)
(* interrupts and the UART interleave.                                     *)
THEOREM StaysPrimed ==
  ASSUME NewlineAlone
  PROVE  Spec => []PumpPrimed
<1>1. SioInv => PumpPrimed
  BY DEF SioInv, OutInv, Primed, PumpPrimed
<1> QED
  BY <1>1, Invariance, PTL

(* The dump of the input buffer shows what readers will be given: by       *)
(* Straight the characters lie between the pointers, where neither the     *)
(* dump nor a reader would have to wrap around.                            *)
THEOREM InputDumpedRight ==
  ASSUME NewlineAlone
  PROVE  Spec => []InputDumped
<1>1. SioInv => InputDumped
  <2> SUFFICES ASSUME SioInv, ~ inp.wild, NEW i \in 1 .. inp.count
               PROVE  /\ inp.next + i - 1 \in Index
                      /\ (inp.next + i - 1) % BUF_SIZE = inp.next + i - 1
    BY DEF InputDumped, SioDump, Contents
  <2>1. /\ BUF_SIZE \in Nat /\ inp.next \in Nat /\ inp.count \in Nat
        /\ inp.next + inp.count = inp.last /\ inp.last <= BUF_SIZE
    BY SioConstants DEF SioInv, InInv, InType, Straight, Pointer
  <2>2. inp.next + i - 1 \in Nat /\ inp.next + i - 1 < BUF_SIZE
    BY <2>1
  <2> QED
    BY <2>1, <2>2, SmallRemainder DEF Index
<1> QED
  BY <1>1, Invariance, PTL

(* The interrupt handler gives a character away only for want of room: it  *)
(* goes to a waiting reader or into the buffer, or the buffer holds        *)
(* BUF_SIZE characters or has no cell left in its array.                   *)
THEOREM NothingDroppedEarly ==
  ASSUME NewlineAlone
  PROVE  Spec => DroppedOnlyIfFull
<1> DEFINE Kept ==
      inp.rbr # NoChar /\ inp'.rbr = NoChar
        => \/ reading' < reading
           \/ inp'.count = inp.count + 1
           \/ inp.count = BUF_SIZE
           \/ inp'.wild
<1>1. SioInv /\ [Next]_vars => Kept
  <2> SUFFICES ASSUME SioInv, Next, inp.rbr # NoChar, inp'.rbr = NoChar
               PROVE  \/ reading' < reading
                      \/ inp'.count = inp.count + 1
                      \/ inp.count = BUF_SIZE
                      \/ inp'.wild
    BY DEF vars
  <2>1. /\ inp \in InType /\ reading \in Nat
        /\ BUF_SIZE \in Nat /\ inp.count \in 0 .. BUF_SIZE
    BY SioConstants DEF SioInv, InInv, InType
  <2>2. Receive
    <3>1. ASSUME NEW size, Read(size)
          PROVE  FALSE
      <4>1. inp' = inp \/ \E n : inp' = Reads(n)
        BY <3>1 DEF Read
      <4>2. ASSUME NEW n
            PROVE  Reads(n).rbr = inp.rbr
        BY <2>1 DEF Reads, InType
      <4> QED
        BY <4>1, <4>2
    <3> QED
      BY <3>1 DEF Next, SioIsr, Write, Arrive, Shifted
  <2>3. CASE reading > 0
    BY <2>1, <2>2, <2>3 DEF Receive
  <2>4. CASE ~ (reading > 0)
    <3> DEFINE ch    == IF inp.rbr = CR THEN LF ELSE inp.rbr
               taken == [inp EXCEPT !.rbr = NoChar]
    <3>1. inp' = IF HasRoom(inp) THEN Store(taken, ch) ELSE taken
      BY <2>2, <2>4 DEF Receive
    <3>2. taken \in InType /\ taken.count = inp.count
      BY <2>1 DEF InType, NoChar
    <3> HIDE DEF ch, taken
    <3>3. CASE HasRoom(inp)
      <4>1. Store(taken, ch).wild \/ Store(taken, ch).count = inp.count + 1
        BY <3>2 DEF Store, InType
      <4> QED
        BY <3>1, <3>3, <4>1
    <3>4. CASE ~ HasRoom(inp)
      BY <2>1, <3>4 DEF HasRoom
    <3> QED
      BY <3>3, <3>4
  <2> QED
    BY <2>3, <2>4
<1>2. [Next]_vars /\ SioInv => [Kept]_vars
  BY <1>1
<1>3. Spec => [][Kept]_vars
  BY <1>2, Invariance, PTL DEF Spec
<1> QED
  BY <1>3 DEF DroppedOnlyIfFull

-----------------------------------------------------------------------------
(* The refinement of SerialLine: the input side.                           *)

(* A read of no characters blocks although some are buffered, and leaves a *)
(* reader waiting behind them.                                             *)
ReadsSome == 0 \notin ReadSizes

(* A waiting reader has found the buffer empty.                            *)
Eager == /\ inp.rbr \in Chars \cup {NoChar}
         /\ reading > 0 => inp.count = 0

(* What a buffer holds, as a sequence.                                     *)
LEMMA ContentsSeq ==
  ASSUME NEW b, b.buffer \in [Index -> Byte], b.next \in Nat, b.count \in Nat
  PROVE  /\ Contents(b) \in Seq(Byte) /\ Len(Contents(b)) = b.count
         /\ \A i \in 1 .. b.count :
              /\ (b.next + i - 1) % BUF_SIZE \in Index
              /\ Contents(b)[i] = b.buffer[(b.next + i - 1) % BUF_SIZE]
<1>1. BUF_SIZE \in Nat /\ BUF_SIZE > 0
  BY SioConstants
<1>2. \A i \in 1 .. b.count : (b.next + i - 1) % BUF_SIZE \in Index
  <2> SUFFICES ASSUME NEW i \in 1 .. b.count
               PROVE  (b.next + i - 1) % BUF_SIZE \in Index
    OBVIOUS
  <2>1. PICK a \in Nat : a = b.next + i - 1
    OBVIOUS
  <2>2. a % BUF_SIZE \in Index
    BY <1>1 DEF Index
  <2> QED
    BY <2>1, <2>2
<1>3. Contents(b) \in [1 .. b.count -> Byte]
  BY <1>2 DEF Contents
<1>4. \A i \in 1 .. b.count : Contents(b)[i] = b.buffer[(b.next + i - 1) % BUF_SIZE]
  BY DEF Contents
<1>5. \A f \in [1 .. b.count -> Byte] : f \in Seq(Byte) /\ Len(f) = b.count
  <2> SUFFICES ASSUME NEW n \in Nat, NEW f \in [1 .. n -> Byte]
               PROVE  f \in Seq(Byte) /\ Len(f) = n
    OBVIOUS
  <2> QED
    BY SeqDef, LenProperties
<1> QED
  BY <1>2, <1>3, <1>4, <1>5

(* What was received is in the cells between the pointers.                 *)
LEMMA InContents ==
  ASSUME NEW b \in InType, b.next + b.count = b.last
  PROVE  /\ Contents(b) \in Seq(Byte) /\ Len(Contents(b)) = b.count
         /\ \A i \in 1 .. b.count : /\ b.next + i - 1 \in Index
                                   /\ Contents(b)[i] = b.buffer[b.next + i - 1]
<1>1. /\ BUF_SIZE \in Nat /\ b.next \in Nat /\ b.count \in Nat /\ b.last \in Nat
      /\ b.last <= BUF_SIZE /\ b.buffer \in [Index -> Byte]
  BY SioConstants DEF InType, Pointer
<1>2. ASSUME NEW i \in 1 .. b.count
      PROVE  /\ b.next + i - 1 \in Index
             /\ (b.next + i - 1) % BUF_SIZE = b.next + i - 1
  <2>1. PICK a \in Nat : a = b.next + i - 1 /\ a < BUF_SIZE
    BY <1>1
  <2>2. a \in Index
    BY <1>1, <2>1 DEF Index
  <2>3. a % BUF_SIZE = a
    BY <1>1, <2>1, SmallRemainder
  <2> QED
    BY <2>1, <2>2, <2>3
<1> QED
  BY <1>1, <1>2, ContentsSeq

(* A received character is accepted, handed to a reader, or dropped.       *)
LEMMA ReceiveIsStream ==
  ASSUME InInv, Eager, ~ inp.wild, RxPending, Receive
  PROVE  /\ Eager'
         /\ [Line!Next]_<<Contents(inp), Delivered>>
<1> DEFINE ch    == IF inp.rbr = CR THEN LF ELSE inp.rbr
           taken == [inp EXCEPT !.rbr = NoChar]
<1>1. /\ BUF_SIZE \in Nat /\ inp \in InType /\ inp.next + inp.count = inp.last
      /\ reading \in Nat /\ inp.rbr \in Chars /\ Chars \subseteq 1 .. 255
      /\ N_READERS \in Nat
  BY SioConstants DEF InInv, Eager, RxPending, Straight
<1>2. /\ ch \in Byte \ {0}
      /\ ch \in (Chars \ {CR}) \cup (IF CR \in Chars THEN {LF} ELSE {})
  <2>1. ch \in 1 .. 255
    <3>1. \A c \in 1 .. 255 : (IF c = CR THEN LF ELSE c) \in 1 .. 255
      BY DEF LF
    <3>2. inp.rbr \in 1 .. 255
      BY <1>1
    <3> QED
      BY <3>1, <3>2
  <2>2. ch \in (Chars \ {CR}) \cup (IF CR \in Chars THEN {LF} ELSE {})
    BY <1>1
  <2> QED
    BY <2>1, <2>2 DEF Byte
<1>3. /\ taken \in InType
      /\ taken.buffer = inp.buffer /\ taken.last = inp.last /\ taken.next = inp.next
      /\ taken.count = inp.count /\ taken.rbr = NoChar
  BY <1>1 DEF InType, NoChar
<1>4. Contents(taken) = Contents(inp)
  BY <1>3 DEF Contents
<1>5. CASE reading > 0
  <2>1. got' = [ret |-> ch, text |-> <<>>] /\ reading' = reading - 1 /\ inp' = taken
    BY <1>5 DEF Receive
  <2>2. Eager'
    BY <1>1, <1>3, <1>5, <2>1 DEF Eager
  <2>3. Delivered' = <<ch>>
    <3> HIDE DEF ch
    <3> QED
      BY <1>2, <2>1 DEF Delivered
  <2>4. Contents(inp)' = Contents(inp)
    BY <1>4, <2>1
  <2>5. Contents(inp) = <<>>
    <3>1. inp.count = 0
      BY <1>5 DEF Eager
    <3> QED
      BY <1>1, <3>1, InContents, EmptySeq
  <2>6. Line!Hand(ch)
    BY <2>3, <2>4, <2>5 DEF Line!Hand
  <2> QED
    BY <1>2, <2>2, <2>6 DEF Line!Next
<1>6. CASE ~ (reading > 0)
  <2>1. /\ inp' = IF HasRoom(inp) THEN Store(taken, ch) ELSE taken
        /\ reading' = reading /\ got' = got
    BY <1>6 DEF Receive
  <2>2. Delivered' = Delivered
    BY <2>1 DEF Delivered
  <2> HIDE DEF ch, taken
  <2>3. CASE ~ (HasRoom(inp) /\ inp.last # BUF_SIZE)
    <3>1. inp'.rbr = NoChar /\ Contents(inp') = Contents(inp)
      <4>1. CASE HasRoom(inp)
        <5>1. inp' = [taken EXCEPT !.wild = TRUE]
          BY <1>3, <2>1, <2>3, <4>1 DEF Store
        <5> QED
          BY <1>3, <1>4, <5>1 DEF InType, Contents
      <4>2. CASE ~ HasRoom(inp)
        BY <1>3, <1>4, <2>1, <4>2
      <4> QED
        BY <4>1, <4>2
    <3> QED
      BY <1>6, <2>1, <2>2, <3>1 DEF Eager
  <2>4. CASE HasRoom(inp) /\ inp.last # BUF_SIZE
    <3>1. inp' = [taken EXCEPT !.buffer[inp.last] = ch, !.last = inp.last + 1,
                               !.count = inp.count + 1]
      BY <1>3, <2>1, <2>4 DEF Store
    <3>2. /\ inp.last + 1 \in Pointer /\ inp.count + 1 \in 0 .. BUF_SIZE
          /\ inp.last \in Index
      BY <1>1, <2>4 DEF InType, Pointer, Index, HasRoom
    <3>3. [taken.buffer EXCEPT ![inp.last] = ch] \in [Index -> Byte]
      BY <1>2, <1>3 DEF InType
    <3>4. /\ inp' \in InType
          /\ inp'.buffer = [inp.buffer EXCEPT ![inp.last] = ch] /\ inp'.last = inp.last + 1
          /\ inp'.count = inp.count + 1 /\ inp'.next = inp.next /\ inp'.rbr = NoChar
      BY <1>3, <3>1, <3>2, <3>3 DEF InType
    <3>5. inp'.next + inp'.count = inp'.last
      BY <1>1, <3>4 DEF InType, Pointer
    <3>6. /\ Contents(inp') \in Seq(Byte) /\ Len(Contents(inp')) = inp.count + 1
          /\ \A i \in 1 .. inp.count + 1 :
               Contents(inp')[i] = inp'.buffer[inp.next + i - 1]
      <4> DEFINE b == inp'
      <4>1. b \in InType /\ b.next + b.count = b.last
        BY <3>4, <3>5
      <4> HIDE DEF b
      <4>2. /\ Contents(b) \in Seq(Byte) /\ Len(Contents(b)) = b.count
            /\ \A i \in 1 .. b.count : Contents(b)[i] = b.buffer[b.next + i - 1]
        BY <4>1, InContents
      <4> QED
        BY <3>4, <4>2 DEF b
    <3>7. /\ Contents(inp) \in Seq(Byte) /\ Len(Contents(inp)) = inp.count
          /\ \A i \in 1 .. inp.count : /\ Contents(inp)[i] = inp.buffer[inp.next + i - 1]
                                       /\ inp.next + i - 1 \in Index
      BY <1>1, InContents
    <3>8. \A i \in 1 .. inp.count + 1 :
            Contents(inp')[i] = IF i <= inp.count THEN Contents(inp)[i] ELSE ch
      <4> SUFFICES ASSUME NEW i \in 1 .. inp.count + 1
                   PROVE  Contents(inp')[i] = IF i <= inp.count THEN Contents(inp)[i] ELSE ch
        OBVIOUS
      <4>1. /\ inp.count \in Nat /\ inp.next \in Nat /\ inp.last \in Nat
            /\ inp.buffer \in [Index -> Byte]
        BY <1>1 DEF InType, Pointer
      <4>2. CASE i <= inp.count
        <5>1. i \in 1 .. inp.count /\ inp.next + i - 1 # inp.last
          BY <1>1, <4>1, <4>2
        <5> QED
          BY <3>4, <3>6, <3>7, <4>1, <4>2, <5>1
      <4>3. CASE ~ (i <= inp.count)
        <5>1. inp.next + i - 1 = inp.last
          BY <1>1, <4>1, <4>3
        <5> QED
          BY <3>2, <3>4, <3>6, <4>1, <4>3, <5>1
      <4> QED
        BY <4>2, <4>3
    <3>9. Contents(inp') = Append(Contents(inp), ch)
      <4> DEFINE s == Contents(inp)
                 t == Contents(inp')
      <4>1. /\ s \in Seq(Byte) /\ Len(s) = inp.count /\ t \in Seq(Byte)
            /\ Len(t) = inp.count + 1 /\ ch \in Byte
            /\ \A i \in 1 .. inp.count + 1 : t[i] = IF i <= inp.count THEN s[i] ELSE ch
        BY <1>2, <3>6, <3>7, <3>8
      <4> HIDE DEF s, t
      <4>2. t = Append(s, ch)
        BY <4>1, SeqEqual, AppendProperties
      <4> QED
        BY <4>2 DEF s, t
    <3>10. Len(Contents(inp)) < BUF_SIZE
      BY <2>4, <3>7 DEF HasRoom
    <3>11. Line!Accept(ch)
      BY <2>2, <3>9, <3>10 DEF Line!Accept
    <3> QED
      BY <1>2, <1>6, <2>1, <3>4, <3>11 DEF Line!Next, Eager
  <2> QED
    BY <2>3, <2>4
<1> QED
  BY <1>5, <1>6

(* The two parts of a sequence.                                            *)
LEMMA Parts ==
  ASSUME NEW s \in Seq(Byte), NEW n \in 0 .. Len(s),
         NEW u \in Seq(Byte), Len(u) = n, \A i \in 1 .. n : u[i] = s[i],
         NEW v \in Seq(Byte), Len(v) = Len(s) - n, \A i \in 1 .. Len(v) : v[i] = s[n + i]
  PROVE  u = SubSeq(s, 1, n) /\ v = SubSeq(s, n + 1, Len(s))
<1>1. Len(s) \in Nat /\ n \in Nat /\ n <= Len(s)
  OBVIOUS
<1>2. \A i \in 1 .. Len(s) : s[i] \in Byte
  OBVIOUS
<1>3. /\ SubSeq(s, 1, n) \in Seq(Byte) /\ Len(SubSeq(s, 1, n)) = n
      /\ \A i \in 1 .. n : SubSeq(s, 1, n)[i] = s[i]
  <2>1. /\ 1 \in Int /\ n \in Int /\ \A i \in 1 .. n : s[i] \in Byte
    BY <1>1, <1>2
  <2>2. /\ SubSeq(s, 1, n) \in Seq(Byte)
        /\ Len(SubSeq(s, 1, n)) = IF 1 <= n THEN n - 1 + 1 ELSE 0
        /\ \A i \in 1 .. n - 1 + 1 : SubSeq(s, 1, n)[i] = s[1 + i - 1]
    BY <2>1, SubSeqProperties
  <2> QED
    BY <1>1, <2>2
<1>4. /\ SubSeq(s, n + 1, Len(s)) \in Seq(Byte)
      /\ Len(SubSeq(s, n + 1, Len(s))) = Len(s) - n
      /\ \A i \in 1 .. Len(s) - n : SubSeq(s, n + 1, Len(s))[i] = s[n + i]
  <2>1. /\ n + 1 \in Int /\ Len(s) \in Int /\ \A i \in n + 1 .. Len(s) : s[i] \in Byte
    BY <1>1, <1>2
  <2>2. /\ SubSeq(s, n + 1, Len(s)) \in Seq(Byte)
        /\ Len(SubSeq(s, n + 1, Len(s))) =
              IF n + 1 <= Len(s) THEN Len(s) - (n + 1) + 1 ELSE 0
        /\ \A i \in 1 .. Len(s) - (n + 1) + 1 :
              SubSeq(s, n + 1, Len(s))[i] = s[n + 1 + i - 1]
    BY <2>1, SubSeqProperties
  <2>3. \A i \in Int : n + 1 + i - 1 = n + i
    BY <1>1
  <2>4. Len(s) - (n + 1) + 1 = Len(s) - n
    BY <1>1
  <2> QED
    BY <1>1, <2>2, <2>3, <2>4
<1>5. u = SubSeq(s, 1, n)
  BY <1>3, SeqEqual
<1>6. v = SubSeq(s, n + 1, Len(s))
  BY <1>4, SeqEqual
<1> QED
  BY <1>5, <1>6

(* A read takes the oldest characters.                                     *)
LEMMA ReadIsStream ==
  ASSUME ReadsSome, InInv, Eager, ~ inp.wild, NEW size \in ReadSizes, Read(size)
  PROVE  /\ Eager'
         /\ [Line!Next]_<<Contents(inp), Delivered>>
<1> DEFINE n == Least(inp.count, size)
<1>1. /\ BUF_SIZE \in Nat /\ inp \in InType /\ reading \in Nat
      /\ inp.next \in Nat /\ inp.count \in Nat /\ inp.last \in Nat
      /\ inp.next + inp.count = inp.last /\ inp.last <= BUF_SIZE
      /\ inp.buffer \in [Index -> Byte]
      /\ size \in Nat /\ size > 0
  <2>1. size \in Nat /\ size # 0
    BY SioConstants DEF ReadsSome
  <2> QED
    BY <2>1, SioConstants DEF InInv, InType, Straight, Pointer
<1>2. n \in Nat /\ n <= inp.count /\ (n = 0 => inp.count = 0)
  BY <1>1 DEF Least
<1>3. CASE n > 0
  <2>1. /\ got' = [ret  |-> n,
                   text |-> [i \in 1 .. n |->
                              inp.buffer[(inp.next + i - 1) % (BUF_SIZE + 1)]]]
        /\ inp' = Reads(n)
        /\ reading' = reading
    BY <1>3 DEF Read
  <2> HIDE DEF n
  <2>2. reading = 0
    BY <1>1, <1>2, <1>3 DEF Eager
  <2>3. /\ Contents(inp) \in Seq(Byte) /\ Len(Contents(inp)) = inp.count
        /\ \A i \in 1 .. inp.count : /\ inp.next + i - 1 \in Index
                                    /\ Contents(inp)[i] = inp.buffer[inp.next + i - 1]
    BY <1>1, InContents
  <2>4. /\ got'.text \in Seq(Byte) /\ Len(got'.text) = n
        /\ \A i \in 1 .. n : got'.text[i] = Contents(inp)[i]
    <3>1. \A i \in 1 .. n : (inp.next + i - 1) % (BUF_SIZE + 1) = inp.next + i - 1
      <4> SUFFICES ASSUME NEW i \in 1 .. n
                   PROVE  (inp.next + i - 1) % (BUF_SIZE + 1) = inp.next + i - 1
        OBVIOUS
      <4>1. PICK a \in Nat : a = inp.next + i - 1 /\ a < BUF_SIZE + 1
        BY <1>1, <1>2
      <4>2. a % (BUF_SIZE + 1) = a
        BY <1>1, <4>1, SmallRemainder
      <4> QED
        BY <4>1, <4>2
    <3>2. \A i \in 1 .. n : i \in 1 .. inp.count
      BY <1>1, <1>2
    <3>3. got'.text = [i \in 1 .. n |-> Contents(inp)[i]]
      BY <2>1, <2>3, <3>1, <3>2
    <3>4. got'.text \in [1 .. n -> Byte]
      BY <2>3, <3>2, <3>3
    <3>5. got'.text \in Seq(Byte) /\ Len(got'.text) = n
      BY <1>2, <3>4, SeqDef, LenProperties
    <3> QED
      BY <3>3, <3>5
  <2>5. /\ Contents(inp') \in Seq(Byte) /\ Len(Contents(inp')) = inp.count - n
        /\ \A i \in 1 .. inp.count - n : Contents(inp')[i] = Contents(inp)[n + i]
        /\ inp'.rbr = inp.rbr
    <3>1. CASE inp.count = n
      <4>1. /\ inp'.count = 0 /\ inp'.next = 0 /\ inp'.buffer = inp.buffer
            /\ inp'.rbr = inp.rbr
        BY <1>1, <2>1, <3>1 DEF Reads, InType
      <4>2. Contents(inp') \in Seq(Byte) /\ Len(Contents(inp')) = 0
        <5> DEFINE b == inp'
        <5>1. b.buffer \in [Index -> Byte] /\ b.next \in Nat /\ b.count \in Nat /\ b.count = 0
          BY <1>1, <4>1
        <5> HIDE DEF b
        <5>2. Contents(b) \in Seq(Byte) /\ Len(Contents(b)) = 0
          BY <5>1, ContentsSeq
        <5> QED
          BY <5>2 DEF b
      <4> QED
        BY <1>1, <1>2, <3>1, <4>1, <4>2
    <3>2. CASE inp.count # n
      <4>1. (inp.next + n) % (BUF_SIZE + 1) = inp.next + n
        BY <1>1, <1>2, SmallRemainder, BUF_SIZE + 1 \in Nat, inp.next + n \in Nat,
           inp.next + n < BUF_SIZE + 1
      <4>2. inp' = [inp EXCEPT !.count = inp.count - n, !.next = inp.next + n]
        BY <2>1, <3>2, <4>1 DEF Reads
      <4>3. inp.next + n \in Pointer /\ inp.count - n \in 0 .. BUF_SIZE
        BY <1>1, <1>2, SMTT(30) DEF Pointer
      <4>4. inp' \in InType
        BY <1>1, <4>2, <4>3, InFields
      <4>5. /\ inp'.count = inp.count - n /\ inp'.next = inp.next + n
            /\ inp'.buffer = inp.buffer /\ inp'.rbr = inp.rbr /\ inp'.last = inp.last
        BY <1>1, <4>2 DEF InType
      <4>6. inp'.next + inp'.count = inp'.last
        BY <1>1, <1>2, <4>5
      <4>7. /\ Contents(inp') \in Seq(Byte) /\ Len(Contents(inp')) = inp'.count
            /\ \A i \in 1 .. inp'.count : Contents(inp')[i] = inp'.buffer[inp'.next + i - 1]
        <5> DEFINE b == inp'
        <5>1. b \in InType /\ b.next + b.count = b.last
          BY <4>4, <4>6
        <5> HIDE DEF b
        <5>2. /\ Contents(b) \in Seq(Byte) /\ Len(Contents(b)) = b.count
              /\ \A i \in 1 .. b.count : Contents(b)[i] = b.buffer[b.next + i - 1]
          BY <5>1, InContents
        <5> QED
          BY <5>2 DEF b
      <4>8. \A i \in 1 .. inp.count - n : /\ n + i \in 1 .. inp.count
                                          /\ inp.next + n + i - 1 = inp.next + (n + i) - 1
        BY <1>1, <1>2
      <4>9. \A i \in 1 .. inp.count - n : Contents(inp')[i] = Contents(inp)[n + i]
        <5> SUFFICES ASSUME NEW i \in 1 .. inp.count - n
                     PROVE  Contents(inp')[i] = Contents(inp)[n + i]
          OBVIOUS
        <5>1. Contents(inp')[i] = inp.buffer[inp.next + n + i - 1]
          BY <4>5, <4>7
        <5>2. Contents(inp)[n + i] = inp.buffer[inp.next + (n + i) - 1]
          BY <2>3, <4>8
        <5> QED
          BY <4>8, <5>1, <5>2
      <4> QED
        BY <4>5, <4>7, <4>9
    <3> QED
      BY <3>1, <3>2
  <2>6. /\ got'.text = SubSeq(Contents(inp), 1, n)
        /\ Contents(inp') = SubSeq(Contents(inp), n + 1, Len(Contents(inp)))
    <3> DEFINE s == Contents(inp)
               u == got'.text
               v == Contents(inp')
    <3>1. /\ s \in Seq(Byte) /\ n \in 0 .. Len(s)
          /\ u \in Seq(Byte) /\ Len(u) = n /\ (\A i \in 1 .. n : u[i] = s[i])
          /\ v \in Seq(Byte) /\ Len(v) = Len(s) - n
          /\ \A i \in 1 .. Len(v) : v[i] = s[n + i]
      BY <1>1, <1>2, <2>3, <2>4, <2>5
    <3> HIDE DEF s, u, v
    <3>2. u = SubSeq(s, 1, n) /\ v = SubSeq(s, n + 1, Len(s))
      BY <3>1, Parts
    <3> QED
      BY <3>2 DEF s, u, v
  <2>7. Delivered' = got'.text
    <3>1. got'.text # <<>>
      BY <1>2, <1>3, <2>4
    <3> QED
      BY <3>1 DEF Delivered
  <2>8. Line!Take(n)
    BY <2>6, <2>7 DEF Line!Take
  <2>9. n \in 1 .. Len(Contents(inp))
    BY <1>1, <1>2, <1>3, <2>3
  <2>10. Eager'
    BY <2>1, <2>2, <2>5 DEF Eager
  <2> QED
    BY <2>8, <2>9, <2>10 DEF Line!Next
<1>4. CASE ~ (n > 0)
  <2>1. UNCHANGED <<inp, got>>
    BY <1>4 DEF Read
  <2>2. inp.count = 0
    BY <1>2, <1>4
  <2>3. Eager'
    BY <2>1, <2>2 DEF Eager
  <2> QED
    BY <2>1, <2>3 DEF Contents, Delivered
<1> QED
  BY <1>3, <1>4

(* A character that arrives at the UART has not been received yet.         *)
LEMMA ArriveIsStream ==
  ASSUME InInv, Eager, NEW ch \in Chars, Arrive(ch)
  PROVE  Eager' /\ UNCHANGED <<Contents(inp), Delivered>>
<1>1. inp' = [inp EXCEPT !.rbr = ch] /\ reading' = reading /\ got' = got /\ inp \in InType
  BY DEF Arrive, InInv
<1>2. /\ inp'.rbr = ch /\ inp'.count = inp.count /\ inp'.next = inp.next
      /\ inp'.buffer = inp.buffer
  BY <1>1 DEF InType
<1> QED
  BY <1>1, <1>2 DEF Eager, Contents, Delivered

-----------------------------------------------------------------------------
(* The refinement of SerialLine: the output side.                          *)

(* The output pointers go around the array; the next free cell is as far   *)
(* behind the next character as there are characters.                      *)
Round(o) == o.last = (o.next + o.count) % BUF_SIZE

LEMMA Wrapped ==
  ASSUME NEW m \in Nat \ {0}, NEW a \in Nat, a < 2 * m
  PROVE  a % m = IF a < m THEN a ELSE a - m
OBVIOUS

(* How far behind the free cell the i-th character's cell is.              *)
LEMMA Distance ==
  ASSUME NEW m \in Nat \ {0}, NEW p \in 0 .. m - 1, NEW c \in 0 .. m, NEW i \in 1 .. m
  PROVE  (((p + i - 1) % m) + m - ((p + c) % m)) % m =
           IF i <= c THEN m + i - 1 - c ELSE i - 1 - c
<1>1. PICK j \in Nat : j = (p + i - 1) % m /\ j = IF p + i - 1 < m THEN p + i - 1 ELSE p + i - 1 - m
  <2>1. PICK a \in Nat : a = p + i - 1 /\ a < 2 * m
    OBVIOUS
  <2>2. a % m = IF a < m THEN a ELSE a - m
    BY <2>1, Wrapped
  <2> QED
    BY <2>1, <2>2
<1>2. PICK l \in Nat : l = (p + c) % m /\ l = IF p + c < m THEN p + c ELSE p + c - m
  <2>1. PICK a \in Nat : a = p + c /\ a < 2 * m
    OBVIOUS
  <2>2. a % m = IF a < m THEN a ELSE a - m
    BY <2>1, Wrapped
  <2> QED
    BY <2>1, <2>2
<1>3. PICK d \in Nat : d = j + m - l /\ d < 2 * m
  <2>1. j = IF p + i - 1 < m THEN p + i - 1 ELSE p + i - 1 - m
    BY <1>1
  <2>2. l = IF p + c < m THEN p + c ELSE p + c - m
    BY <1>2
  <2>3. j < m /\ l < m + 0
    BY <2>1, <2>2
  <2> QED
    BY <2>3
<1>4. d % m = IF d < m THEN d ELSE d - m
  BY <1>3, Wrapped
<1>5. (IF d < m THEN d ELSE d - m) = IF i <= c THEN m + i - 1 - c ELSE i - 1 - c
  <2>1. j = IF p + i - 1 < m THEN p + i - 1 ELSE p + i - 1 - m
    BY <1>1
  <2>2. l = IF p + c < m THEN p + c ELSE p + c - m
    BY <1>2
  <2> QED
    BY <1>3, <2>1, <2>2, SMTT(30)
<1> QED
  BY <1>1, <1>2, <1>3, <1>4, <1>5

(* Copying n characters of a text appends them to what the buffer holds.   *)
LEMMA CopiedContents ==
  ASSUME NEW o \in OutType, Round(o), NEW text \in Seq(Byte), NEW n \in 0 .. Len(text),
         o.count + n <= BUF_SIZE
  PROVE  /\ Contents(Copied(o, text, n)) = Contents(o) \o SubSeq(text, 1, n)
         /\ Len(Contents(Copied(o, text, n))) = o.count + n
         /\ Round(Copied(o, text, n))
<1> DEFINE c == Copied(o, text, n)
<1>1. /\ BUF_SIZE \in Nat \ {0} /\ o.next \in 0 .. BUF_SIZE - 1 /\ o.last \in 0 .. BUF_SIZE - 1
      /\ o.count \in 0 .. BUF_SIZE /\ o.buffer \in [Index -> Byte]
      /\ n \in 0 .. BUF_SIZE /\ n \in Nat /\ n <= Len(text)
      /\ o.count \in Nat /\ o.next \in Nat
  <2>1. BUF_SIZE \in Nat \ {0}
    BY SioConstants
  <2>2. /\ o.next \in 0 .. BUF_SIZE - 1 /\ o.last \in 0 .. BUF_SIZE - 1
        /\ o.count \in 0 .. BUF_SIZE /\ o.buffer \in [Index -> Byte]
    BY DEF OutType, Index
  <2> QED
    BY <2>1, <2>2
<1>2. /\ c.next = o.next /\ c.count = o.count + n
      /\ c.last = IF n = 0 THEN o.last ELSE (o.last + n) % BUF_SIZE
      /\ c.buffer = [i \in Index |->
                       IF (i + BUF_SIZE - o.last) % BUF_SIZE < n
                         THEN text[((i + BUF_SIZE - o.last) % BUF_SIZE) + 1] ELSE o.buffer[i]]
  BY DEF Copied, OutType
<1> HIDE DEF c
<1>3. \A i \in 1 .. n : text[i] \in Byte
  BY <1>1
<1>4. ASSUME NEW i \in 1 .. o.count + n
      PROVE  /\ (o.next + i - 1) % BUF_SIZE \in Index
             /\ c.buffer[(o.next + i - 1) % BUF_SIZE] =
                  IF i <= o.count THEN o.buffer[(o.next + i - 1) % BUF_SIZE] ELSE text[i - o.count]
  <2>1. i \in 1 .. BUF_SIZE /\ i \in Nat
    BY <1>1
  <2>2. PICK j \in Index : j = (o.next + i - 1) % BUF_SIZE
    <3>1. PICK a \in Nat : a = o.next + i - 1
      BY <1>1, <2>1
    <3>2. a % BUF_SIZE \in Index
      BY <1>1 DEF Index
    <3> QED
      BY <3>1, <3>2
  <2>3. (j + BUF_SIZE - o.last) % BUF_SIZE =
          IF i <= o.count THEN BUF_SIZE + i - 1 - o.count ELSE i - 1 - o.count
    <3> DEFINE far == IF i <= o.count THEN BUF_SIZE + i - 1 - o.count ELSE i - 1 - o.count
               k   == (o.next + i - 1) % BUF_SIZE
               l   == (o.next + o.count) % BUF_SIZE
    <3>1. (k + BUF_SIZE - l) % BUF_SIZE = far
      BY <1>1, <2>1, Distance
    <3>2. j = k /\ o.last = l
      BY <2>2 DEF Round
    <3> HIDE DEF far, k, l
    <3>3. (j + BUF_SIZE - o.last) % BUF_SIZE = far
      BY <3>1, <3>2
    <3> QED
      BY <3>3 DEF far
  <2>4. c.buffer[j] = IF (j + BUF_SIZE - o.last) % BUF_SIZE < n
                        THEN text[((j + BUF_SIZE - o.last) % BUF_SIZE) + 1] ELSE o.buffer[j]
    BY <1>2, <2>2
  <2>5. CASE i <= o.count
    <3>1. ~ (BUF_SIZE + i - 1 - o.count < n)
      BY <1>1, <2>1
    <3> QED
      BY <2>2, <2>3, <2>4, <2>5, <3>1
  <2>6. CASE ~ (i <= o.count)
    <3>1. i - 1 - o.count < n /\ i - 1 - o.count + 1 = i - o.count
      BY <1>1, <2>1
    <3> QED
      BY <2>2, <2>3, <2>4, <2>6, <3>1
  <2> QED
    BY <2>5, <2>6
<1>5. c.buffer \in [Index -> Byte]
  <2> SUFFICES ASSUME NEW i \in Index,
                      (i + BUF_SIZE - o.last) % BUF_SIZE < n
               PROVE  text[((i + BUF_SIZE - o.last) % BUF_SIZE) + 1] \in Byte
    BY <1>1, <1>2
  <2>1. PICK k \in Nat : k = (i + BUF_SIZE - o.last) % BUF_SIZE
    <3>1. PICK a \in Nat : a = i + BUF_SIZE - o.last
      BY <1>1 DEF Index
    <3> QED
      BY <1>1, <3>1
  <2>2. k + 1 \in 1 .. n
    BY <1>1, <2>1
  <2> QED
    BY <1>3, <2>1, <2>2
<1>6. /\ Contents(o) \in Seq(Byte) /\ Len(Contents(o)) = o.count
      /\ \A i \in 1 .. o.count : Contents(o)[i] = o.buffer[(o.next + i - 1) % BUF_SIZE]
  BY <1>1, ContentsSeq
<1>7. /\ Contents(c) \in Seq(Byte) /\ Len(Contents(c)) = o.count + n
      /\ \A i \in 1 .. o.count + n : Contents(c)[i] = c.buffer[(o.next + i - 1) % BUF_SIZE]
  <2>1. c.buffer \in [Index -> Byte] /\ c.next \in Nat /\ c.count \in Nat
    BY <1>1, <1>2, <1>5
  <2>2. /\ Contents(c) \in Seq(Byte) /\ Len(Contents(c)) = c.count
        /\ \A i \in 1 .. c.count : Contents(c)[i] = c.buffer[(c.next + i - 1) % BUF_SIZE]
    BY <2>1, ContentsSeq
  <2> QED
    BY <1>2, <2>2
<1>8. /\ SubSeq(text, 1, n) \in Seq(Byte) /\ Len(SubSeq(text, 1, n)) = n
      /\ \A i \in 1 .. n : SubSeq(text, 1, n)[i] = text[i]
  <2>1. /\ 1 \in Int /\ n \in Int /\ \A i \in 1 .. n : text[i] \in Byte
    BY <1>1, <1>3
  <2>2. /\ SubSeq(text, 1, n) \in Seq(Byte)
        /\ Len(SubSeq(text, 1, n)) = IF 1 <= n THEN n - 1 + 1 ELSE 0
        /\ \A i \in 1 .. n - 1 + 1 : SubSeq(text, 1, n)[i] = text[1 + i - 1]
    BY <2>1, SubSeqProperties
  <2> QED
    BY <1>1, <2>2
<1>9. Contents(c) = Contents(o) \o SubSeq(text, 1, n)
  <2> DEFINE s == Contents(o)
             t == SubSeq(text, 1, n)
             u == Contents(c)
  <2>1. /\ s \in Seq(Byte) /\ Len(s) = o.count /\ t \in Seq(Byte) /\ Len(t) = n
        /\ u \in Seq(Byte) /\ Len(u) = o.count + n
    BY <1>6, <1>7, <1>8
  <2>2. \A i \in 1 .. o.count + n : u[i] = IF i <= o.count THEN s[i] ELSE t[i - o.count]
    <3> SUFFICES ASSUME NEW i \in 1 .. o.count + n
                 PROVE  u[i] = IF i <= o.count THEN s[i] ELSE t[i - o.count]
      OBVIOUS
    <3>1. CASE i <= o.count
      <4>1. i \in 1 .. o.count
        BY <1>1, <3>1
      <4> QED
        BY <1>4, <1>6, <1>7, <3>1, <4>1
    <3>2. CASE ~ (i <= o.count)
      <4>1. i - o.count \in 1 .. n
        BY <1>1, <3>2
      <4> QED
        BY <1>4, <1>7, <1>8, <3>2, <4>1
    <3> QED
      BY <3>1, <3>2
  <2> HIDE DEF s, t, u
  <2>3. /\ s \o t \in Seq(Byte) /\ Len(s \o t) = o.count + n
        /\ \A i \in 1 .. o.count + n : (s \o t)[i] = IF i <= o.count THEN s[i] ELSE t[i - o.count]
    <3>1. /\ s \o t \in Seq(Byte) /\ Len(s \o t) = Len(s) + Len(t)
          /\ \A i \in 1 .. Len(s) + Len(t) :
                (s \o t)[i] = IF i <= Len(s) THEN s[i] ELSE t[i - Len(s)]
      BY <2>1, ConcatProperties
    <3> QED
      BY <2>1, <3>1
  <2>4. \A i \in 1 .. Len(u) : u[i] = (s \o t)[i]
    BY <2>1, <2>2, <2>3
  <2>5. u = s \o t
    <3>1. Len(u) = Len(s \o t)
      BY <2>1, <2>3
    <3> QED
      BY <2>1, <2>3, <2>4, <3>1, SeqEqual
  <2> QED
    BY <2>5 DEF s, t, u
<1>10. Round(c)
  <2>1. CASE n = 0
    BY <1>1, <1>2, <2>1 DEF Round
  <2>2. CASE n # 0
    <3>1. PICK l \in Nat : /\ l = o.last
                           /\ l = IF o.next + o.count < BUF_SIZE
                                  THEN o.next + o.count ELSE o.next + o.count - BUF_SIZE
      <4>1. o.next + o.count \in Nat /\ o.next + o.count < 2 * BUF_SIZE
        BY <1>1
      <4> QED
        BY <1>1, <4>1, Wrapped, SMTT(30) DEF Round
    <3>2. PICK a \in Nat : a = l + n /\ a < 2 * BUF_SIZE
      BY <1>1, <3>1
    <3>3. PICK b \in Nat : b = o.next + (o.count + n) /\ b < 2 * BUF_SIZE
      BY <1>1
    <3>4. a % BUF_SIZE = (IF a < BUF_SIZE THEN a ELSE a - BUF_SIZE)
      BY <1>1, <3>2, Wrapped
    <3>5. b % BUF_SIZE = IF b < BUF_SIZE THEN b ELSE b - BUF_SIZE
      BY <1>1, <3>3, Wrapped
    <3>6. l = IF o.next + o.count < BUF_SIZE
              THEN o.next + o.count ELSE o.next + o.count - BUF_SIZE
      BY <3>1
    <3>7. a % BUF_SIZE = b % BUF_SIZE
      <4>1. (IF a < BUF_SIZE THEN a ELSE a - BUF_SIZE) = IF b < BUF_SIZE THEN b ELSE b - BUF_SIZE
        <5>1. CASE o.next + o.count < BUF_SIZE
          BY <1>1, <3>2, <3>3, <3>6, <5>1, SMTT(30)
        <5>2. CASE ~ (o.next + o.count < BUF_SIZE)
          <6>1. a = b - BUF_SIZE /\ a < BUF_SIZE
            BY <1>1, <3>2, <3>3, <3>6, <5>2, SMTT(30)
          <6>2. ~ (b < BUF_SIZE)
            BY <1>1, <3>2, <6>1
          <6> QED
            BY <6>1, <6>2, Zenon
        <5> QED
          BY <5>1, <5>2
      <4> QED
        BY <3>4, <3>5, <4>1
    <3> QED
      BY <1>2, <2>2, <3>1, <3>2, <3>3, <3>7 DEF Round
  <2> QED
    BY <2>1, <2>2
<1> QED
  BY <1>7, <1>9, <1>10 DEF c

(* The driver's steps of the output side; the UART is given one character  *)
(* at a time.                                                              *)
LineStep == [Line!OutNext]_<<Contents(out), out.thr>>

LEMMA TransmitIsLine ==
  ASSUME OutInv, Round(out), TxPending, Transmit
  PROVE  Round(out)' /\ LineStep
<1>1. /\ BUF_SIZE \in Nat \ {0} /\ out \in OutType /\ Primed(out) /\ out.thr = <<>>
      /\ out.next \in 0 .. BUF_SIZE - 1 /\ out.next \in Nat /\ out.next \in Index
      /\ out.count \in 0 .. BUF_SIZE /\ out.count \in Nat
      /\ out.buffer \in [Index -> Byte]
  <2>1. BUF_SIZE \in Nat \ {0} /\ out \in OutType /\ Primed(out) /\ out.thr = <<>>
    BY SioConstants DEF OutInv, TxPending
  <2>2. /\ out.next \in 0 .. BUF_SIZE - 1 /\ out.next \in Index
        /\ out.count \in 0 .. BUF_SIZE /\ out.buffer \in [Index -> Byte]
    BY <2>1 DEF OutType, Index
  <2> QED
    BY <2>1, <2>2
<1>2. CASE out.sending /\ out.count > 0
  <2>1. out.buffer[out.next] \in Byte
    BY <1>1
  <2>2. out' = [out EXCEPT !.thr = <<out.buffer[out.next]>>,
                           !.next = NextPointer(out.next), !.count = out.count - 1]
    BY <1>1, <1>2, <2>1, FifoFacts DEF Transmit, SendNext
  <2>3. /\ out'.buffer = out.buffer /\ out'.count = out.count - 1
        /\ out'.next = IF out.next + 1 >= BUF_SIZE THEN 0 ELSE out.next + 1
        /\ out'.last = out.last /\ out'.thr = <<out.buffer[out.next]>>
    BY <1>1, <2>2 DEF NextPointer, OutType
  <2>4. \A i \in 1 .. BUF_SIZE : (out'.next + i - 1) % BUF_SIZE = (out.next + i) % BUF_SIZE
    <3> SUFFICES ASSUME NEW i \in 1 .. BUF_SIZE
                 PROVE  (out'.next + i - 1) % BUF_SIZE = (out.next + i) % BUF_SIZE
      OBVIOUS
    <3>1. PICK a \in Nat : a = out'.next + i - 1 /\ a < 2 * BUF_SIZE
      BY <1>1, <2>3
    <3>2. PICK b \in Nat : b = out.next + i /\ b < 2 * BUF_SIZE
      BY <1>1
    <3>3. /\ a % BUF_SIZE = IF a < BUF_SIZE THEN a ELSE a - BUF_SIZE
          /\ b % BUF_SIZE = IF b < BUF_SIZE THEN b ELSE b - BUF_SIZE
      BY <1>1, <3>1, <3>2, Wrapped
    <3>4. a = b \/ (a = b - BUF_SIZE /\ a < BUF_SIZE /\ ~ (b < BUF_SIZE))
      BY <1>1, <2>3, <3>1, <3>2
    <3>5. a % BUF_SIZE = b % BUF_SIZE
      BY <3>3, <3>4
    <3> QED
      BY <3>1, <3>2, <3>5
  <2>5. /\ Contents(out) \in Seq(Byte) /\ Len(Contents(out)) = out.count
        /\ \A i \in 1 .. out.count :
             Contents(out)[i] = out.buffer[(out.next + i - 1) % BUF_SIZE]
    BY <1>1, ContentsSeq
  <2>6. /\ Contents(out') \in Seq(Byte) /\ Len(Contents(out')) = out.count - 1
        /\ \A i \in 1 .. out.count - 1 :
             Contents(out')[i] = out.buffer[(out'.next + i - 1) % BUF_SIZE]
    <3> DEFINE b == out'
    <3>1. b.buffer \in [Index -> Byte] /\ b.next \in Nat /\ b.count \in Nat
      BY <1>1, <1>2, <2>3
    <3>2. b.buffer = out.buffer /\ b.count = out.count - 1
      BY <2>3
    <3> HIDE DEF b
    <3>3. /\ Contents(b) \in Seq(Byte) /\ Len(Contents(b)) = b.count
          /\ \A i \in 1 .. b.count : Contents(b)[i] = b.buffer[(b.next + i - 1) % BUF_SIZE]
      BY <3>1, ContentsSeq
    <3>4. /\ Contents(b) \in Seq(Byte) /\ Len(Contents(b)) = out.count - 1
          /\ \A i \in 1 .. out.count - 1 :
               Contents(b)[i] = out.buffer[(b.next + i - 1) % BUF_SIZE]
      BY <3>2, <3>3
    <3> QED
      BY <3>4 DEF b
  <2>7. Contents(out) # <<>>
    BY <1>2, <2>5
  <2>8. Contents(out') = Tail(Contents(out))
    <3>1. \A i \in 1 .. out.count - 1 : /\ i \in 1 .. BUF_SIZE /\ i + 1 \in 1 .. out.count
                                        /\ out.next + (i + 1) - 1 = out.next + i
      BY <1>1
    <3>2. \A i \in 1 .. out.count - 1 : Contents(out')[i] = Contents(out)[i + 1]
      <4> SUFFICES ASSUME NEW i \in 1 .. out.count - 1
                   PROVE  Contents(out')[i] = Contents(out)[i + 1]
        OBVIOUS
      <4>1. Contents(out')[i] = out.buffer[(out'.next + i - 1) % BUF_SIZE]
        BY <2>6
      <4>2. (out'.next + i - 1) % BUF_SIZE = (out.next + i) % BUF_SIZE
        BY <2>4, <3>1
      <4>3. Contents(out)[i + 1] = out.buffer[(out.next + (i + 1) - 1) % BUF_SIZE]
        BY <2>5, <3>1
      <4>4. out.next + (i + 1) - 1 = out.next + i
        BY <3>1
      <4> QED
        BY <4>1, <4>2, <4>3, <4>4, Zenon
    <3> DEFINE s == Contents(out)
               t == Contents(out')
    <3>3. /\ s \in Seq(Byte) /\ Len(s) = out.count /\ s # <<>>
          /\ t \in Seq(Byte) /\ Len(t) = out.count - 1
          /\ \A i \in 1 .. out.count - 1 : t[i] = s[i + 1]
      BY <2>5, <2>6, <2>7, <3>2
    <3> HIDE DEF s, t
    <3>4. /\ Tail(s) \in Seq(Byte) /\ Len(Tail(s)) = Len(s) - 1
          /\ \A i \in 1 .. Len(Tail(s)) : Tail(s)[i] = s[i + 1]
      BY <3>3, HeadTailProperties
    <3>5. t = Tail(s)
      BY <3>3, <3>4, SeqEqual
    <3> QED
      BY <3>5 DEF s, t
  <2>9. Head(Contents(out)) = out.buffer[out.next]
    <3>1. Head(Contents(out)) = Contents(out)[1] /\ 1 \in 1 .. out.count
      BY <1>1, <1>2, <2>5
    <3>2. out.next + 1 - 1 = out.next /\ out.next % BUF_SIZE = out.next
      BY <1>1, SmallRemainder
    <3> QED
      BY <2>5, <3>1, <3>2
  <2>10. Line!Transmit(Contents(out))
    BY <1>1, <2>3, <2>7, <2>8, <2>9 DEF Line!Transmit
  <2>11. Round(out)'
    <3>1. CASE out.count - 1 = 0
      <4>1. (out.next + 1) % BUF_SIZE = (out'.next + 1 - 1) % BUF_SIZE
        BY <1>1, <2>4
      <4>2. out'.next + 1 - 1 = out'.next + out'.count /\ out.count = 1
        BY <1>1, <2>3, <3>1
      <4> QED
        BY <2>3, <4>1, <4>2 DEF Round
    <3>2. CASE out.count - 1 # 0
      <4>1. (out'.next + out.count - 1) % BUF_SIZE = (out.next + out.count) % BUF_SIZE
        BY <1>1, <1>2, <2>4
      <4>2. out'.next + out.count - 1 = out'.next + out'.count
        BY <1>1, <2>3
      <4> QED
        BY <2>3, <4>1, <4>2 DEF Round
    <3> QED
      BY <3>1, <3>2
  <2> QED
    BY <2>10, <2>11 DEF Line!OutNext, LineStep
<1>3. CASE ~ (out.sending /\ out.count > 0)
  <2>1. out.count = 0
    BY <1>1, <1>3 DEF Primed
  <2>2. /\ out'.count = 0 /\ out'.last = 0 /\ out'.next = 0 /\ out'.thr = out.thr
    BY <1>1, <1>3 DEF Transmit, Finish, Disable, OutType
  <2>3. Round(out)'
    BY <1>1, <2>2 DEF Round
  <2>4. Contents(out) = <<>> /\ Contents(out') = <<>>
    BY <2>1, <2>2 DEF Contents
  <2> QED
    BY <2>2, <2>3, <2>4 DEF LineStep
<1> QED
  BY <1>2, <1>3

LEMMA ShiftedIsLine ==
  ASSUME OutInv, Round(out), Shifted
  PROVE  Round(out)' /\ LineStep
<1>1. out.thr # <<>> /\ out' = [out EXCEPT !.thr = Tail(out.thr)] /\ out \in OutType
  BY DEF OutInv, Shifted
<1>2. /\ out'.thr = Tail(out.thr) /\ out'.buffer = out.buffer /\ out'.next = out.next
      /\ out'.count = out.count /\ out'.last = out.last
  BY <1>1 DEF OutType
<1>3. Contents(out') = Contents(out) /\ Round(out)'
  BY <1>2 DEF Contents, Round
<1>4. Line!Transmitted
  BY <1>1, <1>2, <1>3 DEF Line!Transmitted
<1> QED
  BY <1>3, <1>4 DEF LineStep, Line!OutNext

(* As much of a text as fits is accepted.                                  *)
LEMMA StoreTextContents ==
  ASSUME NEW o \in OutType, Round(o), NEW text \in Seq(Byte)
  PROVE  /\ Round(StoreText(o, text))
         /\ \E n \in 0 .. Len(text) :
              /\ Contents(StoreText(o, text)) = Contents(o) \o SubSeq(text, 1, n)
              /\ Len(Contents(StoreText(o, text))) = o.count + n
              /\ o.count + n <= BUF_SIZE
              /\ n < Len(text) => o.count + n = BUF_SIZE
<1>1. /\ BUF_SIZE \in Nat /\ o.last \in Nat /\ o.last < BUF_SIZE
      /\ o.count \in Nat /\ o.count <= BUF_SIZE /\ Len(text) \in Nat
  BY SioConstants DEF OutType, Index
<1>2. PICK n \in Nat : /\ n = Room(o, text) /\ o.count + n <= BUF_SIZE /\ n <= Len(text)
                       /\ n < Len(text) => o.count + n = BUF_SIZE
  BY <1>1 DEF Room, Least
<1>3. StoreText(o, text) = Copied(o, text, n)
  <2>1. StoreText(o, text) = Copied(o, text, Room(o, text))
    BY <1>1 DEF StoreText
  <2> QED
    BY <1>2, <2>1
<1> n \in 0 .. Len(text)
  BY <1>1, <1>2
<1>4. /\ Contents(Copied(o, text, n)) = Contents(o) \o SubSeq(text, 1, n)
      /\ Len(Contents(Copied(o, text, n))) = o.count + n
      /\ Round(Copied(o, text, n))
  BY <1>2, CopiedContents
<1> QED
  BY <1>2, <1>3, <1>4

(* What is written is queued, the first character at once sent if nothing  *)
(* else is.                                                                *)
LEMMA WriteIsLine ==
  ASSUME NewlineAlone, OutInv, Round(out), NEW text \in Texts, Write(text, Len(text))
  PROVE  Round(out)' /\ LineStep
<1> DEFINE rest   == SubSeq(text, IF out.sending THEN 1 ELSE 2, Len(text))
           filled == StoreText(out, rest)
<1>1. /\ text \in Seq(Byte) /\ Len(text) \in Nat /\ Len(text) > 0
      /\ \A i \in 1 .. Len(text) : text[i] \in Byte
      /\ Head(text) = text[1] /\ text[1] \in Byte
  <2>1. text \in Seq(Byte) /\ text # <<>>
    BY SioConstants DEF Byte
  <2> QED
    BY <2>1
<1>2. /\ BUF_SIZE \in Nat \ {0, 1} /\ out \in OutType /\ Primed(out)
      /\ out.next \in Nat /\ out.count \in Nat /\ out.buffer \in [Index -> Byte]
  <2>1. BUF_SIZE \in Nat \ {0, 1} /\ out \in OutType /\ Primed(out)
    BY SioConstants DEF OutInv
  <2>2. out.next \in Nat /\ out.count \in Nat /\ out.buffer \in [Index -> Byte]
    BY <2>1 DEF OutType, Index
  <2> QED
    BY <2>1, <2>2
<1>3. out' = IF ~ out.sending THEN Writec(filled, Head(text)) ELSE filled
  BY DEF Write
<1>4. rest \in Seq(Byte)
  BY <1>1, SubSeqProperties
<1>5. PICK n \in 0 .. Len(rest) :
        /\ Contents(filled) = Contents(out) \o SubSeq(rest, 1, n)
        /\ Len(Contents(filled)) = out.count + n
        /\ out.count + n <= BUF_SIZE
        /\ n < Len(rest) => out.count + n = BUF_SIZE
  BY <1>2, <1>4, StoreTextContents
<1>6. /\ Round(filled) /\ filled \in OutType
      /\ filled.sending = out.sending /\ filled.tx_int = out.tx_int
      /\ filled.thr = out.thr /\ filled.next = out.next
      /\ rest = <<>> => filled.last = out.last /\ filled.count = out.count
  BY <1>2, <1>4, StoreTextContents, StoreTextType
<1> HIDE DEF filled
<1>7. CASE out.sending
  <2>1. rest = text
    <3>1. rest = SubSeq(text, 1, Len(text))
      BY <1>7
    <3> HIDE DEF rest
    <3> QED
      BY <1>1, <3>1
  <2> HIDE DEF rest
  <2>2. out' = filled
    BY <1>3, <1>7
  <2>3. /\ Contents(out') = Contents(out) \o SubSeq(text, 1, n) /\ out'.thr = out.thr
        /\ n \in 0 .. Len(text)
        /\ n < Len(text) => Len(Contents(out')) = BUF_SIZE
        /\ Len(Contents(out')) <= BUF_SIZE
    BY <1>5, <1>6, <2>1, <2>2
  <2>4. Line!Put(text)
    BY <2>3 DEF Line!Put
  <2> QED
    BY <1>6, <2>2, <2>4 DEF LineStep, Line!OutNext
<1>8. CASE ~ out.sending
  <2>1. /\ out.count = 0 /\ out.last = 0 /\ out.next = 0 /\ out.thr = <<>>
        /\ filled.count = filled.count
    BY <1>2, <1>8 DEF Primed
  <2>2. Contents(out) = <<>>
    BY <2>1 DEF Contents
  <2>3. rest = SubSeq(text, 2, Len(text))
    BY <1>8
  <2>4. Len(rest) = Len(text) - 1 /\ \A i \in 1 .. Len(text) - 1 : rest[i] = text[i + 1]
    <3>1. 2 \in Int /\ Len(text) \in Int /\ \A i \in 2 .. Len(text) : text[i] \in Byte
      BY <1>1
    <3>2. /\ Len(SubSeq(text, 2, Len(text))) = IF 2 <= Len(text) THEN Len(text) - 2 + 1 ELSE 0
          /\ \A i \in 1 .. Len(text) - 2 + 1 : SubSeq(text, 2, Len(text))[i] = text[2 + i - 1]
      BY <3>1, SubSeqProperties
    <3>3. \A i \in Int : 2 + i - 1 = i + 1
      OBVIOUS
    <3>4. Len(text) - 2 + 1 = Len(text) - 1
      BY <1>1
    <3>5. ~ (2 <= Len(text)) => Len(text) - 1 = 0
      <4>1. \A k \in Nat : k > 0 /\ ~ (2 <= k) => k - 1 = 0
        OBVIOUS
      <4> QED
        BY <1>1, <4>1
    <3> QED
      BY <1>1, <2>3, <3>2, <3>3, <3>4, <3>5
  <2> HIDE DEF rest
  <2>5. Contents(filled) = SubSeq(rest, 1, n)
    <3>1. SubSeq(rest, 1, n) \in Seq(Byte)
      BY <1>4, <1>5
    <3> QED
      BY <1>5, <2>2, <3>1, ConcatEmptySeq
  <2>6. CASE Head(text) # LF
    <3>1. out' = [filled EXCEPT !.sending = TRUE, !.tx_int = TRUE, !.thr = <<Head(text)>>]
      <4>1. Writec(filled, Head(text)) = Emit(filled, Head(text))
        BY <2>6 DEF Writec
      <4>2. ~ filled.sending /\ filled.thr = <<>>
        BY <1>6, <1>8, <2>1
      <4>3. Emit(filled, Head(text)) = [filled EXCEPT !.sending = TRUE, !.tx_int = TRUE,
                                                      !.thr = Append(@, Head(text))]
        BY <1>6, <4>2 DEF Emit, Enable, OutType
      <4> QED
        BY <1>1, <1>3, <1>6, <1>8, <4>1, <4>2, <4>3, FifoFacts
    <3>2. /\ out'.thr = <<Head(text)>> /\ out'.buffer = filled.buffer
          /\ out'.next = filled.next /\ out'.count = filled.count /\ out'.last = filled.last
      BY <1>6, <3>1 DEF OutType
    <3>3. Contents(out') = Contents(filled)
      BY <3>2 DEF Contents
    <3>4. Round(out)'
      BY <1>6, <3>2 DEF Round
    <3> DEFINE queued == Contents(out) \o SubSeq(text, 1, n + 1)
    <3>5. /\ queued \in Seq(Byte) /\ Len(queued) = n + 1
          /\ \A i \in 1 .. n + 1 : queued[i] = text[i]
      <4>1. /\ SubSeq(text, 1, n + 1) \in Seq(Byte) /\ Len(SubSeq(text, 1, n + 1)) = n + 1
            /\ \A i \in 1 .. n + 1 : SubSeq(text, 1, n + 1)[i] = text[i]
        <5>1. /\ 1 \in Int /\ n + 1 \in Int /\ n + 1 <= Len(text)
              /\ \A i \in 1 .. n + 1 : text[i] \in Byte
          BY <1>1, <1>5, <2>4
        <5>2. /\ SubSeq(text, 1, n + 1) \in Seq(Byte)
              /\ Len(SubSeq(text, 1, n + 1)) = IF 1 <= n + 1 THEN n + 1 - 1 + 1 ELSE 0
              /\ \A i \in 1 .. n + 1 - 1 + 1 : SubSeq(text, 1, n + 1)[i] = text[1 + i - 1]
          BY <5>1, SubSeqProperties
        <5> QED
          BY <5>1, <5>2
      <4>2. queued = SubSeq(text, 1, n + 1)
        BY <2>2, <4>1, ConcatEmptySeq
      <4> QED
        BY <4>1, <4>2
    <3> HIDE DEF queued
    <3>6. queued # <<>> /\ Head(queued) = Head(text)
      BY <1>1, <1>5, <3>5
    <3>7. Tail(queued) = Contents(out')
      <4>1. /\ Tail(queued) \in Seq(Byte) /\ Len(Tail(queued)) = n
            /\ \A i \in 1 .. n : Tail(queued)[i] = text[i + 1]
        <5>1. /\ Tail(queued) \in Seq(Byte) /\ Len(Tail(queued)) = Len(queued) - 1
              /\ \A i \in 1 .. Len(Tail(queued)) : Tail(queued)[i] = queued[i + 1]
          BY <3>5, <3>6, HeadTailProperties
        <5> QED
          BY <3>5, <5>1
      <4>2. /\ SubSeq(rest, 1, n) \in Seq(Byte) /\ Len(SubSeq(rest, 1, n)) = n
            /\ \A i \in 1 .. n : SubSeq(rest, 1, n)[i] = rest[i]
        <5>1. /\ 1 \in Int /\ n \in Int /\ \A i \in 1 .. n : rest[i] \in Byte
          BY <1>4, <1>5
        <5>2. /\ SubSeq(rest, 1, n) \in Seq(Byte)
              /\ Len(SubSeq(rest, 1, n)) = IF 1 <= n THEN n - 1 + 1 ELSE 0
              /\ \A i \in 1 .. n - 1 + 1 : SubSeq(rest, 1, n)[i] = rest[1 + i - 1]
          BY <5>1, SubSeqProperties
        <5> QED
          BY <5>1, <5>2
      <4>3. \A i \in 1 .. n : rest[i] = text[i + 1]
        BY <1>5, <2>4
      <4>4. Tail(queued) = SubSeq(rest, 1, n)
        BY <4>1, <4>2, <4>3, SeqEqual
      <4> QED
        BY <2>5, <3>3, <4>4
    <3>8. Line!Transmit(queued)
      BY <2>1, <3>2, <3>6, <3>7 DEF Line!Transmit
    <3>9. /\ n + 1 \in 0 .. Len(text)
          /\ n + 1 < Len(text) => Len(Contents(out')) = BUF_SIZE
          /\ Len(Contents(out')) <= BUF_SIZE
      BY <1>1, <1>5, <2>1, <2>4, <3>3
    <3>10. Line!Put(text)
      BY <3>8, <3>9 DEF Line!Put, queued
    <3> QED
      BY <3>4, <3>10 DEF LineStep, Line!OutNext
  <2>7. CASE Head(text) = LF
    <3>1. Len(text) = 1
      BY <2>7 DEF NewlineAlone
    <3>2. rest = <<>>
      BY <1>4, <2>4, <3>1
    <3>3. filled.last = 0 /\ filled.count = 0 /\ filled.next = 0 /\ ~ filled.sending /\ filled.thr = <<>>
      BY <1>6, <1>8, <2>1, <3>2
    <3> DEFINE p == Emit(filled, CR)
    <3>4. p = [filled EXCEPT !.sending = TRUE, !.tx_int = TRUE, !.thr = <<CR>>]
      <4>1. p = [filled EXCEPT !.sending = TRUE, !.tx_int = TRUE, !.thr = Append(@, CR)]
        BY <1>6, <3>3 DEF Emit, Enable, OutType
      <4> QED
        BY <3>3, <4>1
    <3>5. out' = Emit(p, LF)
      BY <1>3, <1>8, <2>7 DEF Writec
    <3> HIDE DEF p
    <3>6. /\ p.sending /\ p.last = 0 /\ p.count = 0 /\ p.next = 0 /\ p.thr = <<CR>>
          /\ p.buffer = filled.buffer /\ p.last # BUF_SIZE
      BY <1>2, <1>6, <3>3, <3>4 DEF OutType
    <3>7. out' = [p EXCEPT !.buffer[p.last] = LF, !.last = @ + 1, !.count = @ + 1]
      BY <3>5, <3>6 DEF Emit, Store
    <3>8. /\ out'.next = 0 /\ out'.count = 1 /\ out'.last = 1 /\ out'.thr = <<CR>>
          /\ out'.buffer[0] = LF
      <4>1. 0 \in Index /\ filled.buffer \in [Index -> Byte]
        BY <1>2, <1>6 DEF Index, OutType
      <4> QED
        BY <1>6, <3>4, <3>6, <3>7, <4>1 DEF OutType
    <3>9. Round(out)'
      <4>1. 1 % BUF_SIZE = 1
        BY <1>2, SmallRemainder
      <4> QED
        BY <3>8, <4>1 DEF Round
    <3>10. Contents(out') = <<LF>>
      <4>1. 0 % BUF_SIZE = 0
        BY <1>2, SmallRemainder
      <4>2. Contents(out') = [i \in 1 .. 1 |-> out'.buffer[(0 + i - 1) % BUF_SIZE]]
        BY <3>8 DEF Contents
      <4>3. \A i \in 1 .. 1 : (0 + i - 1) % BUF_SIZE = 0
        BY <4>1
      <4> QED
        BY <3>8, <4>2, <4>3
    <3> DEFINE queued == Contents(out) \o SubSeq(<<CR, LF>>, 1, 2)
    <3>11. queued = <<CR, LF>>
      <4>1. CR \in Byte /\ LF \in Byte
        BY DEF CR, LF, Byte
      <4>2. \A a, b \in Byte : SubSeq(<<a, b>>, 1, 2) = <<a, b>> /\ <<a, b>> \in Seq(Byte)
        <5>1. \A s \in Seq(Byte) : SubSeq(s, 1, Len(s)) = s
          OBVIOUS
        <5>2. \A a, b \in Byte : <<a, b>> \in Seq(Byte) /\ Len(<<a, b>>) = 2
          OBVIOUS
        <5> QED
          BY <5>1, <5>2
      <4> QED
        BY <2>2, <4>1, <4>2, ConcatEmptySeq
    <3>12. Head(<<CR, LF>>) = CR /\ Tail(<<CR, LF>>) = <<LF>> /\ <<CR, LF>> # <<>> /\ Len(<<CR, LF>>) = 2 /\ Len(<<LF>>) = 1
      OBVIOUS
    <3> HIDE DEF queued
    <3>13. Line!Transmit(queued)
      BY <2>1, <3>8, <3>10, <3>11, <3>12 DEF Line!Transmit
    <3>14. /\ 2 \in 0 .. Len(<<CR, LF>>) /\ ~ (2 < Len(<<CR, LF>>))
           /\ Len(Contents(out')) <= BUF_SIZE
      BY <1>2, <3>10, <3>12
    <3>15. Line!Put(<<CR, LF>>)
      BY <3>13, <3>14 DEF Line!Put, queued
    <3> QED
      BY <3>9, <3>15 DEF LineStep, Line!OutNext
  <2> QED
    BY <2>6, <2>7
<1> QED
  BY <1>7, <1>8

-----------------------------------------------------------------------------
(* The refinement of SerialLine: both sides.                               *)

LineInv == SioInv /\ Eager /\ Round(out)

StreamStep == [Line!Next]_<<Contents(inp), Delivered>>

LEMMA InitLine == Init => LineInv /\ Line!Init /\ Line!OutInit
<1> SUFFICES ASSUME Init
             PROVE  LineInv /\ Line!Init /\ Line!OutInit
  OBVIOUS
<1>1. /\ inp.rbr = NoChar /\ inp.count = 0 /\ reading = 0 /\ got.text = <<>> /\ got.ret = 0
      /\ out.count = 0 /\ out.next = 0 /\ out.last = 0 /\ out.thr = <<>>
  BY DEF Init
<1>2. Eager
  BY <1>1 DEF Eager
<1>3. Round(out)
  BY <1>1, SioConstants DEF Round
<1>4. Contents(inp) = <<>> /\ Contents(out) = <<>> /\ Delivered = <<>>
  BY <1>1 DEF Contents, Delivered
<1> QED
  BY <1>1, <1>2, <1>3, <1>4, InitInv DEF LineInv, Line!Init, Line!OutInit

(* Every step of the driver is a step of the line, in each direction.      *)
LEMMA NextLine ==
  ASSUME NewlineAlone, ReadsSome, WriteWhole, LineInv, [Next]_vars
  PROVE  (Eager /\ Round(out))' /\ StreamStep /\ LineStep
<1>1. ASSUME UNCHANGED <<inp, reading, got>>
      PROVE  Eager' /\ StreamStep
  BY <1>1 DEF LineInv, Eager, StreamStep, Contents, Delivered
<1>2. ASSUME UNCHANGED out
      PROVE  Round(out)' /\ LineStep
  BY <1>2 DEF LineInv, Round, LineStep, Contents
<1>3. CASE UNCHANGED vars
  BY <1>1, <1>2, <1>3 DEF vars
<1>4. CASE Next
  <2>1. ~ inp.wild /\ InInv /\ OutInv /\ Eager /\ Round(out)
    BY <1>4 DEF Next, InBounds, LineInv, SioInv
  <2>2. CASE SioIsr
    <3>1. Eager' /\ StreamStep
      BY <1>1, <2>1, <2>2, ReceiveIsStream DEF SioIsr, StreamStep
    <3>2. Round(out)' /\ LineStep
      BY <1>2, <2>1, <2>2, TransmitIsLine DEF SioIsr
    <3> QED
      BY <3>1, <3>2
  <2>3. ASSUME NEW size \in ReadSizes, Read(size)
        PROVE  Eager' /\ Round(out)' /\ StreamStep /\ LineStep
    <3>1. Eager' /\ StreamStep
      BY <2>1, <2>3, ReadIsStream DEF StreamStep
    <3>2. Round(out)' /\ LineStep
      BY <1>2, <2>3 DEF Read
    <3> QED
      BY <3>1, <3>2
  <2>4. ASSUME NEW buf \in Texts, Write(buf, Len(buf))
        PROVE  Eager' /\ Round(out)' /\ StreamStep /\ LineStep
    <3>1. Eager' /\ StreamStep
      BY <1>1, <2>4 DEF Write
    <3>2. Round(out)' /\ LineStep
      BY <2>1, <2>4, WriteIsLine
    <3> QED
      BY <3>1, <3>2
  <2>5. ASSUME NEW ch \in Chars, Arrive(ch)
        PROVE  Eager' /\ Round(out)' /\ StreamStep /\ LineStep
    <3>1. Eager' /\ StreamStep
      BY <2>1, <2>5, ArriveIsStream DEF StreamStep
    <3>2. Round(out)' /\ LineStep
      BY <1>2, <2>5 DEF Arrive
    <3> QED
      BY <3>1, <3>2
  <2>6. CASE Shifted
    <3>1. Eager' /\ StreamStep
      BY <1>1, <2>6 DEF Shifted
    <3>2. Round(out)' /\ LineStep
      BY <2>1, <2>6, ShiftedIsLine
    <3> QED
      BY <3>1, <3>2
  <2> QED
    BY <1>4, <2>2, <2>3, <2>4, <2>5, <2>6 DEF Next
<1> QED
  BY <1>3, <1>4

(* The driver is a pair of FIFO queues, in every interleaving of system    *)
(* calls and interrupts: nothing is reordered, duplicated or lost on the   *)
(* way from the interrupt to a reader and from a writer to the UART.  It   *)
(* is so for reads of one character or more (a read of none blocks though  *)
(* characters are buffered, and is then given one that overtakes them) and *)
(* for writes of whole texts, a newline alone or after something else.     *)
THEOREM LineIsKept ==
  ASSUME NewlineAlone, ReadsSome, WriteWhole
  PROVE  Spec => ImplementsLine
<1>1. LineInv /\ [Next]_vars => LineInv'
  BY NextInv, NextLine DEF LineInv
<1>2. LineInv /\ [Next]_vars => [Line!Next]_<<Contents(inp), Delivered>>
  BY NextLine DEF StreamStep
<1>3. LineInv /\ [Next]_vars => [Line!OutNext]_<<Contents(out), out.thr>>
  BY NextLine DEF LineStep
<1>4. Spec => []LineInv
  BY <1>1, InitLine, PTL DEF Spec
<1> QED
  BY <1>2, <1>3, <1>4, InitLine, PTL
  DEF Spec, ImplementsLine, Line!LineSpec, Line!Spec
=============================================================================
