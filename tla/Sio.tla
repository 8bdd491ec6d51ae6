-------------------------------- MODULE Sio --------------------------------
(***************************************************************************)
(* The serial line driver, sio.c, with the two system calls that use it:   *)
(* the input and output buffers with their pointers and counters, the      *)
(* "sending" flag, the transmitter's interrupt enable bit and the handler  *)
(* of the UART's interrupts.                                               *)
(*                                                                         *)
(* The UART is the environment.  It has room for a character received; the *)
(* transmitter's FIFO is a sequence, and its interrupt is raised while it  *)
(* is empty and the enable bit is set.  _sio_isr loops until nothing is    *)
(* pending.  One execution of SioIsr here handles one character received   *)
(* and one transmitter event, in the order of the UART's priorities.  A    *)
(* loop that handles more is several executions in a row: the two events   *)
(* have no state in common, so their order in the loop does not matter.    *)
(*                                                                         *)
(* The pointers are indices into the arrays.  A store past the end of an   *)
(* array sets "wild", and the model stops there: what C does next depends  *)
(* on what the linker placed after the array.                              *)
(*                                                                         *)
(* _sio_readc and _sio_puts have no callers.  The UART's line and modem    *)
(* status events only print, and are left out.                             *)
(*                                                                         *)
(* An operator named Op_Something is Op with a plausible mistake, as in    *)
(* KernelOps.                                                              *)
(***************************************************************************)
EXTENDS Naturals, Sequences

CONSTANTS
  BUF_SIZE,     \* characters in each buffer (2048)
  N_READERS,    \* most processes that can be blocked reading
  Chars,        \* characters that arrive at the UART
  Texts,        \* the buffers that processes write, of 1 character or more
  WriteWhole,   \* TRUE: write() is given the size of the buffer; FALSE: or 0
  ReadSizes     \* the sizes that processes pass to read()

LF == 10
CR == 13

ASSUME SioConstants ==
  /\ BUF_SIZE \in Nat \ {0, 1}
  /\ N_READERS \in Nat
  /\ Chars \subseteq 1 .. 255
  /\ Texts \subseteq Seq(0 .. 255) /\ <<>> \notin Texts
  /\ WriteWhole \in BOOLEAN
  /\ ReadSizes \subseteq Nat

NoChar == 256

VARIABLES
  inp,      \* _inbuffer, _inlast, _innext, _incount; rbr, the UART's character
  out,      \* _outbuffer, _outlast, ..., _sending, TX bit of _ier; thr, the FIFO
  reading,  \* length of _reading
  got,      \* last read() that returned: its EAX, the text in its buffer
  wrote     \* last write(): its EAX, and the count that _sio_writes returned

vars == <<inp, out, reading, got, wrote>>

Index   == 0 .. BUF_SIZE - 1
Pointer == 0 .. BUF_SIZE

-----------------------------------------------------------------------------
(* Buffers.                                                                *)

Least(a, b) == IF a < b THEN a ELSE b

NoText == [i \in Index |-> 0]

(* *last++ = ch; ++count -- what both buffers do for a single character.   *)
Store(b, ch) ==
  IF b.last = BUF_SIZE
  THEN [b EXCEPT !.wild = TRUE]
  ELSE [b EXCEPT !.buffer[b.last] = ch, !.last = @ + 1, !.count = @ + 1]

(* The loop of _sio_writes copies as much of a text as fits, with wrap      *)
(* around; Copied is what n iterations leave.                              *)
Copied(o, text, n) ==
  [o EXCEPT
    !.buffer = [i \in Index |->
                 LET k == (i + BUF_SIZE - o.last) % BUF_SIZE
                 IN  IF k < n THEN text[k + 1] ELSE o.buffer[i]],
    !.last   = IF n = 0 THEN o.last ELSE (o.last + n) % BUF_SIZE,
    !.count  = o.count + n]

Room_OneMore(o, text) == IF o.count <= BUF_SIZE THEN Least(Len(text), BUF_SIZE + 1 - o.count) ELSE 0
Room(o, text) == IF o.count < BUF_SIZE THEN Least(Len(text), BUF_SIZE - o.count) ELSE 0

StoreText(o, text) ==
  LET n == Room(o, text)
  IN  IF n > 0 /\ o.last = BUF_SIZE THEN [o EXCEPT !.wild = TRUE] ELSE Copied(o, text, n)

(* _sio_enable(SIO_TX) and _sio_disable(SIO_TX).  The receiver's interrupt *)
(* is enabled by _init and stays so.                                       *)
Enable(o)  == [o EXCEPT !.tx_int = TRUE]
Disable(o) == [o EXCEPT !.tx_int = FALSE]

(* _sio_writec: queue a character, or "prime the pump" with it.            *)
Emit(o, ch) ==
  IF o.sending THEN Store(o, ch)
  ELSE Enable([o EXCEPT !.sending = TRUE, !.thr = Append(@, ch)])

Writec(o, ch) == IF ch = LF THEN Emit(Emit(o, CR), LF) ELSE Emit(o, ch)

-----------------------------------------------------------------------------
(* After _sio_init, with the receiver enabled by _init.                    *)

Init ==
  /\ inp = [buffer |-> NoText, last |-> 0, next |-> 0, count |-> 0,
            wild |-> FALSE, rbr |-> NoChar]
  /\ out = [buffer |-> NoText, last |-> 0, next |-> 0, count |-> 0,
            wild |-> FALSE, sending |-> FALSE, tx_int |-> FALSE, thr |-> <<>>]
  /\ reading = 0
  /\ got = [ret |-> 0, text |-> <<>>]
  /\ wrote = [ret |-> 0, copied |-> 0]

-----------------------------------------------------------------------------
(* The interrupt handler.                                                  *)

RxPending == inp.rbr # NoChar
TxPending == out.tx_int /\ out.thr = <<>>

(* CR is mapped to LF.  The character goes to a waiting process, in its    *)
(* EAX, or to the buffer if there is room.                                 *)
HasRoom_KeepOneFree(b) == b.count < BUF_SIZE - 1
HasRoom(b) == b.count < BUF_SIZE

Receive ==
  LET ch    == IF inp.rbr = CR THEN LF ELSE inp.rbr
      taken == [inp EXCEPT !.rbr = NoChar]
  IN  IF reading > 0
      THEN /\ got' = [ret |-> ch, text |-> <<>>]
           /\ reading' = reading - 1
           /\ inp' = taken
      ELSE /\ inp' = IF HasRoom(inp) THEN Store(taken, ch) ELSE taken
           /\ UNCHANGED <<reading, got>>

(* The next character leaves, or the transmission ends.                    *)
NextPointer(p) == IF p + 1 >= BUF_SIZE THEN 0 ELSE p + 1

SendNext_DisableAtLast(o) ==
  [o EXCEPT !.thr = Append(@, o.buffer[o.next]), !.next = NextPointer(@),
            !.count = @ - 1, !.tx_int = o.count > 1]
SendNext_IdleAtLast(o) ==
  [o EXCEPT !.thr = Append(@, o.buffer[o.next]), !.next = NextPointer(@),
            !.count = @ - 1, !.sending = o.count > 1]
SendNext(o) ==
  [o EXCEPT !.thr = Append(@, o.buffer[o.next]), !.next = NextPointer(@),
            !.count = @ - 1]

Finish(o) ==
  Disable([o EXCEPT !.count = 0, !.last = 0, !.next = 0, !.sending = FALSE])

Transmit == out' = IF out.sending /\ out.count > 0 THEN SendNext(out) ELSE Finish(out)

SioIsr ==
  /\ RxPending \/ TxPending
  /\ IF RxPending THEN Receive ELSE UNCHANGED <<inp, reading, got>>
  /\ IF TxPending THEN Transmit ELSE UNCHANGED out
  /\ UNCHANGED wrote

-----------------------------------------------------------------------------
(* read() and write() on CHAN_SIO.                                         *)

(* _sio_reads copies from the buffer; its wrap test lets the pointer reach *)
(* BUF_SIZE.  An empty buffer starts again at its beginning.               *)
Reads_ResetAlways(n) ==
  [inp EXCEPT !.count = @ - n, !.last = 0, !.next = 0]
Reads(n) ==
  IF inp.count = n
  THEN [inp EXCEPT !.count = 0, !.last = 0, !.next = 0]
  ELSE [inp EXCEPT !.count = @ - n, !.next = (@ + n) % (BUF_SIZE + 1)]

(* The text is returned, or the caller blocks.                             *)
Read(size) ==
  LET n == Least(inp.count, size)
  IN  IF n > 0
      THEN /\ got' = [ret  |-> n,
                      text |-> [i \in 1 .. n |->
                                 inp.buffer[(inp.next + i - 1) % (BUF_SIZE + 1)]]]
           /\ inp' = Reads(n)
           /\ UNCHANGED <<out, reading, wrote>>
      ELSE /\ reading < N_READERS
           /\ reading' = reading + 1
           /\ UNCHANGED <<inp, out, got, wrote>>

(* _sio_writes: if nothing is being sent, all but the first character are  *)
(* queued and then the first one is sent.  _sys_write returns the size.    *)
Write(buf, size) ==
  LET idle   == ~ out.sending
      filled == StoreText(out, SubSeq(buf, IF idle THEN 2 ELSE 1, size))
  IN  /\ out' = IF idle THEN Writec(filled, Head(buf)) ELSE filled
      /\ wrote' = [ret |-> size,
                   copied |-> filled.count - out.count + IF idle THEN 1 ELSE 0]
      /\ UNCHANGED <<inp, reading, got>>

-----------------------------------------------------------------------------
(* The UART: a character arrives; the transmitter's character has left.    *)

Arrive(ch) ==
  /\ inp.rbr = NoChar
  /\ inp' = [inp EXCEPT !.rbr = ch]
  /\ UNCHANGED <<out, reading, got, wrote>>

Shifted ==
  /\ out.thr # <<>>
  /\ out' = [out EXCEPT !.thr = Tail(@)]
  /\ UNCHANGED <<inp, reading, got, wrote>>

(* _sio_dump, which the clock's handler calls every 10 seconds, prints a   *)
(* buffer's characters: count of them from its pointer on, not wrapping    *)
(* around.  NoChar stands for what lies past the array.                    *)
SioDump(b) ==
  [i \in 1 .. b.count |->
    IF b.next + i - 1 \in Index THEN b.buffer[b.next + i - 1] ELSE NoChar]

InBounds == ~ inp.wild /\ ~ out.wild

Next ==
  /\ InBounds
  /\ \/ SioIsr
     \/ \E size \in ReadSizes : Read(size)
     \/ \E buf \in Texts : Write(buf, Len(buf))
     \/ ~ WriteWhole /\ \E buf \in Texts : Write(buf, 0)
     \/ \E ch \in Chars : Arrive(ch)
     \/ Shifted

Spec == Init /\ [][Next]_vars

(* The UART goes on transmitting, and its interrupts are taken: handlers   *)
(* return, and processes run with interrupts on.                           *)
FairSpec == Spec /\ WF_vars(InBounds /\ SioIsr) /\ WF_vars(InBounds /\ Shifted)
=============================================================================
