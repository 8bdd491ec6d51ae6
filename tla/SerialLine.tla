----------------------------- MODULE SerialLine -----------------------------
(***************************************************************************)
(* What the serial line promises: a stream of characters in, see           *)
(* CharStream, and independently of it the characters that processes write *)
(* leave in the order of the writes.  A text is cut only when the buffer   *)
(* is full.  Sio.tla implements this module.                               *)
(*                                                                         *)
(* This is a statement of intent: it translates no code.                   *)
(***************************************************************************)
EXTENDS CharStream

CONSTANT
  WireTexts     \* what a write may ask to have transmitted

VARIABLES
  outq,         \* characters accepted from writers and not yet transmitted
  line          \* the characters the UART is transmitting

OutInit == outq = <<>> /\ line = <<>>

(* The next character in order goes to the UART, which must be idle.       *)
Transmit(queued) ==
  /\ line = <<>> /\ queued # <<>>
  /\ line' = <<Head(queued)>>
  /\ outq' = Tail(queued)

(* A text is accepted whole, or as much of it as fits.  If nothing is      *)
(* being transmitted the first character may leave at once.                *)
Put(text) ==
  \E n \in 0 .. Len(text) :
    LET queued == outq \o SubSeq(text, 1, n) IN
      /\ \/ outq' = queued /\ line' = line
         \/ Transmit(queued)
      /\ n < Len(text) => Len(outq') = CAPACITY
      /\ Len(outq') <= CAPACITY

Transmitted ==
  /\ line # <<>>
  /\ line' = Tail(line)
  /\ UNCHANGED outq

OutNext ==
  \/ Transmit(outq)
  \/ \E text \in WireTexts : Put(text)
  \/ Transmitted

LineSpec == Spec /\ OutInit /\ [][OutNext]_<<outq, line>>
=============================================================================
