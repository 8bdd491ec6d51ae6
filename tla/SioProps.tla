------------------------------ MODULE SioProps ------------------------------
(***************************************************************************)
(* What is checked of the serial line driver: that it implements           *)
(* SerialLine, and what the comments and ulib.h claim that is not so.      *)
(***************************************************************************)
EXTENDS Sio

(* The ranges of the driver's variables.  A pointer is at most one past    *)
(* its array, and the output pointers are never there.                     *)
TypeOK ==
  /\ inp \in [buffer : [Index -> 0 .. 255], last : Pointer, next : Pointer,
              count : 0 .. BUF_SIZE, wild : BOOLEAN, rbr : 0 .. NoChar]
  /\ out \in [buffer : [Index -> 0 .. 255], last : Index, next : Index,
              count : 0 .. BUF_SIZE, wild : {FALSE}, sending : BOOLEAN,
              tx_int : BOOLEAN, thr : {<<>>} \cup {<<ch>> : ch \in 0 .. 255}]
  /\ reading \in 0 .. N_READERS
  /\ got \in [ret : Nat, text : Seq(0 .. 255)]
  /\ wrote \in [ret : Nat, copied : Nat]

-----------------------------------------------------------------------------
(* The promise of SerialLine, seen through the pointers.                   *)

(* The characters that b holds, oldest first, as the interrupt handler and *)
(* the readers would find them.                                            *)
Contents(b) == [i \in 1 .. b.count |-> b.buffer[(b.next + i - 1) % BUF_SIZE]]

(* What the last reader was given, in its buffer or in EAX.                *)
Delivered ==
  IF got.text # <<>> THEN got.text ELSE IF got.ret = 0 THEN <<>> ELSE <<got.ret>>

Line == INSTANCE SerialLine WITH
  CAPACITY  <- BUF_SIZE,
  InChars   <- (Chars \ {CR}) \cup (IF CR \in Chars THEN {LF} ELSE {}),
  WireTexts <- Texts \cup {<<CR, LF>>},
  inq       <- Contents(inp),
  delivered <- Delivered,
  outq      <- Contents(out),
  line      <- out.thr

(* Seen through its pointers and counters, the driver is a pair of FIFO    *)
(* queues: nothing is reordered, duplicated or lost on the way from the    *)
(* interrupt to a reader or from a writer to the UART, whichever way       *)
(* system calls and interrupts interleave (as long as a text of several    *)
(* characters does not begin with LF, see CrThenLf).                       *)
ImplementsLine == Line!LineSpec

(* A character that arrived reaches a reader or the buffer unless the      *)
(* buffer holds BUF_SIZE characters (or its array has no cell left).       *)
DroppedOnlyIfFull ==
  [][ (inp.rbr # NoChar /\ inp'.rbr = NoChar)
        => \/ reading' < reading
           \/ inp'.count = inp.count + 1
           \/ inp.count = BUF_SIZE
           \/ inp'.wild ]_vars

(* The transmitter is never given a character while it has one, and the    *)
(* next character of a transmission is never without an interrupt that     *)
(* will send it: "sending" says what the enable bit says, and a character  *)
(* that is queued finds it set.                                            *)
PumpPrimed ==
  /\ Len(out.thr) <= 1
  /\ out.sending <=> out.tx_int
  /\ out.count > 0 => out.sending
  /\ ~ out.sending => out.thr = <<>> /\ out.last = 0 /\ out.next = 0

(* What the clock's handler dumps of the input buffer is what the readers  *)
(* will be given, in that order, whatever was read in parts and arrived    *)
(* meanwhile, although the dump does not wrap around as readers do: input  *)
(* that is held never does.                                                *)
InputDumped == ~ inp.wild => SioDump(inp) = Contents(inp)

(* Every queued character is sent: the interrupts that _sio_writec starts  *)
(* do not die out while something is queued.  (When the input overran its  *)
(* array the model stops.)                                                 *)
QueuedIsSent ==
  \A i \in Index :
    (out.count > 0 /\ out.next = i) ~> (out.next # i \/ ~ InBounds)

-----------------------------------------------------------------------------
(* Claims that the code does not keep.                                     *)

(* sio.c:171, "add to the input buffer if there is room": the pointer      *)
(* stays in the array.                                                     *)
StoredInBuffer == ~ inp.wild

(* sio.c:515, "Must do LF -> CRLF mapping": after the CR that was made     *)
(* from LF, the LF is next.  (Texts have no CR of their own.)              *)
CrThenLf ==
  out.thr = <<CR>> => out.count > 0 /\ out.buffer[out.next] = LF

(* sio.c:619, "dump the contents of the SIO buffers": also of the output   *)
(* buffer, which does wrap around.                                         *)
OutputDumped == InBounds => SioDump(out) = Contents(out)

(* ulib.h:90, a read from the serial line returns "the count of characters *)
(* read".                                                                  *)
CountReturned == got.ret = Len(got.text)

(* ulib.h:150, a write to the serial line returns "the number of           *)
(* characters written".                                                    *)
WriteNotOverstated == wrote.ret <= wrote.copied

(* ulib.h:159, "writes up to 'size' characters": the write of an empty     *)
(* string writes nothing.                                                  *)
AtMostSizeWritten == wrote.copied <= wrote.ret
=============================================================================
