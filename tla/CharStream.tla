----------------------------- MODULE CharStream -----------------------------
(***************************************************************************)
(* What an input device promises the processes that read it, without       *)
(* arrays, pointers or interrupts: characters are delivered in the order   *)
(* of their arrival, each once.  Sio.tla and Keyboard.tla implement this.  *)
(*                                                                         *)
(* This is a statement of intent: it translates no code.                   *)
(***************************************************************************)
EXTENDS Naturals, Sequences

CONSTANTS
  CAPACITY,     \* characters that can be held
  InChars       \* the characters that can arrive

VARIABLES
  inq,          \* characters that arrived and nobody has read
  delivered     \* the characters given to the last reader that got any

Init == inq = <<>> /\ delivered = <<>>

(* A character is kept while there is room.                                *)
Accept(ch) ==
  /\ Len(inq) < CAPACITY
  /\ inq' = Append(inq, ch)
  /\ UNCHANGED delivered

(* A reader that was waiting is given the character: it must be the first. *)
Hand(ch) ==
  /\ inq = <<>>
  /\ delivered' = <<ch>>
  /\ UNCHANGED inq

(* A reader takes the oldest characters.                                   *)
Take(n) ==
  /\ delivered' = SubSeq(inq, 1, n)
  /\ inq' = SubSeq(inq, n + 1, Len(inq))

Next ==
  \/ \E ch \in InChars : Accept(ch) \/ Hand(ch)
  \/ \E n \in 1 .. Len(inq) : Take(n)

Spec == Init /\ [][Next]_<<inq, delivered>>
=============================================================================
