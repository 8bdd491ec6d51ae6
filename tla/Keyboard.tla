------------------------------ MODULE Keyboard ------------------------------
(***************************************************************************)
(* Console input, c_io.c: the keyboard's interrupt handler, the tracking   *)
(* of Shift and Ctrl, the circular buffer, and c_gets as the read() system *)
(* call uses it, with interrupts off.                                      *)
(*                                                                         *)
(* In a system call c_getchar reads keystrokes itself when the buffer is   *)
(* empty.  The keyboard runs on meanwhile, so a call of c_gets is several  *)
(* steps here: it begins, takes characters, polls the keyboard, and ends.  *)
(* While it is under way nothing else runs on the CPU.                     *)
(*                                                                         *)
(* The keyboard is the environment: its controller queues scan codes until *)
(* they are read, and interrupts while it has one.  With each code comes,  *)
(* for the specification only, the character that the user meant by it.    *)
(* Characters are the bytes 0..255.  The echo is left out.  An interrupt   *)
(* is taken to be withdrawn when its scan code has been polled.            *)
(*                                                                         *)
(* An operator named Op_Something is Op with a plausible mistake, as in    *)
(* KernelOps.                                                              *)
(***************************************************************************)
EXTENDS Naturals, Integers, Sequences

CONSTANTS
  C_BUFSIZE,    \* cells of the circular buffer (200)
  Keys,         \* the scan codes that the user's keys send on being pressed
  N_CODES,      \* scan codes that the keyboard's controller can hold
  Sizes         \* the sizes that processes pass to read()

ASSUME KeyboardConstants ==
  /\ C_BUFSIZE \in Nat \ {0, 1}
  /\ Keys \subseteq 0 .. 127
  /\ N_CODES \in Nat
  /\ Sizes \subseteq Nat

L_SHIFT == 42   \* 0x2a
R_SHIFT == 54   \* 0x36
CTRL    == 29   \* 0x1d
KEY_D   == 32   \* 0x20
ENTER   == 28   \* 0x1c
CAPS    == 58   \* 0x3a, undefined in both tables

LF  == 10
EOT == 4
UNDEFINED == 255        \* the tables' '\377'

VARIABLES
  buffer,       \* __c_input_buffer
  next_char,    \* __c_next_char, an index
  next_space,   \* __c_next_space, an index
  shift,        \* the static variables of __c_input_scan_code
  ctrl,         \* ctrl_mask is 0x1f
  gets,         \* the call of c_gets under way, or NoGets
  last,         \* the last character that c_getchar returned
  codes,        \* scan codes in the controller
  held          \* the keys that are held down

ring == <<buffer, next_char, next_space>>
vars == <<buffer, next_char, next_space, shift, ctrl, gets, last, codes, held>>

Index == 0 .. C_BUFSIZE - 1

NoGets == [active |-> FALSE, size |-> 0, text |-> <<>>]

-----------------------------------------------------------------------------
(* Translation.                                                            *)

(* scan_code[shift][code], for the keys of the runs.                       *)
ScanCode(shifted, code) ==
  CASE code = KEY_D -> IF shifted THEN 68 ELSE 100
    [] code = ENTER -> LF
    [] OTHER        -> UNDEFINED

Masked(on, ch) == IF on THEN ch % 32 ELSE ch

Increment(pointer) == IF pointer + 1 >= C_BUFSIZE THEN 0 ELSE pointer + 1

(* if( code != '\377' ): the table is of unsigned char, so code is 255 for *)
(* an undefined scan code; '\377' is a char, which is signed, so it is -1. *)
IsDefined(ch) == ch # -1

(* __c_input_scan_code on a code below 0x80 that is not Shift or Ctrl:     *)
(* stored if there is room.                                                *)
StoreKey_LastCell(ch) ==
  IF IsDefined(ch)
  THEN /\ buffer' = [buffer EXCEPT ![next_space] = Masked(ctrl, ch)]
       /\ next_space' = Increment(next_space)
       /\ UNCHANGED next_char
  ELSE UNCHANGED ring
StoreKey(ch) ==
  IF IsDefined(ch) /\ Increment(next_space) # next_char
  THEN /\ buffer' = [buffer EXCEPT ![next_space] = Masked(ctrl, ch)]
       /\ next_space' = Increment(next_space)
       /\ UNCHANGED next_char
  ELSE UNCHANGED ring

(* __c_input_scan_code: Shift, Ctrl, and the press of ordinary keys.       *)
InputScanCode_CtrlSticks(code) ==
  \/ /\ code \in {L_SHIFT, R_SHIFT, L_SHIFT + 128, R_SHIFT + 128}
     /\ shift' = (code < 128)
     /\ UNCHANGED <<ring, ctrl>>
  \/ /\ code = CTRL
     /\ ctrl' = TRUE
     /\ UNCHANGED <<ring, shift>>
  \/ /\ code < 128 /\ code \notin {L_SHIFT, R_SHIFT, CTRL}
     /\ StoreKey(ScanCode(shift, code))
     /\ UNCHANGED <<shift, ctrl>>
  \/ /\ code >= 128 /\ code - 128 \notin {L_SHIFT, R_SHIFT}
     /\ UNCHANGED <<ring, shift, ctrl>>
InputScanCode(code) ==
  \/ /\ code \in {L_SHIFT, R_SHIFT, L_SHIFT + 128, R_SHIFT + 128}
     /\ shift' = (code < 128)
     /\ UNCHANGED <<ring, ctrl>>
  \/ /\ code \in {CTRL, CTRL + 128}
     /\ ctrl' = (code < 128)
     /\ UNCHANGED <<ring, shift>>
  \/ /\ code < 128 /\ code \notin {L_SHIFT, R_SHIFT, CTRL}
     /\ StoreKey(ScanCode(shift, code))
     /\ UNCHANGED <<shift, ctrl>>
  \/ /\ code >= 128 /\ code - 128 \notin {L_SHIFT, R_SHIFT, CTRL}
     /\ UNCHANGED <<ring, shift, ctrl>>

-----------------------------------------------------------------------------
(* After c_io_init.                                                        *)

Init ==
  /\ buffer = [i \in Index |-> 0]
  /\ next_char = 0 /\ next_space = 0
  /\ shift = FALSE /\ ctrl = FALSE
  /\ gets = NoGets
  /\ last = <<>>
  /\ codes = <<>>
  /\ held = {}

(* __c_keyboard_isr.                                                       *)
KeyboardIsr ==
  /\ ~ gets.active
  /\ codes # <<>>
  /\ InputScanCode(Head(codes).code)
  /\ codes' = Tail(codes)
  /\ UNCHANGED <<gets, last, held>>

-----------------------------------------------------------------------------
(* c_input_queue and c_gets, called by read().                             *)

InputQueue ==
  LET n_chars == next_space - next_char
  IN  IF n_chars < 0 THEN n_chars + C_BUFSIZE ELSE n_chars

(* The call begins only when there is a character; else read() returns     *)
(* E_NO_CHAR.                                                              *)
BeginGets(size) ==
  /\ ~ gets.active
  /\ InputQueue >= 1
  /\ gets' = [active |-> TRUE, size |-> size, text |-> <<>>]
  /\ UNCHANGED <<ring, shift, ctrl, last, codes, held>>

(* size > 1 in the loop's condition: one cell is for the NUL.              *)
Wants == Len(gets.text) + 1 < gets.size

Ends(text) == text # <<>> /\ text[Len(text)] = LF

(* c_getchar finds a character.  EOT ends the call and is not stored; LF   *)
(* ends it and is.  The cell that was read is written again before it is   *)
(* read; it is set to 0 so that TLC does not tell its old values apart.    *)
GetChar ==
  /\ gets.active /\ Wants /\ ~ Ends(gets.text)
  /\ next_char # next_space
  /\ LET ch == buffer[next_char] IN
       /\ last' = <<ch>>
       /\ gets' = IF ch = EOT THEN NoGets
                  ELSE [gets EXCEPT !.text = Append(@, ch)]
  /\ buffer' = [buffer EXCEPT ![next_char] = 0]
  /\ next_char' = Increment(next_char)
  /\ UNCHANGED <<next_space, shift, ctrl, codes, held>>

(* c_getchar finds none and reads the next keystroke itself.               *)
Poll_AwaitInterrupt ==
  /\ gets.active /\ Wants /\ ~ Ends(gets.text)
  /\ next_char = next_space
  /\ UNCHANGED vars
Poll ==
  /\ gets.active /\ Wants /\ ~ Ends(gets.text)
  /\ next_char = next_space
  /\ codes # <<>>
  /\ InputScanCode(Head(codes).code)
  /\ codes' = Tail(codes)
  /\ UNCHANGED <<gets, last, held>>

EndGets ==
  /\ gets.active
  /\ ~ Wants \/ Ends(gets.text)
  /\ gets' = NoGets
  /\ UNCHANGED <<ring, shift, ctrl, last, codes, held>>

-----------------------------------------------------------------------------
(* The user presses and releases keys; a key that is held repeats.         *)

Meant(key) ==
  IF key \in {L_SHIFT, R_SHIFT, CTRL} \/ ScanCode(FALSE, key) = UNDEFINED
  THEN <<>>
  ELSE <<Masked(CTRL \in held, ScanCode({L_SHIFT, R_SHIFT} \cap held # {}, key))>>

Press(key) ==
  /\ Len(codes) < N_CODES
  /\ codes' = Append(codes, [code |-> key, meant |-> Meant(key)])
  /\ held' = held \cup {key}
  /\ UNCHANGED <<ring, shift, ctrl, gets, last>>

Release(key) ==
  /\ Len(codes) < N_CODES
  /\ key \in held
  /\ codes' = Append(codes, [code |-> key + 128, meant |-> <<>>])
  /\ held' = held \ {key}
  /\ UNCHANGED <<ring, shift, ctrl, gets, last>>

Next ==
  \/ KeyboardIsr
  \/ \E size \in Sizes : BeginGets(size)
  \/ GetChar \/ Poll \/ EndGets
  \/ \E key \in Keys : Press(key) \/ Release(key)

Spec == Init /\ [][Next]_vars

(* The kernel's code goes on.  An interrupt that is pending when a system  *)
(* call returns is taken before the process can make another one.          *)
FairSpec == Spec /\ WF_vars(GetChar \/ Poll \/ EndGets) /\ SF_vars(KeyboardIsr)

-----------------------------------------------------------------------------
Contents == [i \in 1 .. InputQueue |-> buffer[(next_char + i - 1) % C_BUFSIZE]]

Stream == INSTANCE CharStream WITH
  CAPACITY  <- C_BUFSIZE - 1,
  InChars   <- 0 .. 255,
  inq       <- Contents,
  delivered <- last

(* The circular buffer is a FIFO queue of C_BUFSIZE - 1 characters, filled *)
(* by interrupts and by polling: what is read is what was stored, in       *)
(* order, each character once.                                             *)
ImplementsStream == Stream!Spec

(* The oldest scan code is handled in this step.                           *)
Handled == codes # <<>> /\ codes' = Tail(codes)

(* A key is stored as the character that the user meant when pressing it,  *)
(* however long its scan code waited in the controller and whoever read    *)
(* it; and it is stored unless the buffer is full.  (Of keys that mean a   *)
(* character; see UndefinedIgnored for the others.)                        *)
TypedAsMeant ==
  [][ (Handled /\ Head(codes).meant # <<>>)
        => Contents' = IF Len(Contents) = C_BUFSIZE - 1 THEN Contents
                       ELSE Contents \o Head(codes).meant ]_vars

(* Every keystroke is taken from the controller: a read that is under way  *)
(* does not stop the keyboard, and the next interrupt is not lost.         *)
CodesTaken ==
  \A n \in 1 .. N_CODES : (Len(codes) = n) ~> (Len(codes) # n)

-----------------------------------------------------------------------------
(* Claims that the code does not keep.                                     *)

(* c_io.c:604, "Ignore undefined scan codes".                              *)
UndefinedIgnored ==
  [][ (Handled /\ Head(codes).code < 128 /\ Head(codes).meant = <<>>)
        => Contents' = Contents ]_vars

(* syscall.c:207, "console input doesn't block".                           *)
ReadReturns == gets.active ~> ~ gets.active
=============================================================================
