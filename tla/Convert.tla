------------------------------ MODULE Convert ------------------------------
(***************************************************************************)
(* The conversions of integers to text: cvtdec, cvthex and cvtoct of       *)
(* c_io.c and their copies cvt_dec and cvt_hex of ulibc.c.                 *)
(*                                                                         *)
(* Integers have BITS bits in place of 32.  The constants of the code are  *)
(* those of its width: 214748364 is 2^31 / 10, and 8 is 2^31 % 10, as it   *)
(* is for every width that a run uses.  A text is the sequence of its      *)
(* digits, with a flag for the sign and without the NUL.  -value wraps, as *)
(* it does in code compiled without optimization (CFLAGS of the Makefile). *)
(*                                                                         *)
(* An operator named Op_Something is Op with a plausible mistake, as in    *)
(* KernelOps.                                                              *)
(***************************************************************************)
EXTENDS Integers, Sequences, FiniteSetsExt

CONSTANT BITS   \* bits of an int (32)

(* Hexadecimal digits have 4 bits; the first octal digit has 2 bits.       *)
ASSUME ConvertConstants ==
  /\ BITS \in Nat /\ BITS % 4 = 0 /\ BITS % 3 = 2
  /\ 2 ^ (BITS - 1) % 10 = 8

INT_MAX == 2 ^ (BITS - 1) - 1
INT_MIN == - INT_MAX - 1
Values  == INT_MIN .. INT_MAX

(* The bits of a value, as a natural number.                               *)
Unsigned(value) == IF value < 0 THEN value + 2 ^ BITS ELSE value

VARIABLES
  conv,     \* the conversion called
  value,    \* its argument
  text      \* what it put into the buffer: [minus, digits]

vars == <<conv, value, text>>

-----------------------------------------------------------------------------
(* Decimal.                                                                *)

Decimal[n \in 0 .. INT_MAX] ==
  IF n \div 10 = 0 THEN <<n>> ELSE Append(Decimal[n \div 10], n % 10)

(* The quotient is negative only for the value that has no positive        *)
(* counterpart; then the last digit is replaced as well.                   *)
cvtdec0_KeepsValue(n) ==
  IF n < 0 THEN Append(Decimal[2 ^ (BITS - 1) \div 10], - (INT_MAX % 10) - 1) ELSE Decimal[n]
cvtdec0(n) ==
  IF n < 0 THEN Append(Decimal[2 ^ (BITS - 1) \div 10], 8) ELSE Decimal[n]

cvtdec(n) ==
  LET magnitude == IF n < 0 /\ n # INT_MIN THEN - n ELSE n
  IN  [minus |-> n < 0, digits |-> cvtdec0(magnitude)]

-----------------------------------------------------------------------------
(* Hexadecimal and octal: leading zeros are skipped, but not the last      *)
(* digit; chars_stored makes the others count.                             *)

Stored(digits) ==
  LET last  == Len(digits)
      first == Min({i \in 1 .. last : digits[i] # 0 \/ i = last})
  IN  SubSeq(digits, first, last)

(* The top digit first; value <<= 4 brings up the next one.                *)
cvthex(n) ==
  LET count == BITS \div 4
  IN  [minus |-> FALSE,
       digits |-> Stored([i \in 1 .. count |->
                           (Unsigned(n) \div 2 ^ (BITS - 4 * i)) % 16])]

(* The first digit is the top 2 bits, shifted down with their sign and     *)
(* masked to 3 bits.  Then value <<= 3, though 2 bits were used, and the   *)
(* top 3 bits are the next digit.                                          *)
cvtoct(n) ==
  LET count == (BITS + 1) \div 3
      top   == Unsigned(n) \div 2 ^ (BITS - 2)
      shifted(i) == (Unsigned(n) * 2 ^ (3 * i)) % 2 ^ BITS
  IN  [minus |-> FALSE,
       digits |-> Stored([i \in 1 .. count |->
                    IF i = 1 THEN IF top < 2 THEN top ELSE top + 4
                    ELSE shifted(i - 1) \div 2 ^ (BITS - 3)])]

-----------------------------------------------------------------------------
Init ==
  /\ conv = "none" /\ value = 0
  /\ text = [minus |-> FALSE, digits |-> <<0>>]

Call(name, n, result) == conv' = name /\ value' = n /\ text' = result

Next ==
  \/ \E n \in Values : Call("dec", n, cvtdec(n))
  \/ \E n \in Values : Call("hex", n, cvthex(n))
  \/ \E n \in Values : Call("oct", n, cvtoct(n))

Spec == Init /\ [][Next]_vars

-----------------------------------------------------------------------------
(* The number that digits stand for in a base.                             *)
Number(digits, base) ==
  LET upto[i \in 0 .. Len(digits)] ==
        IF i = 0 THEN 0 ELSE upto[i - 1] * base + digits[i]
  IN  upto[Len(digits)]

Canonical(base) ==
  /\ \A i \in DOMAIN text.digits : text.digits[i] \in 0 .. base - 1
  /\ Len(text.digits) > 1 => text.digits[1] # 0

(* cvtdec's text is the value's one decimal representation, the value that *)
(* has no positive counterpart included ("%d" of c_io.h); cvthex's is that *)
(* of the value's bits ("%x"), and no interior zero is lost with the       *)
(* leading ones.                                                           *)
DigitsRight ==
  /\ conv = "dec" =>
       /\ Canonical(10)
       /\ Number(text.digits, 10) = IF value < 0 THEN - value ELSE value
       /\ text.minus <=> value < 0
  /\ conv = "hex" => Canonical(16) /\ Number(text.digits, 16) = Unsigned(value)

(* c_io.h:47, "print an integer as a octal value".                         *)
OctalRight ==
  conv = "oct" => Canonical(8) /\ Number(text.digits, 8) = Unsigned(value)

(* prt_status (ulibc.c:243) has a buffer of 8 characters, one per 4 bits,  *)
(* for the digits of cvt_hex and their NUL.                                *)
StatusFits == conv = "hex" => Len(text.digits) + 1 <= BITS \div 4
=============================================================================
