----------------------------- MODULE MachineProofs -----------------------------
(***************************************************************************)
(* Machine implements Processors, for any number of processes, any depth   *)
(* of calls, any exceptions and interrupt lines: each process has a        *)
(* processor and a stack of its own.                                       *)
(*                                                                         *)
(* The argument is about the stacks.  MachineInv says that the stack of    *)
(* every process, with the registers that go with it, is a chain of the    *)
(* frames of functions that wait for each other, down to the return to     *)
(* do_exit(), and that what is on top fits the instruction that is next.   *)
(* All of that is about the file of a process (see File), so that it is    *)
(* the same while the file is in the processor and while it is saved.      *)
(* There is a lemma for each instruction, for what saves a context, and    *)
(* for each handler; each shows that the invariant is kept and which step  *)
(* of Processors was taken.                                                *)
(*                                                                         *)
(* The theorems are about programs that call fork() by way of spawn()      *)
(* only, like all the programs there are: ForkedFrame is refuted for       *)
(* others.                                                                 *)
(***************************************************************************)
EXTENDS MachineProps, SequenceTheorems, TLAPS

-----------------------------------------------------------------------------
(* The inductive invariant.                                                *)

Labels ==
  {"entry", "spawn0", "body", "spawn", "forked", "failed", "do_exit", "done", "int",
   "ret", "getpid", "sleep", "bogus", "exit", "fork", "exec"}

(* The words of stacks and registers.                                      *)
Word == ({"val"} \X Nat) \cup ({"code"} \X Labels) \cup ({"ptr"} \X Nat \X Nat)
          \cup ({"flags"} \X BOOLEAN)

(* k functions of p have a frame: a frame is the caller's frame pointer,   *)
(* above a return address, and a local.                                    *)
FrameOf(p, k) == IF k = 0 THEN Val(0) ELSE Ptr(p, 3 * k + 1)

Chain(p, words, k) ==
  /\ words[3] = Code("do_exit")
  /\ \A i \in 1 .. k : words[3 * i + 1] = FrameOf(p, i - 1)
  /\ \A i \in 2 .. k : words[3 * i] = Code("body")

(* A function of p is about to begin, with k under it.                     *)
Begins(p, f, k) ==
  /\ Len(f.words) = 3 * k + 3 /\ f.regs.ebp = FrameOf(p, k)
  /\ Chain(p, f.words, k)
  /\ k > 0 => f.words[3 * k + 3] = Code("body")

(* The stack of a function and n words, of p or of whoever forked p.       *)
Frames(p, f, k, n) ==
  k > 0 /\ Len(f.words) = 3 * k + 2 + n /\ f.regs.ebp = FrameOf(p, k)

Works(p, f, k, n) == Frames(p, f, k, n) /\ Chain(p, f.words, k)

Top(f) == f.words[Len(f.words)]

(* p has made a call.                                                      *)
Call(p, f) ==
  LET eax == f.regs.eax
      arg == f.words[Len(f.words) - 1]
  IN \E k \in 0 .. Len(f.words) :
       \/ /\ eax \in {Code("getpid"), Code("bogus")} /\ Works(p, f, k, 1) /\ Top(f) = Code("body")
       \/ /\ eax = Code("sleep") /\ Works(p, f, k, 2) /\ Top(f) = Code("body")
       \/ /\ eax = Code("fork") /\ Works(p, f, k, 1) /\ Top(f) = Code("forked")
       \/ /\ eax = Code("exec") /\ Frames(p, f, k, 4)
          /\ arg = Code("entry") /\ f.words[Len(f.words) - 2] = Val(1)
       \/ /\ eax = Code("exit") /\ Len(f.words) > 1 /\ arg = RESULT
          /\ f.regs.ebp = Val(0) \/ (f.regs.ebp = FrameOf(p, k) /\ 3 * k + 1 <= Len(f.words))

(* p has been answered.                                                    *)
Answered(p, f) ==
  \E k \in 1 .. Len(f.words) :
    \/ /\ Top(f) = Code("body") /\ \E n \in {1, 2} : Works(p, f, k, n)
    \/ /\ Top(f) = Code("forked") /\ Frames(p, f, k, 1)
       /\ f.regs.eax # Val(0) => Chain(p, f.words, k)

Behaves(p, f) ==
  \E k \in 0 .. Len(f.words) :
    \/ f.regs.eip \in {Code("entry"), Code("spawn0")} /\ Begins(p, f, k)
    \/ f.regs.eip \in {Code("body"), Code("spawn")} /\ Works(p, f, k, 0)
    \/ /\ f.regs.eip = Code("forked") /\ Frames(p, f, k, 0)
       /\ f.regs.eax # Val(0) => Chain(p, f.words, k)
    \/ /\ f.regs.eip = Code("do_exit") /\ Len(f.words) = 2
       /\ f.regs.eax = RESULT /\ f.regs.ebp = Val(0)
    \/ f.regs.eip = Code("int") /\ Call(p, f)
    \/ f.regs.eip = Code("ret") /\ Answered(p, f)

Types ==
  /\ cpu \in [Registers -> Word]
  /\ stack \in [Process \cup {SystemStack} -> Seq(Word)]
  /\ context \in [Process -> (Process \cup {SystemStack}) \X Nat]
  /\ live \subseteq Process /\ current \in live
  /\ mode \in {"user", "isr", "restore", "halted"}
  /\ vector \in Nat
  /\ status \in {RESULT, EXIT_BAD_CODE}

Stopped == mode = "halted" \/ (mode = "isr" /\ Unexpected(vector))

Saved(p) == context[p] = <<p, Len(stack[p])>> /\ Len(stack[p]) >= SIZE

Lines ==
  /\ mode \in {"user", "restore"} => master = {} /\ slave = {}
  /\ mode = "isr" /\ ~ Unexpected(vector) =>
       slave = {} /\ \E line \in 0 .. 7 : master \subseteq {line}

Goes ==
  /\ \A p \in live : (mode = "user" /\ p = current) \/ Saved(p)
  /\ \A p \in live :
       LET f == File(p) IN
       IF mode = "isr" /\ vector = SYSCALL /\ p = current
       THEN f.regs.eip = Code("ret") /\ Call(p, f)
       ELSE Behaves(p, f)

(* The system runs with interrupts off.                                    *)
Masked == mode # "user" => cpu.eflags = Flags(FALSE)

MachineInv == Types /\ Masked /\ (Stopped \/ (Lines /\ Goes))

-----------------------------------------------------------------------------
(* Words and contexts.                                                     *)

(* What is a word, and what it is made of.                                 *)
LEMMA Words ==
  /\ \A n \in Nat : Val(n) \in Word
  /\ \A l \in Labels : Code(l) \in Word
  /\ \A s, h \in Nat : Ptr(s, h) \in Word /\ Ptr(s, h)[1] = "ptr" /\ Ptr(s, h)[2] = s /\ Ptr(s, h)[3] = h
  /\ \A b \in BOOLEAN : Flags(b) \in Word /\ Flags(b)[2] = b
  /\ \A m, n : Val(m) = Val(n) <=> m = n
  /\ \A l, m : Code(l) = Code(m) <=> l = m
  /\ \A n : Val(n)[1] = "val" /\ Val(n)[2] = n
<1>1. \A n \in Nat : Val(n) \in Word
  BY DEF Val, Word
<1>2. \A l \in Labels : Code(l) \in Word
  BY DEF Code, Word
<1>3. \A s, h \in Nat : Ptr(s, h) \in Word
  BY DEF Ptr, Word
<1>4. \A s, h : Ptr(s, h)[1] = "ptr" /\ Ptr(s, h)[2] = s /\ Ptr(s, h)[3] = h
  BY DEF Ptr
<1>5. \A b \in BOOLEAN : Flags(b) \in Word /\ Flags(b)[2] = b
  BY DEF Flags, Word
<1>6. \A m, n : Val(m) = Val(n) <=> m = n
  BY DEF Val
<1>7. \A l, m : Code(l) = Code(m) <=> l = m
  BY DEF Code
<1>8. \A n : Val(n)[1] = "val" /\ Val(n)[2] = n
  BY DEF Val
<1> QED
  BY <1>1, <1>2, <1>3, <1>4, <1>5, <1>6, <1>7, <1>8

Fields == Registers \cup {"esp", "vector", "code"}

(* The fields of a context have different places; what is saved first is   *)
(* the last field.                                                         *)
LEMMA Places ==
  /\ SIZE = 18 /\ RestoreOrder = Layout
  /\ \A i \in 1 .. 18 : Layout[i] \in Fields /\ SaveOrder[19 - i] = Layout[i]
  /\ \A f \in Fields : /\ IndexIn(Layout, f) \in 1 .. 18
                        /\ Layout[IndexIn(Layout, f)] = f
<1>1. SIZE = 18
  BY DEF SIZE, Layout
<1>2. RestoreOrder = Layout
  BY DEF RestoreOrder, Layout
<1>3. \A i \in 1 .. 18 : Layout[i] \in Fields
  BY DEF Layout, Fields, Registers
<1>4. \A i \in 1 .. 18 : SaveOrder[19 - i] = Layout[i]
  <2>1. \A i \in 1 .. 18 : \/ i = 1 \/ i = 2 \/ i = 3 \/ i = 4 \/ i = 5 \/ i = 6 \/ i = 7 \/ i = 8
                           \/ i = 9 \/ i = 10 \/ i = 11 \/ i = 12 \/ i = 13 \/ i = 14 \/ i = 15
                           \/ i = 16 \/ i = 17 \/ i = 18
    OBVIOUS
  <2> QED
    BY <2>1 DEF Layout, SaveOrder
<1>5. \A f \in Fields : \E i \in 1 .. 18 : Layout[i] = f
  <2> DEFINE Has(f) == \E i \in 1 .. 18 : Layout[i] = f
  <2>1. /\ Layout[1] = "ss" /\ Layout[2] = "gs" /\ Layout[3] = "fs" /\ Layout[4] = "es"
        /\ Layout[5] = "ds" /\ Layout[6] = "edi" /\ Layout[7] = "esi" /\ Layout[8] = "ebp"
        /\ Layout[9] = "esp" /\ Layout[10] = "ebx" /\ Layout[11] = "edx" /\ Layout[12] = "ecx"
        /\ Layout[13] = "eax" /\ Layout[14] = "vector" /\ Layout[15] = "code"
        /\ Layout[16] = "eip" /\ Layout[17] = "cs" /\ Layout[18] = "eflags"
    BY DEF Layout
  <2>2. /\ Has("ss") /\ Has("gs") /\ Has("fs") /\ Has("es") /\ Has("ds") /\ Has("edi")
        /\ Has("esi") /\ Has("ebp") /\ Has("esp") /\ Has("ebx") /\ Has("edx") /\ Has("ecx")
        /\ Has("eax") /\ Has("vector") /\ Has("code") /\ Has("eip") /\ Has("cs")
        /\ Has("eflags")
    BY <2>1
  <2> HIDE DEF Has
  <2>3. \A f \in Fields : Has(f)
    BY <2>2 DEF Fields, Registers
  <2> QED
    BY <2>3 DEF Has
<1>6. ASSUME NEW f \in Fields
      PROVE  /\ IndexIn(Layout, f) \in 1 .. 18
             /\ Layout[IndexIn(Layout, f)] = f
  BY <1>1, <1>5 DEF IndexIn
<1> QED
  BY <1>1, <1>2, <1>3, <1>4, <1>6

-----------------------------------------------------------------------------
(* Contexts on stacks.                                                     *)

(* The registers that are in the context at the end of words, and what is  *)
(* under it.                                                               *)
InContext(words) ==
  [regs |-> [r \in Registers |-> Field(words, r)], words |-> WithoutContext(words)]

(* Words in order are a stack.                                             *)
LEMMA WordSeq ==
  ASSUME NEW n \in Nat, NEW f \in [1 .. n -> Word]
  PROVE  f \in Seq(Word) /\ Len(f) = n
<1>1. f \in Seq(Word)
  BY SeqDef
<1>2. DOMAIN f = 1 .. n
  OBVIOUS
<1> QED
  BY <1>1, <1>2, LenProperties

(* What is pushed comes after what was there.                              *)
LEMMA Joined ==
  ASSUME NEW s \in Seq(Word), NEW t \in Seq(Word)
  PROVE  /\ s \o t \in Seq(Word) /\ Len(s \o t) = Len(s) + Len(t)
         /\ \A i \in 1 .. Len(s) : (s \o t)[i] = s[i]
         /\ \A i \in 1 .. Len(t) : (s \o t)[Len(s) + i] = t[i]
<1>1. /\ s \o t \in Seq(Word) /\ Len(s \o t) = Len(s) + Len(t)
      /\ \A i \in 1 .. Len(s) + Len(t) :
           (s \o t)[i] = IF i <= Len(s) THEN s[i] ELSE t[i - Len(s)]
  BY ConcatProperties
<1>2. PICK m \in Nat, n \in Nat : m = Len(s) /\ n = Len(t)
  OBVIOUS
<1>3. \A i \in 1 .. m + n : (s \o t)[i] = IF i <= m THEN s[i] ELSE t[i - m]
  BY <1>1, <1>2
<1>4. ASSUME NEW i \in 1 .. m PROVE (s \o t)[i] = s[i]
  <2>1. i \in 1 .. m + n /\ i <= m
    OBVIOUS
  <2> QED
    BY <1>3, <2>1
<1>5. ASSUME NEW i \in 1 .. n PROVE (s \o t)[m + i] = t[i]
  <2>1. m + i \in 1 .. m + n /\ ~ (m + i <= m) /\ (m + i) - m = i
    OBVIOUS
  <2> QED
    BY <1>3, <2>1
<1> QED
  BY <1>1, <1>2, <1>4, <1>5

(* The words from the bottom up to a height.                               *)
LEMMA First ==
  ASSUME NEW s \in Seq(Word), NEW n \in Nat, n <= Len(s)
  PROVE  /\ SubSeq(s, 1, n) \in Seq(Word) /\ Len(SubSeq(s, 1, n)) = n
         /\ \A i \in 1 .. n : SubSeq(s, 1, n)[i] = s[i]
<1>1. 1 \in Int /\ n \in Int /\ \A i \in 1 .. n : s[i] \in Word
  OBVIOUS
<1>2. /\ SubSeq(s, 1, n) \in Seq(Word)
      /\ Len(SubSeq(s, 1, n)) = IF 1 <= n THEN n - 1 + 1 ELSE 0
      /\ \A i \in 1 .. n - 1 + 1 : SubSeq(s, 1, n)[i] = s[1 + i - 1]
  BY <1>1, SubSeqProperties
<1>3. n - 1 + 1 = n /\ (~ (1 <= n) => n = 0) /\ \A i \in 1 .. n : 1 + i - 1 = i
  OBVIOUS
<1>4. Len(SubSeq(s, 1, n)) = n
  BY <1>2, <1>3
<1>5. \A i \in 1 .. n : SubSeq(s, 1, n)[i] = s[i]
  BY <1>2, <1>3
<1> QED
  BY <1>2, <1>4, <1>5

(* Every field of a context has its place.                                 *)
LEMMA FieldPlace ==
  ASSUME NEW words, Len(words) \in Nat, NEW f \in Fields
  PROVE  \E i \in 1 .. 18 : /\ i = IndexIn(Layout, f) /\ Layout[i] = f
                            /\ FieldAt(words, f) = Len(words) + 1 - i
BY Places DEF FieldAt

(* A context at the end of a stack, and what is under it.                  *)
LEMMA ContextType ==
  ASSUME NEW words \in Seq(Word), Len(words) >= SIZE
  PROVE  /\ \A f \in Fields : FieldAt(words, f) \in Len(words) - 17 .. Len(words)
         /\ \A f \in Fields : Field(words, f) \in Word
         /\ WithoutContext(words) \in Seq(Word)
         /\ Len(WithoutContext(words)) = Len(words) - 18
         /\ \A i \in 1 .. Len(words) - 18 : WithoutContext(words)[i] = words[i]
         /\ InContext(words).regs \in [Registers -> Word]
         /\ InContext(words).words = WithoutContext(words)
<1>1. SIZE = 18 /\ \A f \in Fields : IndexIn(Layout, f) \in 1 .. 18
  BY Places
<1>2. Len(words) \in Nat /\ Len(words) >= 18 /\ \A i \in 1 .. Len(words) : words[i] \in Word
  BY <1>1
<1>3. ASSUME NEW f \in Fields PROVE FieldAt(words, f) \in Len(words) - 17 .. Len(words)
  <2>1. PICK i \in 1 .. 18 : FieldAt(words, f) = Len(words) + 1 - i
    BY <1>2, FieldPlace
  <2> QED
    BY <1>2, <2>1
<1>4. ASSUME NEW f \in Fields PROVE Field(words, f) \in Word
  <2>1. FieldAt(words, f) \in 1 .. Len(words)
    BY <1>2, <1>3
  <2> QED
    BY <1>2, <2>1 DEF Field
<1>5. /\ WithoutContext(words) \in Seq(Word)
      /\ Len(WithoutContext(words)) = Len(words) - 18
      /\ \A i \in 1 .. Len(words) - 18 : WithoutContext(words)[i] = words[i]
  <2>1. PICK n \in Nat : n = Len(words) - 18
    BY <1>2
  <2>2. WithoutContext(words) = SubSeq(words, 1, n)
    BY <1>1, <2>1 DEF WithoutContext
  <2>3. n <= Len(words)
    BY <1>2, <2>1
  <2>4. /\ SubSeq(words, 1, n) \in Seq(Word) /\ Len(SubSeq(words, 1, n)) = n
        /\ \A i \in 1 .. n : SubSeq(words, 1, n)[i] = words[i]
    BY <2>3, First
  <2> QED
    BY <2>1, <2>2, <2>4
<1>6. InContext(words).regs \in [Registers -> Word]
  BY <1>4 DEF InContext, Fields
<1>7. InContext(words).words = WithoutContext(words)
  BY DEF InContext
<1> QED
  BY <1>3, <1>4, <1>5, <1>6, <1>7

(* What isr_save pushes is the interrupted program's registers, but for    *)
(* the instruction at which it goes on, and the vector.                    *)
LEMMA PushedContext ==
  ASSUME cpu \in [Registers -> Word], NEW v \in Nat, NEW at \in Nat, NEW eip \in Word,
         stack[at] \in Seq(Word), NEW under \in Seq(Word)
  PROVE  LET words == under \o Pushed(v, at, eip)
         IN /\ words \in Seq(Word) /\ Len(words) = Len(under) + 18
            /\ Field(words, "vector") = Val(v)
            /\ InContext(words) = [regs |-> [cpu EXCEPT !.eip = eip], words |-> under]
<1> DEFINE Saves(f) == CASE f = "vector" -> Val(StubOf(v))
                         [] f = "code"   -> Val(0)
                         [] f = "esp"    -> Ptr(at, Len(stack[at]) + 5)
                         [] f = "eip"    -> eip
                         [] OTHER        -> cpu[f]
           pushed == Pushed(v, at, eip)
           words  == under \o pushed
<1>1. \A f \in Fields : Saves(f) \in Word
  <2>1. Len(stack[at]) + 5 \in Nat /\ 0 \in Nat
    OBVIOUS
  <2>2. Val(v) \in Word /\ Val(0) \in Word /\ Ptr(at, Len(stack[at]) + 5) \in Word
    BY <2>1, Words
  <2>3. \A r \in Registers : cpu[r] \in Word
    OBVIOUS
  <2> QED
    BY <2>2, <2>3 DEF Fields, StubOf
<1>2. pushed = [i \in 1 .. 18 |-> Saves(SaveOrder[i])]
  BY Places DEF Pushed
<1> HIDE DEF Saves
<1>3. \A i \in 1 .. 18 : SaveOrder[i] = Layout[19 - i] /\ 19 - i \in 1 .. 18
  <2> SUFFICES ASSUME NEW i \in 1 .. 18
               PROVE  SaveOrder[i] = Layout[19 - i] /\ 19 - i \in 1 .. 18
    OBVIOUS
  <2>1. 19 - i \in 1 .. 18 /\ 19 - (19 - i) = i
    OBVIOUS
  <2>2. SaveOrder[19 - (19 - i)] = Layout[19 - i]
    BY <2>1, Places
  <2> QED
    BY <2>1, <2>2
<1>4. pushed \in [1 .. 18 -> Word]
  <2>1. \A i \in 1 .. 18 : Saves(SaveOrder[i]) \in Word
    BY <1>1, <1>3, Places
  <2> QED
    BY <1>2, <2>1
<1>5. /\ pushed \in Seq(Word) /\ Len(pushed) = 18
      /\ \A i \in 1 .. 18 : pushed[i] = Saves(Layout[19 - i])
  <2>1. pushed \in Seq(Word) /\ Len(pushed) = 18
    BY <1>4, WordSeq
  <2> QED
    BY <1>2, <1>3, <2>1
<1> HIDE DEF pushed
<1>6. /\ words \in Seq(Word) /\ Len(words) = Len(under) + 18 /\ Len(under) \in Nat
      /\ \A i \in 1 .. Len(under) : words[i] = under[i]
      /\ \A i \in 1 .. 18 : words[Len(under) + i] = pushed[i]
  <2>1. PICK m \in Nat : Len(under) = m
    OBVIOUS
  <2>2. pushed \in Seq(Word) /\ Len(pushed) = 18 /\ 18 \in Nat /\ under \in Seq(Word)
    BY <1>5
  <2> HIDE DEF words
  <2>3. /\ under \o pushed \in Seq(Word) /\ Len(under \o pushed) = Len(under) + Len(pushed)
        /\ \A i \in 1 .. Len(under) : (under \o pushed)[i] = under[i]
        /\ \A i \in 1 .. Len(pushed) : (under \o pushed)[Len(under) + i] = pushed[i]
    BY <2>2, Joined
  <2>4. words = under \o pushed
    BY DEF words
  <2> QED
    BY <2>1, <2>2, <2>3, <2>4
<1> HIDE DEF words
<1>7. \A f \in Fields : Field(words, f) = Saves(f)
  <2> SUFFICES ASSUME NEW f \in Fields
               PROVE  Field(words, f) = Saves(f)
    OBVIOUS
  <2>1. PICK i \in 1 .. 18 : /\ i = IndexIn(Layout, f) /\ Layout[i] = f
                            /\ FieldAt(words, f) = Len(words) + 1 - i
    <3>1. Len(words) \in Nat
      BY <1>6
    <3> QED
      BY <3>1, FieldPlace
  <2>2. FieldAt(words, f) = Len(under) + (19 - i) /\ 19 - i \in 1 .. 18 /\ 19 - (19 - i) = i
    <3>1. Len(words) = Len(under) + 18 /\ Len(under) \in Nat
      BY <1>6
    <3>2. FieldAt(words, f) = Len(words) + 1 - i
      BY <2>1
    <3>3. PICK m \in Nat : m = Len(under)
      BY <3>1
    <3>4. m + 18 + 1 - i = m + (19 - i) /\ 19 - i \in 1 .. 18 /\ 19 - (19 - i) = i
      OBVIOUS
    <3> QED
      BY <3>1, <3>2, <3>3, <3>4
  <2>3. words[Len(under) + (19 - i)] = pushed[19 - i]
    BY <1>6, <2>2
  <2>4. pushed[19 - i] = Saves(Layout[i])
    BY <1>5, <2>2
  <2> QED
    BY <2>1, <2>2, <2>3, <2>4 DEF Field
<1>8. Field(words, "vector") = Val(v)
  BY <1>7 DEF Fields, Saves, StubOf
<1>9. [r \in Registers |-> Field(words, r)] = [cpu EXCEPT !.eip = eip]
  <2>1. \A r \in Registers : Field(words, r) = IF r = "eip" THEN eip ELSE cpu[r]
    BY <1>7 DEF Fields, Registers, Saves
  <2>2. [cpu EXCEPT !.eip = eip] = [r \in Registers |-> IF r = "eip" THEN eip ELSE cpu[r]]
    OBVIOUS
  <2> QED
    BY <2>1, <2>2
<1>10. WithoutContext(words) = under
  <2>1. Len(words) >= SIZE
    BY <1>6, Places
  <2>2. words \in Seq(Word) /\ Len(words) - 18 = Len(under)
    BY <1>6
  <2>3. /\ WithoutContext(words) \in Seq(Word)
        /\ Len(WithoutContext(words)) = Len(words) - 18
        /\ \A i \in 1 .. Len(words) - 18 : WithoutContext(words)[i] = words[i]
    BY <2>1, <2>2, ContextType
  <2>4. under \in Seq(Word) /\ Len(WithoutContext(words)) = Len(under)
    BY <2>2, <2>3
  <2>5. \A i \in 1 .. Len(under) : WithoutContext(words)[i] = under[i]
    BY <1>6, <2>2, <2>3
  <2> QED
    BY <2>3, <2>4, <2>5, SeqEqual
<1>11. InContext(words) = [regs |-> [cpu EXCEPT !.eip = eip], words |-> under]
  BY <1>9, <1>10 DEF InContext
<1> QED
  BY <1>6, <1>8, <1>11 DEF words, pushed

(* A handler that stores in a register of the context changes nothing else.*)
LEMMA StoredInContext ==
  ASSUME NEW words \in Seq(Word), Len(words) >= SIZE, NEW r \in Registers, NEW val \in Word
  PROVE  LET after == SetField(words, r, val)
         IN /\ after \in Seq(Word) /\ Len(after) = Len(words)
            /\ InContext(after) = [InContext(words) EXCEPT !.regs[r] = val]
<1> DEFINE after == SetField(words, r, val)
           at    == FieldAt(words, r)
<1>1. Len(words) \in Nat /\ Len(words) >= 18 /\ r \in Fields /\ SIZE = 18
  BY Places DEF Fields
<1>2. \A f \in Fields : FieldAt(words, f) \in Len(words) - 17 .. Len(words)
  BY ContextType
<1>3. at \in 1 .. Len(words) /\ at > Len(words) - 18
  BY <1>1, <1>2
<1>4. after = [words EXCEPT ![at] = val]
  BY DEF SetField
<1>5. \A f \in Fields : FieldAt(words, f) = at => f = r
  <2> SUFFICES ASSUME NEW f \in Fields, FieldAt(words, f) = at PROVE f = r
    OBVIOUS
  <2>1. PICK i \in 1 .. 18 : Layout[i] = f /\ FieldAt(words, f) = Len(words) + 1 - i
    BY <1>1, FieldPlace
  <2>2. PICK j \in 1 .. 18 : Layout[j] = r /\ FieldAt(words, r) = Len(words) + 1 - j
    BY <1>1, FieldPlace
  <2>3. Len(words) + 1 - i = Len(words) + 1 - j
    BY <2>1, <2>2
  <2>4. i = j
    BY <1>1, <2>3
  <2> QED
    BY <2>1, <2>2, <2>4
<1> HIDE DEF at
<1>6. /\ after \in Seq(Word) /\ Len(after) = Len(words)
      /\ \A i \in 1 .. Len(words) : after[i] = IF i = at THEN val ELSE words[i]
  BY <1>3, <1>4, ExceptSeq
<1> HIDE DEF after
<1>7. \A f \in Fields : Field(after, f) = IF f = r THEN val ELSE Field(words, f)
  <2> SUFFICES ASSUME NEW f \in Fields
               PROVE  Field(after, f) = IF f = r THEN val ELSE Field(words, f)
    OBVIOUS
  <2>1. FieldAt(after, f) = FieldAt(words, f) /\ FieldAt(words, f) \in 1 .. Len(words)
    BY <1>1, <1>2, <1>6 DEF FieldAt
  <2>2. FieldAt(words, f) = at <=> f = r
    BY <1>5 DEF at
  <2> QED
    BY <1>6, <2>1, <2>2 DEF Field
<1>8. [q \in Registers |-> Field(after, q)]
        = [[q \in Registers |-> Field(words, q)] EXCEPT ![r] = val]
  BY <1>7 DEF Fields
<1>9. WithoutContext(after) = WithoutContext(words)
  <2>1. /\ WithoutContext(words) \in Seq(Word)
        /\ Len(WithoutContext(words)) = Len(words) - 18
        /\ \A i \in 1 .. Len(words) - 18 : WithoutContext(words)[i] = words[i]
    BY ContextType
  <2>2. /\ WithoutContext(after) \in Seq(Word)
        /\ Len(WithoutContext(after)) = Len(words) - 18
        /\ \A i \in 1 .. Len(words) - 18 : WithoutContext(after)[i] = after[i]
    BY <1>6, ContextType
  <2>3. \A i \in 1 .. Len(words) - 18 : after[i] = words[i]
    BY <1>1, <1>3, <1>6
  <2> QED
    BY <2>1, <2>2, <2>3, SeqEqual
<1>10. InContext(after) = [InContext(words) EXCEPT !.regs[r] = val]
  <2>1. InContext(words) = [regs |-> [q \in Registers |-> Field(words, q)],
                            words |-> WithoutContext(words)]
    BY DEF InContext
  <2>2. InContext(after) = [regs |-> [q \in Registers |-> Field(after, q)],
                            words |-> WithoutContext(after)]
    BY DEF InContext
  <2>3. [InContext(words) EXCEPT !.regs[r] = val]
          = [regs |-> [InContext(words).regs EXCEPT ![r] = val],
             words |-> InContext(words).words]
    BY <2>1
  <2>4. /\ InContext(words).regs = [q \in Registers |-> Field(words, q)]
        /\ InContext(words).words = WithoutContext(words)
    BY <2>1
  <2> QED
    BY <1>8, <1>9, <2>2, <2>3, <2>4
<1> QED
  BY <1>6, <1>10 DEF after

(* _stk_setup.                                                             *)
LEMMA SetupContext ==
  ASSUME NEW entry \in Word, NEW arg \in Word
  PROVE  LET words == StkSetup(entry, arg)
         IN /\ words \in Seq(Word) /\ Len(words) = 21
            /\ InContext(words).regs \in [Registers -> Word]
            /\ InContext(words).regs.eip = entry /\ InContext(words).regs.ebp = Val(0)
            /\ InContext(words).words = <<Val(0), arg, Code("do_exit")>>
<1> DEFINE Initial(f) == CASE f = "eflags" -> Flags(TRUE)
                           [] f = "eip"    -> entry
                           [] f = "cs"     -> Val(16)
                           [] f = "ss"     -> Val(32)
                           [] f \in {"ds", "es", "fs", "gs"} -> Val(24)
                           [] OTHER        -> Val(0)
           under == <<Val(0), arg, Code("do_exit")>>
           fresh == [i \in 1 .. 18 |-> Initial(Layout[18 + 1 - i])]
           words == under \o fresh
<1>1. /\ Val(0) \in Word /\ Val(16) \in Word /\ Val(24) \in Word /\ Val(32) \in Word
      /\ Flags(TRUE) \in Word /\ Code("do_exit") \in Word
  <2>1. 0 \in Nat /\ 16 \in Nat /\ 24 \in Nat /\ 32 \in Nat
    OBVIOUS
  <2>2. TRUE \in BOOLEAN
    OBVIOUS
  <2>3. "do_exit" \in Labels
    BY DEF Labels
  <2> QED
    BY <2>1, <2>2, <2>3, Words
<1>2. \A f \in Fields : Initial(f) \in Word
  BY <1>1
<1>3. StkSetup(entry, arg) = words
  BY Places DEF StkSetup
<1>4. Initial("eip") = entry /\ Initial("ebp") = Val(0)
  OBVIOUS
<1>5. under \in Seq(Word) /\ Len(under) = 3
  BY <1>1
<1> HIDE DEF Initial, under
<1>6. \A i \in 1 .. 18 : 18 + 1 - i = 19 - i /\ 19 - i \in 1 .. 18
  OBVIOUS
<1>7. fresh \in [1 .. 18 -> Word]
  BY <1>2, <1>6, Places
<1>8. /\ fresh \in Seq(Word) /\ Len(fresh) = 18
      /\ \A i \in 1 .. 18 : fresh[i] = Initial(Layout[19 - i])
  <2>1. fresh \in Seq(Word) /\ Len(fresh) = 18
    BY <1>7, SeqDef, LenProperties
  <2>2. \A i \in 1 .. 18 : fresh[i] = Initial(Layout[19 - i])
    BY <1>6
  <2> QED
    BY <2>1, <2>2
<1> HIDE DEF fresh
<1>9. /\ words \in Seq(Word) /\ Len(words) = 21
      /\ \A i \in 1 .. 3 : words[i] = under[i]
      /\ \A i \in 1 .. 18 : words[3 + i] = fresh[i]
  <2>1. /\ under \in Seq(Word) /\ Len(under) = 3 /\ 3 \in Nat
        /\ fresh \in Seq(Word) /\ Len(fresh) = 18 /\ 18 \in Nat
    BY <1>5, <1>8
  <2> HIDE DEF words
  <2>2. /\ under \o fresh \in Seq(Word) /\ Len(under \o fresh) = Len(under) + Len(fresh)
        /\ \A i \in 1 .. Len(under) : (under \o fresh)[i] = under[i]
        /\ \A i \in 1 .. Len(fresh) : (under \o fresh)[Len(under) + i] = fresh[i]
    BY <2>1, Joined
  <2>3. words = under \o fresh
    BY DEF words
  <2>4. Len(under) = 3 /\ Len(fresh) = 18 /\ 3 + 18 = 21
    BY <2>1
  <2>5. words \in Seq(Word) /\ Len(words) = 3 + 18
    BY <2>2, <2>3, <2>4, Zenon
  <2>6. \A i \in 1 .. 3 : words[i] = under[i]
    BY <2>2, <2>3, <2>4, Zenon
  <2>7. \A i \in 1 .. 18 : words[3 + i] = fresh[i]
    BY <2>2, <2>3, <2>4, Zenon
  <2> QED
    BY <2>4, <2>5, <2>6, <2>7
<1> HIDE DEF words
<1>10. \A f \in Fields : Field(words, f) = Initial(f)
  <2> SUFFICES ASSUME NEW f \in Fields
               PROVE  Field(words, f) = Initial(f)
    OBVIOUS
  <2>1. PICK i \in 1 .. 18 : /\ i = IndexIn(Layout, f) /\ Layout[i] = f
                            /\ FieldAt(words, f) = Len(words) + 1 - i
    <3>1. Len(words) \in Nat
      BY <1>9
    <3> QED
      BY <3>1, FieldPlace
  <2>2. FieldAt(words, f) = 3 + (19 - i) /\ 19 - i \in 1 .. 18 /\ 19 - (19 - i) = i
    <3>1. Len(words) = 21
      BY <1>9
    <3>2. FieldAt(words, f) = Len(words) + 1 - i
      BY <2>1
    <3>3. 21 + 1 - i = 3 + (19 - i) /\ 19 - i \in 1 .. 18 /\ 19 - (19 - i) = i
      OBVIOUS
    <3> QED
      BY <3>1, <3>2, <3>3
  <2>3. words[3 + (19 - i)] = fresh[19 - i]
    BY <1>9, <2>2
  <2>4. fresh[19 - i] = Initial(Layout[i])
    BY <1>8, <2>2
  <2> QED
    BY <2>1, <2>2, <2>3, <2>4 DEF Field
<1>11. Len(words) >= SIZE
  BY <1>9, Places
<1>12. InContext(words).regs.eip = entry /\ InContext(words).regs.ebp = Val(0)
  BY <1>4, <1>10 DEF InContext, Fields, Registers
<1>13. WithoutContext(words) = under
  <2>1. words \in Seq(Word) /\ Len(words) - 18 = 3
    BY <1>9
  <2>2. /\ WithoutContext(words) \in Seq(Word)
        /\ Len(WithoutContext(words)) = Len(words) - 18
        /\ \A i \in 1 .. Len(words) - 18 : WithoutContext(words)[i] = words[i]
    BY <1>11, <2>1, ContextType
  <2> QED
    BY <1>5, <1>9, <2>1, <2>2, SeqEqual
<1>14. InContext(words).regs \in [Registers -> Word] /\ InContext(words).words = under
  BY <1>9, <1>11, <1>13, ContextType
<1> QED
  BY <1>3, <1>9, <1>12, <1>14 DEF under

-----------------------------------------------------------------------------
(* What the stub of a system call leaves on the stack: the arguments, the  *)
(* first on top, and the return address.                                   *)
OnTop(s, args, back) == s \o Reverse(args) \o <<back>>

(* Arguments and a return address, on top of what was there.               *)
LEMMA Invoked ==
  ASSUME NEW s \in Seq(Word), NEW args \in Seq(Word), NEW back \in Word
  PROVE  /\ OnTop(s, args, back) \in Seq(Word)
         /\ Len(OnTop(s, args, back)) = Len(s) + Len(args) + 1
         /\ \A i \in 1 .. Len(s) : OnTop(s, args, back)[i] = s[i]
         /\ \A i \in 1 .. Len(args) :
              OnTop(s, args, back)[Len(OnTop(s, args, back)) - i] = args[i]
         /\ OnTop(s, args, back)[Len(OnTop(s, args, back))] = back
<1> DEFINE after == OnTop(s, args, back)
           rev == Reverse(args)
           half == s \o rev
           top == <<back>>
<1>1. PICK m \in Nat, n \in Nat : m = Len(s) /\ n = Len(args)
  OBVIOUS
<1>2. rev = [i \in 1 .. n |-> args[(n - i) + 1]]
  BY <1>1 DEF Reverse
<1>3. \A i \in 1 .. n : (n - i) + 1 \in 1 .. n
  OBVIOUS
<1>4. \A i \in 1 .. n : args[i] \in Word
  BY <1>1
<1>5. rev \in [1 .. n -> Word]
  BY <1>2, <1>3, <1>4
<1>6. rev \in Seq(Word) /\ Len(rev) = n
  BY <1>5, WordSeq
<1>7. \A i \in 1 .. n : rev[i] = args[(n - i) + 1]
  BY <1>2
<1> HIDE DEF rev
<1>8. /\ half \in Seq(Word) /\ Len(half) = Len(s) + Len(rev)
      /\ \A i \in 1 .. Len(s) : half[i] = s[i]
      /\ \A i \in 1 .. Len(rev) : half[Len(s) + i] = rev[i]
  BY <1>6, Joined
<1>9. /\ half \in Seq(Word) /\ Len(half) = m + n
      /\ \A i \in 1 .. m : half[i] = s[i]
      /\ \A i \in 1 .. n : half[m + i] = rev[i]
  <2>1. half \in Seq(Word) /\ Len(half) = m + n
    BY <1>1, <1>6, <1>8
  <2>2. \A i \in 1 .. m : half[i] = s[i]
    BY <1>1, <1>8, Zenon
  <2>3. \A i \in 1 .. n : half[m + i] = rev[i]
    BY <1>1, <1>6, <1>8, Zenon
  <2> QED
    BY <2>1, <2>2, <2>3
<1>10. top \in Seq(Word) /\ Len(top) = 1 /\ top[1] = back
  OBVIOUS
<1> HIDE DEF half, top
<1>11. /\ half \o top \in Seq(Word) /\ Len(half \o top) = Len(half) + Len(top)
       /\ \A i \in 1 .. Len(half) : (half \o top)[i] = half[i]
       /\ \A i \in 1 .. Len(top) : (half \o top)[Len(half) + i] = top[i]
  BY <1>9, <1>10, Joined
<1>12. after = half \o top
  BY DEF half, top, rev, OnTop
<1> HIDE DEF after
<1>13. /\ after \in Seq(Word) /\ Len(after) = m + n + 1
  BY <1>9, <1>10, <1>11, <1>12
<1>14. \A i \in 1 .. m + n : after[i] = half[i]
  BY <1>9, <1>11, <1>12, Zenon
<1>15. after[m + n + 1] = back
  <2>1. 1 \in 1 .. 1
    OBVIOUS
  <2> QED
    BY <1>9, <1>10, <1>11, <1>12, <2>1, Zenon
<1>16. ASSUME NEW i \in 1 .. m PROVE after[i] = s[i]
  <2>1. i \in 1 .. m + n
    OBVIOUS
  <2> QED
    BY <1>9, <1>14, <2>1
<1>17. ASSUME NEW i \in 1 .. n PROVE after[m + n + 1 - i] = args[i]
  <2>1. PICK j \in 1 .. n : j = n + 1 - i
    OBVIOUS
  <2>2. m + n + 1 - i = m + j /\ m + j \in 1 .. m + n /\ (n - j) + 1 = i
    BY <2>1
  <2>3. half[m + j] = args[(n - j) + 1]
    BY <1>7, <1>9
  <2> QED
    BY <1>14, <2>2, <2>3
<1>18. Len(after) = m + n + 1
  BY <1>13
<1>19. ASSUME NEW i \in 1 .. n PROVE after[Len(after) - i] = args[i]
  <2>1. Len(after) - i = m + n + 1 - i
    BY <1>18
  <2> QED
    BY <1>17, <2>1
<1>20. after[Len(after)] = back
  BY <1>15, <1>18
<1> QED
  BY <1>1, <1>13, <1>16, <1>19, <1>20 DEF after

(* The frames of k functions are in the first words of a stack.            *)
LEMMA ChainKept ==
  ASSUME NEW p, NEW words, NEW after, NEW k \in Nat, Chain(p, words, k),
         after[3] = words[3], \A i \in 1 .. 3 * k + 1 : after[i] = words[i]
  PROVE  Chain(p, after, k)
<1>1. \A i \in 1 .. k : 3 * i + 1 \in 1 .. 3 * k + 1 /\ 3 * i \in 1 .. 3 * k + 1
  OBVIOUS
<1>2. \A i \in 1 .. k : after[3 * i + 1] = FrameOf(p, i - 1)
  BY <1>1 DEF Chain
<1>3. \A i \in 2 .. k : after[3 * i] = Code("body")
  <2>1. \A i \in 2 .. k : i \in 1 .. k
    OBVIOUS
  <2> QED
    BY <1>1, <2>1 DEF Chain
<1> QED
  BY <1>2, <1>3 DEF Chain

(* A frame pointer is a word, which points to the frame.                   *)
LEMMA FrameWord ==
  ASSUME NEW p \in Nat, NEW k \in Nat
  PROVE  /\ FrameOf(p, k) \in Word
         /\ k > 0 => FrameOf(p, k)[2] = p /\ FrameOf(p, k)[3] = 3 * k + 1
<1>1. 3 * k + 1 \in Nat /\ 0 \in Nat
  OBVIOUS
<1>2. Ptr(p, 3 * k + 1) \in Word /\ Val(0) \in Word
  BY <1>1, Words
<1> QED
  BY <1>1, <1>2, Words DEF FrameOf

(* A function that begins makes its frame.                                 *)
LEMMA BeginsWorks ==
  ASSUME NEW p \in Nat, NEW f, NEW g, NEW k \in Nat, f.words \in Seq(Word), f.regs.ebp \in Word,
         Begins(p, f, k), g.regs.ebp = Ptr(p, Len(f.words) + 1),
         g.words = f.words \o <<f.regs.ebp, Val(0)>>
  PROVE  Works(p, g, k + 1, 0) /\ g.words \in Seq(Word)
<1> DEFINE pushed == <<f.regs.ebp, Val(0)>>
<1>1. pushed \in Seq(Word) /\ Len(pushed) = 2 /\ pushed[1] = f.regs.ebp
  <2>1. 0 \in Nat
    OBVIOUS
  <2>2. Val(0) \in Word
    BY <2>1, Words
  <2> QED
    BY <2>2
<1>2. Len(f.words) = 3 * k + 3 /\ f.regs.ebp = FrameOf(p, k) /\ Chain(p, f.words, k)
  BY DEF Begins
<1>3. k > 0 => f.words[3 * k + 3] = Code("body")
  BY DEF Begins
<1> HIDE DEF pushed
<1>4. /\ f.words \o pushed \in Seq(Word) /\ Len(f.words \o pushed) = Len(f.words) + Len(pushed)
      /\ \A i \in 1 .. Len(f.words) : (f.words \o pushed)[i] = f.words[i]
      /\ \A i \in 1 .. Len(pushed) : (f.words \o pushed)[Len(f.words) + i] = pushed[i]
  BY <1>1, Joined
<1>5. g.words = f.words \o pushed
  BY DEF pushed
<1>6. \A i \in 1 .. 3 * k + 3 : g.words[i] = f.words[i]
  BY <1>2, <1>4, <1>5, Zenon
<1>7. g.words[3 * k + 4] = FrameOf(p, k)
  <2>1. 1 \in 1 .. 2 /\ 3 * k + 3 + 1 = 3 * k + 4
    OBVIOUS
  <2>2. g.words[3 * k + 3 + 1] = pushed[1]
    BY <1>1, <1>2, <1>4, <1>5, <2>1, Zenon
  <2> QED
    BY <1>1, <1>2, <2>1, <2>2
<1>8. Len(g.words) = 3 * (k + 1) + 2 + 0
  BY <1>1, <1>2, <1>4, <1>5
<1>9. g.regs.ebp = FrameOf(p, k + 1)
  BY <1>2 DEF FrameOf
<1>10. Chain(p, g.words, k + 1)
  <2>1. Chain(p, g.words, k)
    <3>1. 3 \in 1 .. 3 * k + 3 /\ \A i \in 1 .. 3 * k + 1 : i \in 1 .. 3 * k + 3
      OBVIOUS
    <3>2. g.words[3] = f.words[3] /\ \A i \in 1 .. 3 * k + 1 : g.words[i] = f.words[i]
      BY <1>6, <3>1
    <3> QED
      BY <1>2, <3>2, ChainKept
  <2>2. ASSUME NEW i \in 1 .. k + 1 PROVE g.words[3 * i + 1] = FrameOf(p, i - 1)
    <3>1. CASE i = k + 1
      <4>1. 3 * i + 1 = 3 * k + 4 /\ i - 1 = k
        BY <3>1
      <4> QED
        BY <1>7, <4>1
    <3>2. CASE i # k + 1
      <4>1. i \in 1 .. k
        BY <3>2
      <4> QED
        BY <2>1, <4>1 DEF Chain
    <3> QED
      BY <3>1, <3>2
  <2>3. ASSUME NEW i \in 2 .. k + 1 PROVE g.words[3 * i] = Code("body")
    <3>1. CASE i = k + 1
      <4>1. 3 * i = 3 * k + 3 /\ k > 0 /\ 3 * k + 3 \in 1 .. 3 * k + 3
        BY <3>1
      <4> QED
        BY <1>3, <1>6, <4>1
    <3>2. CASE i # k + 1
      <4>1. i \in 2 .. k
        BY <3>2
      <4> QED
        BY <2>1, <4>1 DEF Chain
    <3> QED
      BY <3>1, <3>2
  <2> QED
    BY <2>1, <2>2, <2>3 DEF Chain
<1>11. k + 1 > 0
  OBVIOUS
<1> QED
  BY <1>4, <1>5, <1>8, <1>9, <1>10, <1>11 DEF Works, Frames

(* A function calls another.                                               *)
LEMMA WorksCalls ==
  ASSUME NEW p \in Nat, NEW f, NEW g, NEW k \in Nat, f.words \in Seq(Word),
         Works(p, f, k, 0), g.regs.ebp = f.regs.ebp, g.words = Append(f.words, Code("body"))
  PROVE  Begins(p, g, k) /\ g.words \in Seq(Word)
<1>1. k > 0 /\ Len(f.words) = 3 * k + 2 /\ f.regs.ebp = FrameOf(p, k) /\ Chain(p, f.words, k)
  BY DEF Works, Frames
<1>2. Code("body") \in Word
  <2>1. "body" \in Labels
    BY DEF Labels
  <2> QED
    BY <2>1, Words
<1>3. /\ g.words \in Seq(Word) /\ Len(g.words) = Len(f.words) + 1
      /\ \A i \in 1 .. Len(f.words) : g.words[i] = f.words[i]
      /\ g.words[Len(f.words) + 1] = Code("body")
  BY <1>2, AppendProperties
<1>4. Len(g.words) = 3 * k + 3 /\ g.words[3 * k + 3] = Code("body")
  <2>1. 3 * k + 2 + 1 = 3 * k + 3
    OBVIOUS
  <2> QED
    BY <1>1, <1>3, <2>1
<1>5. g.words[3] = f.words[3] /\ \A i \in 1 .. 3 * k + 1 : g.words[i] = f.words[i]
  <2>1. 3 \in 1 .. 3 * k + 2 /\ \A i \in 1 .. 3 * k + 1 : i \in 1 .. 3 * k + 2
    BY <1>1
  <2> QED
    BY <1>1, <1>3, <2>1
<1>6. Chain(p, g.words, k)
  BY <1>1, <1>5, ChainKept
<1> QED
  BY <1>1, <1>3, <1>4, <1>6 DEF Begins

(* A function stores in its local word.                                    *)
LEMMA WorksStores ==
  ASSUME NEW p \in Nat, NEW f, NEW g, NEW k \in Nat, f.words \in Seq(Word),
         Works(p, f, k, 0), g.regs.ebp = f.regs.ebp,
         g.words = [f.words EXCEPT ![f.regs.ebp[3] + 1] = Val(1)]
  PROVE  Works(p, g, k, 0) /\ g.words \in Seq(Word)
<1>1. k > 0 /\ Len(f.words) = 3 * k + 2 /\ f.regs.ebp = FrameOf(p, k) /\ Chain(p, f.words, k)
  BY DEF Works, Frames
<1>2. f.regs.ebp[3] + 1 = 3 * k + 2
  <2>1. f.regs.ebp[3] = 3 * k + 1
    BY <1>1, FrameWord
  <2> QED
    BY <2>1
<1>3. Val(1) \in Word
  <2>1. 1 \in Nat
    OBVIOUS
  <2> QED
    BY <2>1, Words
<1>4. g.words = [f.words EXCEPT ![3 * k + 2] = Val(1)]
  BY <1>2
<1>5. /\ g.words \in Seq(Word) /\ Len(g.words) = 3 * k + 2
      /\ \A i \in 1 .. 3 * k + 2 : g.words[i] = IF i = 3 * k + 2 THEN Val(1) ELSE f.words[i]
  <2> DEFINE at == 3 * k + 2
             local == Val(1)
             s == f.words
             t == [s EXCEPT ![at] = local]
  <2>1. s \in Seq(Word) /\ at \in 1 .. Len(s) /\ local \in Word
    BY <1>1, <1>3
  <2>2. g.words = t /\ Len(s) = at
    BY <1>1, <1>4
  <2> HIDE DEF at, local, s
  <2>3. /\ t \in Seq(Word) /\ Len(t) = Len(s)
        /\ \A i \in 1 .. Len(s) : t[i] = IF i = at THEN local ELSE s[i]
    BY <2>1, ExceptSeq
  <2> HIDE DEF t
  <2>4. /\ g.words \in Seq(Word) /\ Len(g.words) = at
        /\ \A i \in 1 .. at : g.words[i] = IF i = at THEN local ELSE s[i]
    BY <2>2, <2>3
  <2> QED
    BY <2>4 DEF at, local, s
<1>6. g.words[3] = f.words[3] /\ \A i \in 1 .. 3 * k + 1 : g.words[i] = f.words[i]
  <2>1. 3 \in 1 .. 3 * k + 1 /\ \A i \in 1 .. 3 * k + 1 : i \in 1 .. 3 * k + 2 /\ i # 3 * k + 2
    BY <1>1
  <2> QED
    BY <1>5, <2>1
<1>7. Chain(p, g.words, k)
  BY <1>1, <1>6, ChainKept
<1> QED
  BY <1>1, <1>5, <1>7 DEF Works, Frames

(* A function returns: to the one that called it, or to do_exit().         *)
LEMMA WorksReturns ==
  ASSUME NEW p \in Nat, NEW f, NEW g, NEW k \in Nat, f.words \in Seq(Word),
         Works(p, f, k, 0),
         g.regs.ebp = f.words[f.regs.ebp[3]], g.regs.eip = f.words[f.regs.ebp[3] - 1],
         g.words = SubSeq(f.words, 1, f.regs.ebp[3] - 2)
  PROVE  /\ g.words \in Seq(Word)
         /\ \/ /\ g.regs.eip = Code("body") /\ k - 1 \in Nat /\ Works(p, g, k - 1, 0)
            \/ g.regs.eip = Code("do_exit") /\ Len(g.words) = 2 /\ g.regs.ebp = Val(0)
<1>1. k > 0 /\ Len(f.words) = 3 * k + 2 /\ f.regs.ebp = FrameOf(p, k) /\ Chain(p, f.words, k)
  BY DEF Works, Frames
<1> DEFINE frame == f.regs.ebp[3]
<1>2. frame = 3 * k + 1
  BY <1>1, FrameWord
<1>3. PICK n \in Nat : n = 3 * k - 1 /\ n <= 3 * k + 2
  BY <1>1
<1>4. frame - 1 = 3 * k /\ frame - 2 = n
  BY <1>2, <1>3
<1>5. /\ g.words \in Seq(Word) /\ Len(g.words) = n
      /\ \A i \in 1 .. n : g.words[i] = f.words[i]
  <2>1. n <= Len(f.words)
    BY <1>1, <1>3
  <2>2. /\ SubSeq(f.words, 1, n) \in Seq(Word) /\ Len(SubSeq(f.words, 1, n)) = n
        /\ \A i \in 1 .. n : SubSeq(f.words, 1, n)[i] = f.words[i]
    BY <2>1, First
  <2> QED
    BY <1>4, <2>2
<1>6. g.regs.ebp = FrameOf(p, k - 1)
  <2>1. k \in 1 .. k
    BY <1>1
  <2> QED
    BY <1>1, <1>2, <2>1 DEF Chain
<1>7. CASE k = 1
  <2>1. n = 2 /\ 3 * k = 3
    BY <1>3, <1>7
  <2>2. g.regs.eip = Code("do_exit")
    BY <1>1, <1>4, <2>1 DEF Chain
  <2>3. g.regs.ebp = Val(0)
    BY <1>6, <1>7 DEF FrameOf
  <2> QED
    BY <1>5, <2>1, <2>2, <2>3
<1>8. CASE k # 1
  <2>1. PICK j \in Nat : j = k - 1 /\ j > 0 /\ k \in 2 .. k /\ n = 3 * j + 2
    BY <1>1, <1>3, <1>8
  <2>2. g.regs.eip = Code("body")
    BY <1>1, <1>4, <2>1 DEF Chain
  <2>3. Chain(p, f.words, j)
    <3>1. (\A i \in 1 .. j : i \in 1 .. k) /\ (\A i \in 2 .. j : i \in 2 .. k)
      BY <2>1
    <3> QED
      BY <1>1, <3>1 DEF Chain
  <2>4. g.words[3] = f.words[3] /\ \A i \in 1 .. 3 * j + 1 : g.words[i] = f.words[i]
    <3>1. 3 \in 1 .. 3 * j + 2 /\ \A i \in 1 .. 3 * j + 1 : i \in 1 .. 3 * j + 2
      BY <2>1
    <3> QED
      BY <1>5, <2>1, <3>1
  <2>5. Chain(p, g.words, j)
    BY <2>3, <2>4, ChainKept
  <2>6. Works(p, g, j, 0)
    BY <1>5, <1>6, <2>1, <2>5 DEF Works, Frames
  <2> QED
    BY <1>5, <2>1, <2>2, <2>6
<1> QED
  BY <1>7, <1>8

(* A function that makes a call has the arguments and the return address   *)
(* above its frame, until it gets the answer.                              *)
LEMMA FramesInvoke ==
  ASSUME NEW p, NEW f, NEW g, NEW k \in Nat, NEW n \in Nat,
         Frames(p, f, k, 0), g.regs.ebp = f.regs.ebp, Len(g.words) = Len(f.words) + n,
         \A i \in 1 .. Len(f.words) : g.words[i] = f.words[i]
  PROVE  /\ Frames(p, g, k, n) /\ k \in 0 .. Len(g.words)
         /\ Chain(p, f.words, k) => Chain(p, g.words, k)
<1>1. k > 0 /\ Len(f.words) = 3 * k + 2 /\ f.regs.ebp = FrameOf(p, k)
  BY DEF Frames
<1>2. Len(g.words) = 3 * k + 2 + n /\ k \in 0 .. 3 * k + 2 + n
  BY <1>1
<1>3. Frames(p, g, k, n)
  BY <1>1, <1>2 DEF Frames
<1>4. g.words[3] = f.words[3] /\ \A i \in 1 .. 3 * k + 1 : g.words[i] = f.words[i]
  <2>1. 3 \in 1 .. 3 * k + 2 /\ \A i \in 1 .. 3 * k + 1 : i \in 1 .. 3 * k + 2
    BY <1>1
  <2> QED
    BY <1>1, <2>1
<1>5. Chain(p, f.words, k) => Chain(p, g.words, k)
  BY <1>4, ChainKept
<1> QED
  BY <1>2, <1>3, <1>5

(* The stub's ret and the caller's add leave the function where it was.    *)
LEMMA FramesAnswered ==
  ASSUME NEW p \in Nat, NEW f, NEW g, NEW k \in Nat, NEW n \in Nat, f.words \in Seq(Word),
         Frames(p, f, k, n), g.regs.ebp = f.regs.ebp,
         g.words = SubSeq(f.words, 1, f.regs.ebp[3] + 1)
  PROVE  /\ g.words \in Seq(Word) /\ Frames(p, g, k, 0) /\ k \in 0 .. Len(g.words)
         /\ Chain(p, f.words, k) => Chain(p, g.words, k)
<1>1. k > 0 /\ Len(f.words) = 3 * k + 2 + n /\ f.regs.ebp = FrameOf(p, k)
  BY DEF Frames
<1>2. PICK m \in Nat : m = 3 * k + 2 /\ m <= 3 * k + 2 + n
  OBVIOUS
<1>3. f.regs.ebp[3] + 1 = m
  <2>1. f.regs.ebp[3] = 3 * k + 1
    BY <1>1, FrameWord
  <2> QED
    BY <1>2, <2>1
<1>4. /\ g.words \in Seq(Word) /\ Len(g.words) = m
      /\ \A i \in 1 .. m : g.words[i] = f.words[i]
  <2>1. m <= Len(f.words)
    BY <1>1, <1>2
  <2>2. /\ SubSeq(f.words, 1, m) \in Seq(Word) /\ Len(SubSeq(f.words, 1, m)) = m
        /\ \A i \in 1 .. m : SubSeq(f.words, 1, m)[i] = f.words[i]
    BY <2>1, First
  <2> QED
    BY <1>3, <2>2
<1>5. Frames(p, g, k, 0) /\ k \in 0 .. Len(g.words)
  BY <1>1, <1>2, <1>4 DEF Frames
<1>6. g.words[3] = f.words[3] /\ \A i \in 1 .. 3 * k + 1 : g.words[i] = f.words[i]
  <2>1. 3 \in 1 .. m /\ \A i \in 1 .. 3 * k + 1 : i \in 1 .. m
    BY <1>1, <1>2
  <2> QED
    BY <1>4, <2>1
<1>7. Chain(p, f.words, k) => Chain(p, g.words, k)
  BY <1>6, ChainKept
<1> QED
  BY <1>4, <1>5, <1>7

(* Each label is where one thing is so.                                    *)
LEMMA BehavesAt ==
  ASSUME NEW p, NEW f, Behaves(p, f)
  PROVE  /\ f.regs.eip \in {Code("entry"), Code("spawn0")} =>
              \E k \in 0 .. Len(f.words) : Begins(p, f, k)
         /\ f.regs.eip \in {Code("body"), Code("spawn")} =>
              \E k \in 0 .. Len(f.words) : Works(p, f, k, 0)
         /\ f.regs.eip = Code("forked") =>
              \E k \in 0 .. Len(f.words) :
                Frames(p, f, k, 0) /\ (f.regs.eax # Val(0) => Chain(p, f.words, k))
         /\ f.regs.eip = Code("do_exit") =>
              Len(f.words) = 2 /\ f.regs.eax = RESULT /\ f.regs.ebp = Val(0)
         /\ f.regs.eip = Code("int") => Call(p, f)
         /\ f.regs.eip = Code("ret") => Answered(p, f)
<1> DEFINE eip == f.regs.eip
<1>1. \E k \in 0 .. Len(f.words) :
        \/ eip \in {Code("entry"), Code("spawn0")} /\ Begins(p, f, k)
        \/ eip \in {Code("body"), Code("spawn")} /\ Works(p, f, k, 0)
        \/ /\ eip = Code("forked") /\ Frames(p, f, k, 0)
           /\ f.regs.eax # Val(0) => Chain(p, f.words, k)
        \/ /\ eip = Code("do_exit") /\ Len(f.words) = 2
           /\ f.regs.eax = RESULT /\ f.regs.ebp = Val(0)
        \/ eip = Code("int") /\ Call(p, f)
        \/ eip = Code("ret") /\ Answered(p, f)
  BY DEF Behaves
<1>2. /\ ~ (eip \in {Code("entry"), Code("spawn0")} /\ eip \in {Code("body"), Code("spawn")})
      /\ eip \in {Code("entry"), Code("spawn0")} =>
           eip \notin {Code("forked"), Code("do_exit"), Code("int"), Code("ret")}
      /\ eip \in {Code("body"), Code("spawn")} =>
           eip \notin {Code("forked"), Code("do_exit"), Code("int"), Code("ret")}
      /\ eip = Code("forked") => eip \notin {Code("do_exit"), Code("int"), Code("ret")}
      /\ eip = Code("do_exit") => eip \notin {Code("int"), Code("ret")}
      /\ eip = Code("int") => eip # Code("ret")
  BY DEF Code
<1> HIDE DEF eip
<1>3. PICK k \in 0 .. Len(f.words) :
        \/ eip \in {Code("entry"), Code("spawn0")} /\ Begins(p, f, k)
        \/ eip \in {Code("body"), Code("spawn")} /\ Works(p, f, k, 0)
        \/ /\ eip = Code("forked") /\ Frames(p, f, k, 0)
           /\ f.regs.eax # Val(0) => Chain(p, f.words, k)
        \/ /\ eip = Code("do_exit") /\ Len(f.words) = 2
           /\ f.regs.eax = RESULT /\ f.regs.ebp = Val(0)
        \/ eip = Code("int") /\ Call(p, f)
        \/ eip = Code("ret") /\ Answered(p, f)
  BY <1>1
<1>4. eip \in {Code("entry"), Code("spawn0")} => \E i \in 0 .. Len(f.words) : Begins(p, f, i)
  BY <1>2, <1>3
<1>5. eip \in {Code("body"), Code("spawn")} => \E i \in 0 .. Len(f.words) : Works(p, f, i, 0)
  BY <1>2, <1>3
<1>6. eip = Code("forked") =>
        \E i \in 0 .. Len(f.words) :
           Frames(p, f, i, 0) /\ (f.regs.eax # Val(0) => Chain(p, f.words, i))
  BY <1>2, <1>3
<1>7. /\ eip = Code("do_exit") =>
              Len(f.words) = 2 /\ f.regs.eax = RESULT /\ f.regs.ebp = Val(0)
      /\ eip = Code("int") => Call(p, f)
      /\ eip = Code("ret") => Answered(p, f)
  BY <1>2, <1>3
<1> QED
  BY <1>4, <1>5, <1>6, <1>7 DEF eip

(* The words that programs use.                                            *)
LEMMA SmallWords == RESULT \in Word /\ \A n \in Nat : Val(n) \in Word
BY Words DEF RESULT

(* Instructions that change a register or two.                             *)
LEMMA SetEip ==
  ASSUME NEW regs \in [Registers -> Word], NEW a \in Word
  PROVE  /\ [regs EXCEPT !.eip = a] \in [Registers -> Word]
         /\ [regs EXCEPT !.eip = a].eip = a
         /\ [regs EXCEPT !.eip = a].ebp = regs.ebp
         /\ [regs EXCEPT !.eip = a].eax = regs.eax
<1>1. "eip" \in Registers /\ "ebp" \in Registers /\ "eax" \in Registers
  BY DEF Registers
<1> QED
  BY <1>1

Framed(regs, ebp, eip) ==
  [r \in Registers |->
    CASE r \in DOMAIN Working -> Working[r]
      [] r = "ebp" -> ebp
      [] r = "eip" -> eip
      [] OTHER     -> regs[r]]

(* The registers when a function begins.                                   *)
LEMMA PrologueRegisters ==
  ASSUME NEW regs \in [Registers -> Word], NEW a \in Word, NEW c \in Word
  PROVE  /\ Framed(regs, c, a) \in [Registers -> Word]
         /\ Framed(regs, c, a).eip = a /\ Framed(regs, c, a).ebp = c
<1> DEFINE after == Framed(regs, c, a)
           own == {"ecx", "edx", "ebx", "esi", "edi"}
<1>1. "eip" \in Registers /\ "ebp" \in Registers
  BY DEF Registers
<1>2. DOMAIN Working = own
  BY DEF Working
<1>3. \A r \in own : Working[r] \in Word
  <2>1. 11 \in Nat /\ 12 \in Nat /\ 13 \in Nat /\ 14 \in Nat /\ 15 \in Nat
    OBVIOUS
  <2>2. Val(11) \in Word /\ Val(12) \in Word /\ Val(13) \in Word /\ Val(14) \in Word /\ Val(15) \in Word
    BY <2>1, Words
  <2> QED
    BY <2>2 DEF Working
<1>4. "eip" \notin own /\ "ebp" \notin own /\ "ebp" # "eip"
  OBVIOUS
<1> HIDE DEF own
<1>5. after = [r \in Registers |-> after[r]]
  BY DEF Framed
<1>6. \A r \in Registers :
        /\ r \in own => after[r] = Working[r]
        /\ r = "ebp" => after[r] = c
        /\ r = "eip" => after[r] = a
        /\ r \notin own /\ r # "ebp" /\ r # "eip" => after[r] = regs[r]
  BY <1>2, <1>4 DEF Framed
<1> HIDE DEF after
<1>7. \A r \in Registers : after[r] \in Word
  BY <1>3, <1>6
<1> QED
  BY <1>1, <1>5, <1>6, <1>7 DEF after

-----------------------------------------------------------------------------
(* The steps of a program that behaves.                                    *)

Running == [regs |-> cpu, words |-> stack[current]]
After   == [regs |-> cpu', words |-> stack'[current]]

UserAt == Types /\ mode = "user" /\ Behaves(current, Running)

(* Nothing but the registers and the stack of the running program changes, *)
(* and it still behaves.                                                   *)
StillBehaves ==
  /\ cpu' \in [Registers -> Word] /\ stack'[current] \in Seq(Word)
  /\ stack' = [stack EXCEPT ![current] = stack'[current]]
  /\ Behaves(current, After)
  /\ UNCHANGED <<context, current, live, mode, vector, master, slave, status>>

(* What a program that runs has.                                           *)
LEMMA UserTypes ==
  ASSUME UserAt
  PROVE  /\ current \in Nat /\ current \in Process /\ current # 0
         /\ cpu \in [Registers -> Word] /\ stack[current] \in Seq(Word)
         /\ Running.regs = cpu /\ Running.words = stack[current]
         /\ cpu.ebp \in Word /\ cpu.eax \in Word
<1>1. current \in Process
  BY DEF UserAt, Types
<1>2. current \in Nat /\ current # 0
  BY <1>1, MachineConstants
<1>3. stack[current] \in Seq(Word) /\ cpu \in [Registers -> Word]
  BY <1>1 DEF UserAt, Types
<1>4. cpu.ebp \in Word /\ cpu.eax \in Word
  BY <1>3 DEF Registers
<1> QED
  BY <1>1, <1>2, <1>3, <1>4 DEF Running

(* What a step of a program changes.                                       *)
LEMMA Stepped ==
  ASSUME UserAt, NEW r, NEW w, Step(r, w)
  PROVE  /\ cpu' = r /\ stack'[current] = w /\ After = [regs |-> r, words |-> w]
         /\ After.regs = r /\ After.words = w
         /\ stack' = [stack EXCEPT ![current] = stack'[current]]
         /\ UNCHANGED <<context, current, live, mode, vector, master, slave, status>>
<1>1. /\ cpu' = r /\ stack' = [stack EXCEPT ![current] = w]
      /\ UNCHANGED <<context, current, live, mode, vector, master, slave, status>>
  BY DEF Step
<1>2. current \in DOMAIN stack
  BY DEF UserAt, Types
<1>3. stack'[current] = w
  BY <1>1, <1>2
<1> QED
  BY <1>1, <1>3 DEF After

(* A function begins: it has one frame more.                               *)
LEMMA PrologueKeeps ==
  ASSUME UserAt, NEW from, NEW to,
         \/ from = "entry" /\ to = "body"
         \/ from = "spawn0" /\ to = "spawn",
         Prologue(from, to)
  PROVE  StillBehaves
<1> DEFINE regs == Framed(cpu, Ptr(current, Len(here) + 1), Code(to))
           words == here \o <<cpu.ebp, Val(0)>>
<1>1. Step(regs, words) /\ cpu.eip = Code(from)
  BY DEF Prologue, At, Framed
<1>2. /\ current \in Nat /\ cpu \in [Registers -> Word] /\ stack[current] \in Seq(Word)
      /\ Running.regs = cpu /\ Running.words = stack[current] /\ cpu.ebp \in Word
  BY UserTypes
<1>3. PICK k \in 0 .. Len(stack[current]) : Begins(current, Running, k)
  <2>1. Running.regs.eip \in {Code("entry"), Code("spawn0")}
    BY <1>1, <1>2
  <2>2. Behaves(current, Running)
    BY DEF UserAt
  <2> QED
    BY <1>2, <2>1, <2>2, BehavesAt
<1>4. Code(to) \in Word /\ Ptr(current, Len(here) + 1) \in Word
  <2>1. to \in Labels
    BY DEF Labels
  <2>2. Len(here) + 1 \in Nat
    BY <1>2 DEF here
  <2> QED
    BY <1>2, <2>1, <2>2, Words
<1>5. /\ regs \in [Registers -> Word] /\ regs.eip = Code(to)
      /\ regs.ebp = Ptr(current, Len(here) + 1)
  BY <1>2, <1>4, PrologueRegisters
<1> HIDE DEF regs, words
<1>6. /\ cpu' = regs /\ stack'[current] = words /\ After.regs = regs /\ After.words = words
      /\ stack' = [stack EXCEPT ![current] = stack'[current]]
      /\ UNCHANGED <<context, current, live, mode, vector, master, slave, status>>
  BY <1>1, Stepped
<1>7. Works(current, After, k + 1, 0) /\ words \in Seq(Word)
  <2>1. After.regs.ebp = Ptr(current, Len(Running.words) + 1)
    BY <1>2, <1>5, <1>6 DEF here
  <2>2. After.words = Running.words \o <<Running.regs.ebp, Val(0)>>
    BY <1>2, <1>6 DEF here, words
  <2>3. k \in Nat /\ Running.words \in Seq(Word) /\ Running.regs.ebp \in Word
    BY <1>2
  <2>4. Works(current, After, k + 1, 0) /\ After.words \in Seq(Word)
    BY <1>2, <1>3, <2>1, <2>2, <2>3, BeginsWorks
  <2> QED
    BY <1>6, <2>4
<1>8. k + 1 \in 0 .. Len(After.words)
  BY <1>7 DEF Works, Frames
<1>9. Behaves(current, After)
  <2>1. After.regs.eip \in {Code("body"), Code("spawn")}
    BY <1>5, <1>6
  <2> QED
    BY <1>7, <1>8, <2>1 DEF Behaves
<1> QED
  BY <1>5, <1>6, <1>7, <1>9 DEF StillBehaves

(* A call: the callee is about to begin.                                   *)
LEMMA CallsKeeps ==
  ASSUME UserAt, NEW function, function \in {"entry", "spawn0"}, Calls(function)
  PROVE  StillBehaves
<1> DEFINE regs  == [cpu EXCEPT !.eip = Code(function)]
           words == Append(here, Code("body"))
<1>1. Step(regs, words) /\ cpu.eip = Code("body")
  BY DEF Calls, At
<1>2. /\ current \in Nat /\ cpu \in [Registers -> Word] /\ stack[current] \in Seq(Word)
      /\ Running.regs = cpu /\ Running.words = stack[current] /\ cpu.eax \in Word
  BY UserTypes
<1>3. PICK k \in 0 .. Len(stack[current]) : Works(current, Running, k, 0)
  <2>1. Running.regs.eip \in {Code("body"), Code("spawn")}
    BY <1>1, <1>2
  <2>2. Behaves(current, Running)
    BY DEF UserAt
  <2> QED
    BY <1>2, <2>1, <2>2, BehavesAt
<1>4. Code(function) \in Word
  <2>1. function \in Labels
    BY DEF Labels
  <2> QED
    BY <2>1, Words
<1>5. regs \in [Registers -> Word] /\ regs.eip = Code(function) /\ regs.ebp = cpu.ebp
  BY <1>2, <1>4, SetEip
<1> HIDE DEF regs, words
<1>6. /\ cpu' = regs /\ stack'[current] = words /\ After.regs = regs /\ After.words = words
      /\ stack' = [stack EXCEPT ![current] = stack'[current]]
      /\ UNCHANGED <<context, current, live, mode, vector, master, slave, status>>
  BY <1>1, Stepped
<1>7. Begins(current, After, k) /\ words \in Seq(Word)
  <2>1. After.regs.ebp = Running.regs.ebp
    BY <1>2, <1>5, <1>6
  <2>2. After.words = Append(Running.words, Code("body"))
    BY <1>2, <1>6 DEF here, words
  <2>3. k \in Nat /\ Running.words \in Seq(Word)
    BY <1>2
  <2>4. Begins(current, After, k) /\ After.words \in Seq(Word)
    BY <1>2, <1>3, <2>1, <2>2, <2>3, WorksCalls
  <2> QED
    BY <1>6, <2>4
<1>8. k \in 0 .. Len(After.words)
  BY <1>7 DEF Begins
<1>9. Behaves(current, After)
  <2>1. After.regs.eip \in {Code("entry"), Code("spawn0")}
    BY <1>5, <1>6
  <2> QED
    BY <1>7, <1>8, <2>1 DEF Behaves
<1> QED
  BY <1>5, <1>6, <1>7, <1>9 DEF StillBehaves

(* A store to a local is above the frame, and breaks no chain.             *)
LEMMA StoreLocalKeeps ==
  ASSUME UserAt, StoreLocal
  PROVE  StillBehaves
<1>1. /\ stack' = [stack EXCEPT ![cpu.ebp[2]][cpu.ebp[3] + 1] = Val(1)] /\ cpu.eip = Code("body")
      /\ UNCHANGED <<cpu, context, current, live, mode, vector, master, slave, status>>
  BY DEF StoreLocal, At
<1>2. /\ current \in Nat /\ cpu \in [Registers -> Word] /\ stack[current] \in Seq(Word)
      /\ Running.regs = cpu /\ Running.words = stack[current] /\ current \in Process
  BY UserTypes
<1>3. PICK k \in 0 .. Len(stack[current]) : Works(current, Running, k, 0)
  <2>1. Running.regs.eip \in {Code("body"), Code("spawn")}
    BY <1>1, <1>2
  <2>2. Behaves(current, Running)
    BY DEF UserAt
  <2> QED
    BY <1>2, <2>1, <2>2, BehavesAt
<1>4. cpu.ebp[2] = current
  <2>1. k \in Nat /\ k > 0 /\ cpu.ebp = FrameOf(current, k)
    BY <1>2, <1>3 DEF Works, Frames
  <2> QED
    BY <1>2, <2>1, FrameWord
<1>5. /\ stack'[current] = [stack[current] EXCEPT ![cpu.ebp[3] + 1] = Val(1)]
      /\ stack' = [stack EXCEPT ![current] = stack'[current]]
  <2>1. current \in DOMAIN stack
    BY DEF UserAt, Types
  <2>2. stack' = [stack EXCEPT ![current] = [stack[current] EXCEPT ![cpu.ebp[3] + 1] = Val(1)]]
    BY <1>1, <1>4
  <2> QED
    BY <2>1, <2>2
<1>6. After.regs = cpu /\ After.words = stack'[current] /\ cpu' = cpu
  BY <1>1 DEF After
<1>7. Works(current, After, k, 0) /\ After.words \in Seq(Word)
  <2>1. After.regs.ebp = Running.regs.ebp
    BY <1>2, <1>6
  <2>2. After.words = [Running.words EXCEPT ![Running.regs.ebp[3] + 1] = Val(1)]
    BY <1>2, <1>5, <1>6
  <2>3. k \in Nat /\ Running.words \in Seq(Word)
    BY <1>2
  <2> QED
    BY <1>2, <1>3, <2>1, <2>2, <2>3, WorksStores
<1>8. k \in 0 .. Len(After.words)
  BY <1>7 DEF Works, Frames
<1>9. Behaves(current, After)
  <2>1. After.regs.eip \in {Code("body"), Code("spawn")}
    BY <1>1, <1>6
  <2> QED
    BY <1>7, <1>8, <2>1 DEF Behaves
<1> QED
  BY <1>1, <1>2, <1>5, <1>6, <1>7, <1>9 DEF StillBehaves

(* A return, to the caller or, from the last function, to do_exit().       *)
LEMMA ReturnsKeeps ==
  ASSUME UserAt, Returns
  PROVE  StillBehaves
<1> DEFINE frame == cpu.ebp[3]
           regs  == [cpu EXCEPT !.ebp = here[frame], !.eip = here[frame - 1], !.eax = RESULT]
           words == SubSeq(here, 1, frame - 2)
<1>1. /\ Step(regs, words)
      /\ cpu.eip = Code("body") \/ (cpu.eip = Code("forked") /\ cpu.eax # Val(0))
  BY DEF Returns, At
<1>2. /\ current \in Nat /\ cpu \in [Registers -> Word] /\ stack[current] \in Seq(Word)
      /\ Running.regs = cpu /\ Running.words = stack[current] /\ current \in Process
  BY UserTypes
<1>3. PICK k \in 0 .. Len(stack[current]) : Works(current, Running, k, 0)
  <2>1. Behaves(current, Running)
    BY DEF UserAt
  <2>2. CASE cpu.eip = Code("body")
    BY <1>2, <2>1, <2>2, BehavesAt
  <2>3. CASE cpu.eip = Code("forked") /\ cpu.eax # Val(0)
    <3>1. \E k \in 0 .. Len(stack[current]) :
             /\ Frames(current, Running, k, 0)
             /\ cpu.eax # Val(0) => Chain(current, stack[current], k)
      BY <1>2, <2>1, <2>3, BehavesAt
    <3> QED
      BY <1>2, <2>3, <3>1 DEF Works
  <2> QED
    BY <1>1, <2>2, <2>3
<1>4. k \in Nat /\ k > 0 /\ Len(here) = 3 * k + 2 /\ frame = 3 * k + 1
  <2>1. k \in Nat /\ k > 0 /\ Len(here) = 3 * k + 2 + 0 /\ cpu.ebp = FrameOf(current, k)
    BY <1>2, <1>3 DEF Works, Frames, here
  <2> QED
    BY <1>2, <2>1, FrameWord
<1>5. here[frame] \in Word /\ here[frame - 1] \in Word /\ RESULT \in Word
  <2>1. frame \in 1 .. Len(here) /\ frame - 1 \in 1 .. Len(here)
    BY <1>4
  <2>2. \A i \in 1 .. Len(here) : here[i] \in Word
    BY <1>2 DEF here
  <2> QED
    BY <2>1, <2>2, SmallWords
<1>6. /\ regs \in [Registers -> Word] /\ regs.eip = here[frame - 1] /\ regs.ebp = here[frame]
      /\ regs.eax = RESULT
  <2> DEFINE a == here[frame - 1]
             c == here[frame]
             set == [cpu EXCEPT !.ebp = c, !.eip = a, !.eax = RESULT]
  <2>1. a \in Word /\ c \in Word /\ RESULT \in Word /\ cpu \in [Registers -> Word]
    BY <1>2, <1>5
  <2> HIDE DEF a, c
  <2>2. set \in [Registers -> Word] /\ set.eip = a /\ set.ebp = c /\ set.eax = RESULT
    <3>1. "eip" \in Registers /\ "ebp" \in Registers /\ "eax" \in Registers
      BY DEF Registers
    <3> QED
      BY <2>1, <3>1
  <2> QED
    BY <2>2 DEF a, c
<1> HIDE DEF regs, words
<1>7. /\ cpu' = regs /\ stack'[current] = words /\ After.regs = regs /\ After.words = words
      /\ stack' = [stack EXCEPT ![current] = stack'[current]]
      /\ UNCHANGED <<context, current, live, mode, vector, master, slave, status>>
  BY <1>1, Stepped
<1>8. /\ After.words \in Seq(Word)
      /\ \/ /\ After.regs.eip = Code("body") /\ k - 1 \in Nat /\ Works(current, After, k - 1, 0)
         \/ After.regs.eip = Code("do_exit") /\ Len(After.words) = 2 /\ After.regs.ebp = Val(0)
  <2>1. After.regs.ebp = Running.words[Running.regs.ebp[3]]
    BY <1>2, <1>6, <1>7 DEF here
  <2>2. After.regs.eip = Running.words[Running.regs.ebp[3] - 1]
    BY <1>2, <1>6, <1>7 DEF here
  <2>3. After.words = SubSeq(Running.words, 1, Running.regs.ebp[3] - 2)
    BY <1>2, <1>7 DEF here, words
  <2>4. Running.words \in Seq(Word)
    BY <1>2
  <2> QED
    BY <1>2, <1>3, <1>4, <2>1, <2>2, <2>3, <2>4, WorksReturns
<1>9. Behaves(current, After)
  <2>1. CASE After.regs.eip = Code("body") /\ k - 1 \in Nat /\ Works(current, After, k - 1, 0)
    <3>1. k - 1 \in 0 .. Len(After.words)
      BY <1>4, <2>1 DEF Works, Frames
    <3> QED
      BY <2>1, <3>1 DEF Behaves
  <2>2. CASE After.regs.eip = Code("do_exit") /\ Len(After.words) = 2 /\ After.regs.ebp = Val(0)
    <3>1. After.regs.eax = RESULT /\ 0 \in 0 .. Len(After.words)
      BY <1>6, <1>7, <2>2
    <3> QED
      BY <2>2, <3>1 DEF Behaves
  <2> QED
    BY <1>8, <2>1, <2>2
<1> QED
  BY <1>6, <1>7, <1>8, <1>9 DEF StillBehaves

(* The stub of a system call: the program behaves if the call is one.      *)
LEMMA InvokesKeeps ==
  ASSUME UserAt, NEW name \in Labels, NEW back \in Labels, NEW args \in Seq(Word),
         Invokes(name, args, back)
  PROVE  /\ After.regs.eax = Code(name) /\ After.regs.ebp = Running.regs.ebp
         /\ After.words = OnTop(Running.words, args, Code(back))
         /\ After.words \in Seq(Word)
         /\ Len(After.words) = Len(stack[current]) + Len(args) + 1
         /\ Call(current, After) => StillBehaves
<1> DEFINE regs  == [cpu EXCEPT !.eax = Code(name), !.eip = Code("int")]
           words == OnTop(here, args, Code(back))
<1>1. Step(regs, words)
  BY DEF Invokes, OnTop
<1>2. /\ cpu \in [Registers -> Word] /\ stack[current] \in Seq(Word)
      /\ Running.regs = cpu /\ Running.words = stack[current]
  BY UserTypes
<1>3. Code(name) \in Word /\ Code("int") \in Word /\ Code(back) \in Word
  <2>1. "int" \in Labels
    BY DEF Labels
  <2> QED
    BY <2>1, Words
<1>4. /\ regs \in [Registers -> Word] /\ regs.eip = Code("int") /\ regs.eax = Code(name)
      /\ regs.ebp = cpu.ebp
  <2>1. "eip" \in Registers /\ "ebp" \in Registers /\ "eax" \in Registers
    BY DEF Registers
  <2> QED
    BY <1>2, <1>3, <2>1
<1>5. words \in Seq(Word) /\ Len(words) = Len(here) + Len(args) + 1
  <2>1. here \in Seq(Word)
    BY <1>2 DEF here
  <2> QED
    BY <1>3, <2>1, Invoked
<1> HIDE DEF regs, words
<1>6. /\ cpu' = regs /\ stack'[current] = words /\ After.regs = regs /\ After.words = words
      /\ stack' = [stack EXCEPT ![current] = stack'[current]]
      /\ UNCHANGED <<context, current, live, mode, vector, master, slave, status>>
  BY <1>1, Stepped
<1>7. After.words = OnTop(Running.words, args, Code(back))
  BY <1>2, <1>6 DEF words, here
<1>8. ASSUME Call(current, After) PROVE StillBehaves
  <2>1. Behaves(current, After)
    <3>1. After.regs.eip = Code("int") /\ 0 \in 0 .. Len(After.words)
      BY <1>4, <1>5, <1>6
    <3> QED
      BY <1>8, <3>1 DEF Behaves
  <2> QED
    BY <1>4, <1>5, <1>6, <2>1 DEF StillBehaves
<1> QED
  BY <1>2, <1>4, <1>5, <1>6, <1>7, <1>8 DEF here

(* A call from a function, whose frames are there.                         *)
LEMMA FunctionInvokes ==
  ASSUME UserAt, NEW name \in Labels, NEW back \in Labels, NEW args \in Seq(Word),
         Invokes(name, args, back), NEW k \in Nat, Frames(current, Running, k, 0)
  PROVE  /\ After.regs.eax = Code(name) /\ Frames(current, After, k, Len(args) + 1)
         /\ Top(After) = Code(back) /\ k \in 0 .. Len(After.words)
         /\ \A i \in 1 .. Len(args) : After.words[Len(After.words) - i] = args[i]
         /\ Chain(current, Running.words, k) => Chain(current, After.words, k)
         /\ Call(current, After) => StillBehaves
<1>1. /\ After.regs.eax = Code(name) /\ After.regs.ebp = Running.regs.ebp
      /\ After.words = OnTop(Running.words, args, Code(back))
      /\ Call(current, After) => StillBehaves
  BY InvokesKeeps
<1>2. current \in Nat /\ Running.words \in Seq(Word) /\ Code(back) \in Word
  BY UserTypes, Words
<1>3. /\ Len(After.words) = Len(Running.words) + (Len(args) + 1) /\ Len(args) + 1 \in Nat
      /\ \A i \in 1 .. Len(Running.words) : After.words[i] = Running.words[i]
      /\ \A i \in 1 .. Len(args) : After.words[Len(After.words) - i] = args[i]
      /\ Top(After) = Code(back)
  <2> DEFINE s == Running.words
             b == Code(back)
             after == OnTop(s, args, b)
  <2>1. s \in Seq(Word) /\ b \in Word /\ After.words = after
    BY <1>1, <1>2
  <2> HIDE DEF s, b
  <2>2. /\ Len(after) = Len(s) + Len(args) + 1
        /\ \A i \in 1 .. Len(s) : after[i] = s[i]
        /\ \A i \in 1 .. Len(args) : after[Len(after) - i] = args[i]
        /\ after[Len(after)] = b
    BY <2>1, Invoked
  <2> HIDE DEF after
  <2>3. Len(after) = Len(s) + (Len(args) + 1) /\ Len(args) + 1 \in Nat
    BY <2>1, <2>2
  <2>4. /\ Len(After.words) = Len(s) + (Len(args) + 1)
        /\ \A i \in 1 .. Len(s) : After.words[i] = s[i]
        /\ \A i \in 1 .. Len(args) : After.words[Len(After.words) - i] = args[i]
        /\ After.words[Len(After.words)] = b
    BY <2>1, <2>2, <2>3
  <2> QED
    BY <2>3, <2>4 DEF s, b, Top
<1>4. /\ Frames(current, After, k, Len(args) + 1) /\ k \in 0 .. Len(After.words)
      /\ Chain(current, Running.words, k) => Chain(current, After.words, k)
  BY <1>1, <1>3, FramesInvoke
<1> QED
  BY <1>1, <1>3, <1>4

(* The system calls of a function.                                         *)
LEMMA CallsKernelKeeps ==
  ASSUME UserAt, ~ FORKS_ANYWHERE, CallsKernel
  PROVE  StillBehaves
<1>1. /\ current \in Nat /\ Running.regs = cpu /\ Running.words = stack[current]
      /\ stack[current] \in Seq(Word)
  BY UserTypes
<1>2. PICK k \in 0 .. Len(stack[current]) : Works(current, Running, k, 0)
  <2>1. Running.regs.eip \in {Code("body"), Code("spawn")}
    BY <1>1 DEF CallsKernel, At
  <2>2. Behaves(current, Running)
    BY DEF UserAt
  <2> QED
    BY <1>1, <2>1, <2>2, BehavesAt
<1>3. k \in Nat /\ Frames(current, Running, k, 0) /\ Chain(current, Running.words, k)
  BY <1>1, <1>2 DEF Works
<1>4. {"getpid", "sleep", "bogus", "exit", "body"} \subseteq Labels
  BY DEF Labels
<1>5. CASE Invokes("getpid", << >>, "body") \/ Invokes("bogus", << >>, "body")
  <2>1. << >> \in Seq(Word) /\ Len(<< >>) = 0
    OBVIOUS
  <2>2. ASSUME NEW name \in {"getpid", "bogus"}, Invokes(name, << >>, "body")
        PROVE  StillBehaves
    <3>1. name \in Labels /\ "body" \in Labels
      BY <1>4
    <3>2. /\ After.regs.eax = Code(name) /\ Frames(current, After, k, Len(<< >>) + 1)
          /\ Top(After) = Code("body") /\ k \in 0 .. Len(After.words)
          /\ Chain(current, Running.words, k) => Chain(current, After.words, k)
          /\ Call(current, After) => StillBehaves
      BY <1>3, <2>1, <2>2, <3>1, FunctionInvokes
    <3>3. Works(current, After, k, 1)
      BY <1>3, <2>1, <3>2 DEF Works
    <3>4. Call(current, After)
      BY <3>2, <3>3 DEF Call
    <3> QED
      BY <3>2, <3>4
  <2> QED
    BY <1>5, <2>2
<1>6. CASE Invokes("sleep", <<Val(0)>>, "body")
  <2>1. <<Val(0)>> \in Seq(Word) /\ Len(<<Val(0)>>) = 1
    BY SmallWords
  <2> DEFINE args == <<Val(0)>>
  <2> HIDE DEF args
  <2>2. args \in Seq(Word) /\ Len(args) = 1 /\ Invokes("sleep", args, "body")
    BY <1>6, <2>1 DEF args
  <2>3. "sleep" \in Labels /\ "body" \in Labels
    BY <1>4
  <2>4. /\ After.regs.eax = Code("sleep") /\ Frames(current, After, k, Len(args) + 1)
        /\ Top(After) = Code("body") /\ k \in 0 .. Len(After.words)
        /\ Chain(current, Running.words, k) => Chain(current, After.words, k)
        /\ Call(current, After) => StillBehaves
    BY <1>3, <2>2, <2>3, FunctionInvokes
  <2>5. Works(current, After, k, 2)
    BY <1>3, <2>2, <2>4 DEF Works
  <2>6. Call(current, After)
    BY <2>4, <2>5 DEF Call
  <2> QED
    BY <2>4, <2>6
<1>7. CASE Invokes("exit", <<RESULT>>, "body")
  <2>1. <<RESULT>> \in Seq(Word) /\ Len(<<RESULT>>) = 1 /\ <<RESULT>>[1] = RESULT
    BY SmallWords
  <2> DEFINE args == <<RESULT>>
  <2> HIDE DEF args
  <2>2. args \in Seq(Word) /\ Len(args) = 1 /\ args[1] = RESULT /\ Invokes("exit", args, "body")
    BY <1>7, <2>1 DEF args
  <2>3. "exit" \in Labels /\ "body" \in Labels
    BY <1>4
  <2>4. /\ After.regs.eax = Code("exit") /\ Frames(current, After, k, Len(args) + 1)
        /\ k \in 0 .. Len(After.words)
        /\ \A i \in 1 .. Len(args) : After.words[Len(After.words) - i] = args[i]
        /\ Call(current, After) => StillBehaves
    BY <1>3, <2>2, <2>3, FunctionInvokes
  <2>5. After.words[Len(After.words) - 1] = RESULT
    BY <2>2, <2>4
  <2>6. /\ Len(After.words) > 1 /\ After.regs.ebp = FrameOf(current, k)
        /\ 3 * k + 1 <= Len(After.words)
    BY <1>3, <2>2, <2>4 DEF Frames
  <2>7. Call(current, After)
    BY <2>4, <2>5, <2>6 DEF Call
  <2> QED
    BY <2>4, <2>7
<1> QED
  BY <1>5, <1>6, <1>7 DEF CallsKernel

(* The return from a system call.                                          *)
LEMMA StubReturnsKeeps ==
  ASSUME UserAt, StubReturns
  PROVE  StillBehaves
<1> DEFINE regs  == [cpu EXCEPT !.eip = here[Len(here)]]
           words == SubSeq(here, 1, cpu.ebp[3] + 1)
<1>1. Step(regs, words) /\ cpu.eip = Code("ret")
  BY DEF StubReturns, At
<1>2. /\ current \in Nat /\ cpu \in [Registers -> Word] /\ stack[current] \in Seq(Word)
      /\ Running.regs = cpu /\ Running.words = stack[current]
  BY UserTypes
<1>3. Answered(current, Running)
  <2>1. Behaves(current, Running)
    BY DEF UserAt
  <2> QED
    BY <1>1, <1>2, <2>1, BehavesAt
<1>4. PICK k \in 1 .. Len(here) :
        \/ here[Len(here)] = Code("body") /\ \E n \in {1, 2} : Works(current, Running, k, n)
        \/ /\ here[Len(here)] = Code("forked") /\ Frames(current, Running, k, 1)
           /\ cpu.eax # Val(0) => Chain(current, here, k)
  BY <1>2, <1>3 DEF Answered, Top, here
<1>5. here[Len(here)] \in Word
  <2>1. "body" \in Labels /\ "forked" \in Labels
    BY DEF Labels
  <2> QED
    BY <1>4, <2>1, Words
<1>6. /\ regs \in [Registers -> Word] /\ regs.eip = here[Len(here)] /\ regs.ebp = cpu.ebp
      /\ regs.eax = cpu.eax
  BY <1>2, <1>5, SetEip
<1> HIDE DEF regs, words
<1>7. /\ cpu' = regs /\ stack'[current] = words /\ After.regs = regs /\ After.words = words
      /\ stack' = [stack EXCEPT ![current] = stack'[current]]
      /\ UNCHANGED <<context, current, live, mode, vector, master, slave, status>>
  BY <1>1, Stepped
<1>8. PICK n \in Nat : Frames(current, Running, k, n)
  BY <1>4 DEF Works
<1>9. /\ After.words \in Seq(Word) /\ Frames(current, After, k, 0) /\ k \in 0 .. Len(After.words)
      /\ Chain(current, Running.words, k) => Chain(current, After.words, k)
  <2>1. After.regs.ebp = Running.regs.ebp
    BY <1>2, <1>6, <1>7
  <2>2. After.words = SubSeq(Running.words, 1, Running.regs.ebp[3] + 1)
    BY <1>2, <1>7 DEF here, words
  <2>3. Running.words \in Seq(Word) /\ k \in Nat
    BY <1>2
  <2> QED
    BY <1>2, <1>8, <2>1, <2>2, <2>3, FramesAnswered
<1>10. Behaves(current, After)
  <2>1. CASE here[Len(here)] = Code("body") /\ \E m \in {1, 2} : Works(current, Running, k, m)
    <3>1. Works(current, After, k, 0)
      BY <1>9, <2>1 DEF Works
    <3>2. After.regs.eip = Code("body")
      BY <1>6, <1>7, <2>1
    <3> QED
      BY <1>9, <3>1, <3>2 DEF Behaves
  <2>2. CASE /\ here[Len(here)] = Code("forked") /\ Frames(current, Running, k, 1)
             /\ cpu.eax # Val(0) => Chain(current, here, k)
    <3>1. After.regs.eip = Code("forked") /\ After.regs.eax = cpu.eax
      BY <1>6, <1>7, <2>2
    <3>2. After.regs.eax # Val(0) => Chain(current, After.words, k)
      BY <1>2, <1>9, <2>2, <3>1 DEF here
    <3> QED
      BY <1>9, <3>1, <3>2 DEF Behaves
  <2> QED
    BY <1>4, <2>1, <2>2
<1> QED
  BY <1>6, <1>7, <1>9, <1>10 DEF StillBehaves

(* fork() in spawn().                                                      *)
LEMMA SpawnForksKeeps ==
  ASSUME UserAt, SpawnForks
  PROVE  StillBehaves
<1>1. /\ current \in Nat /\ Running.regs = cpu /\ Running.words = stack[current]
      /\ stack[current] \in Seq(Word)
  BY UserTypes
<1>2. PICK k \in 0 .. Len(stack[current]) : Works(current, Running, k, 0)
  <2>1. Running.regs.eip \in {Code("body"), Code("spawn")}
    BY <1>1 DEF SpawnForks, At
  <2>2. Behaves(current, Running)
    BY DEF UserAt
  <2> QED
    BY <1>1, <2>1, <2>2, BehavesAt
<1>3. k \in Nat /\ Frames(current, Running, k, 0) /\ Chain(current, Running.words, k)
  BY <1>1, <1>2 DEF Works
<1>4. << >> \in Seq(Word) /\ Len(<< >>) = 0
  OBVIOUS
<1>5. "fork" \in Labels /\ "forked" \in Labels /\ Invokes("fork", << >>, "forked")
  BY DEF Labels, SpawnForks
<1>6. /\ After.regs.eax = Code("fork") /\ Frames(current, After, k, Len(<< >>) + 1)
      /\ Top(After) = Code("forked") /\ k \in 0 .. Len(After.words)
      /\ Chain(current, Running.words, k) => Chain(current, After.words, k)
      /\ Call(current, After) => StillBehaves
  BY <1>3, <1>4, <1>5, FunctionInvokes
<1>7. Works(current, After, k, 1)
  BY <1>3, <1>4, <1>6 DEF Works
<1>8. Call(current, After)
  BY <1>6, <1>7 DEF Call
<1> QED
  BY <1>6, <1>8

(* exec() in the child of spawn(), whose frames are the parent's.          *)
LEMMA SpawnExecsKeeps ==
  ASSUME UserAt, SpawnExecs
  PROVE  StillBehaves
<1> DEFINE args == <<Code("entry"), Val(1), Val(3)>>
<1>1. /\ current \in Nat /\ Running.regs = cpu /\ Running.words = stack[current]
      /\ stack[current] \in Seq(Word)
  BY UserTypes
<1>2. PICK k \in 0 .. Len(stack[current]) : Frames(current, Running, k, 0)
  <2>1. Running.regs.eip = Code("forked")
    BY <1>1 DEF SpawnExecs, At
  <2>2. Behaves(current, Running)
    BY DEF UserAt
  <2> QED
    BY <1>1, <2>1, <2>2, BehavesAt
<1>3. "exec" \in Labels /\ "failed" \in Labels /\ "entry" \in Labels
  BY DEF Labels
<1>4. /\ args \in Seq(Word) /\ Len(args) = 3 /\ args[1] = Code("entry") /\ args[2] = Val(1)
  <2>1. Code("entry") \in Word /\ Val(1) \in Word /\ Val(3) \in Word
    BY <1>3, Words, SmallWords
  <2> QED
    BY <2>1
<1>5. Invokes("exec", args, "failed")
  BY DEF SpawnExecs
<1> HIDE DEF args
<1>6. /\ After.regs.eax = Code("exec") /\ Frames(current, After, k, Len(args) + 1)
      /\ k \in 0 .. Len(After.words)
      /\ \A i \in 1 .. Len(args) : After.words[Len(After.words) - i] = args[i]
      /\ Call(current, After) => StillBehaves
  <2>1. k \in Nat
    BY <1>1
  <2> QED
    BY <1>2, <1>3, <1>4, <1>5, <2>1, FunctionInvokes
<1>7. /\ After.words[Len(After.words) - 1] = Code("entry")
      /\ After.words[Len(After.words) - 2] = Val(1)
  BY <1>4, <1>6
<1>8. Frames(current, After, k, 4)
  BY <1>4, <1>6
<1>9. Call(current, After)
  BY <1>6, <1>7, <1>8 DEF Call
<1> QED
  BY <1>6, <1>9

(* do_exit() gives exit() what main() returned.                            *)
LEMMA DoExitKeeps ==
  ASSUME UserAt, DoExit
  PROVE  StillBehaves
<1>1. /\ current \in Nat /\ Running.regs = cpu /\ Running.words = stack[current]
      /\ stack[current] \in Seq(Word)
  BY UserTypes
<1>2. Len(stack[current]) = 2 /\ cpu.eax = RESULT /\ cpu.ebp = Val(0)
  <2>1. Running.regs.eip = Code("do_exit")
    BY <1>1 DEF DoExit, At
  <2>2. Behaves(current, Running)
    BY DEF UserAt
  <2> QED
    BY <1>1, <2>1, <2>2, BehavesAt
<1> DEFINE args == <<RESULT>>
<1>3. args \in Seq(Word) /\ Len(args) = 1 /\ args[1] = RESULT
  BY SmallWords
<1>4. Invokes("exit", args, "done")
  BY <1>2 DEF DoExit
<1> HIDE DEF args
<1>5. "exit" \in Labels /\ "done" \in Labels
  BY DEF Labels
<1>6. /\ After.regs.eax = Code("exit") /\ After.regs.ebp = Running.regs.ebp
      /\ After.words = OnTop(Running.words, args, Code("done"))
      /\ Len(After.words) = Len(stack[current]) + Len(args) + 1
      /\ Call(current, After) => StillBehaves
  BY <1>3, <1>4, <1>5, InvokesKeeps
<1>7. Len(After.words) = 4
  BY <1>2, <1>3, <1>6
<1>8. After.words[Len(After.words) - 1] = RESULT
  <2>1. Running.words \in Seq(Word) /\ Code("done") \in Word
    BY <1>1, <1>5, Words
  <2> DEFINE s == Running.words
             b == Code("done")
             after == OnTop(s, args, b)
  <2>2. s \in Seq(Word) /\ b \in Word /\ After.words = after
    BY <1>6, <2>1
  <2> HIDE DEF s, b
  <2>3. \A i \in 1 .. Len(args) : after[Len(after) - i] = args[i]
    BY <1>3, <2>2, Invoked
  <2> HIDE DEF after
  <2>4. \A i \in 1 .. Len(args) : After.words[Len(After.words) - i] = args[i]
    BY <2>2, <2>3
  <2> QED
    BY <1>3, <2>4
<1>9. Call(current, After)
  <2>1. After.regs.ebp = Val(0) /\ Len(After.words) > 1 /\ 0 \in 0 .. Len(After.words)
    BY <1>1, <1>2, <1>6, <1>7
  <2> QED
    BY <1>6, <1>8, <2>1 DEF Call
<1> QED
  BY <1>6, <1>9

(* No step of a program ends anything but its own business.                *)
LEMMA ProgramKeeps ==
  ASSUME UserAt, ~ FORKS_ANYWHERE, Program
  PROVE  StillBehaves
BY PrologueKeeps, StoreLocalKeeps, CallsKeeps, ReturnsKeeps, CallsKernelKeeps, StubReturnsKeeps,
   SpawnForksKeeps, SpawnExecsKeeps, DoExitKeeps DEF Program

-----------------------------------------------------------------------------
(* Where the file of a process is.                                         *)

(* A sequence up to its end.                                               *)
LEMMA AllOf ==
  ASSUME NEW s \in Seq(Word)
  PROVE  SubSeq(s, 1, Len(s)) = s
<1>1. PICK n \in Nat : n = Len(s)
  OBVIOUS
<1>2. /\ SubSeq(s, 1, n) \in Seq(Word) /\ Len(SubSeq(s, 1, n)) = n
      /\ \A i \in 1 .. n : SubSeq(s, 1, n)[i] = s[i]
  <2>1. n <= Len(s)
    BY <1>1
  <2> QED
    BY <2>1, First
<1>3. SubSeq(s, 1, n) = s
  BY <1>1, <1>2, SeqEqual
<1> QED
  BY <1>1, <1>3

(* What is saved is the context on the stack of its process,               *)
LEMMA FileSaved ==
  ASSUME NEW p, p \in live, ~ (mode = "user" /\ p = current),
         context[p] = <<p, Len(stack[p])>>, stack[p] \in Seq(Word)
  PROVE  File(p) = InContext(stack[p])
<1>1. SubSeq(stack[context[p][1]], 1, context[p][2]) = stack[p]
  <2>1. context[p][1] = p /\ context[p][2] = Len(stack[p])
    OBVIOUS
  <2> QED
    BY <2>1, AllOf
<1> QED
  BY <1>1 DEF File, InContext

(* after a step too.                                                       *)
LEMMA FileSavedNext ==
  ASSUME NEW p, p \in live', ~ (mode' = "user" /\ p = current'),
         context'[p] = <<p, Len(stack'[p])>>, stack'[p] \in Seq(Word)
  PROVE  File(p)' = InContext(stack'[p])
<1>1. SubSeq(stack'[context'[p][1]], 1, context'[p][2]) = stack'[p]
  <2>1. context'[p][1] = p /\ context'[p][2] = Len(stack'[p])
    OBVIOUS
  <2> QED
    BY <2>1, AllOf
<1> QED
  BY <1>1 DEF File, InContext

(* The process that runs has its file in the processor,                    *)
LEMMA FileRuns ==
  ASSUME NEW p, p \in live, mode = "user", p = current
  PROVE  File(p) = Running
BY DEF File, Running

(* after a step too.                                                       *)
LEMMA FileRunsNext ==
  ASSUME NEW p, p \in live', mode' = "user", p = current'
  PROVE  File(p)' = [regs |-> cpu', words |-> stack'[p]]
BY DEF File

(* What is saved and not touched stays.                                    *)
LEMMA FileKept ==
  ASSUME NEW p, p \in live, p \in live', ~ (mode = "user" /\ p = current),
         ~ (mode' = "user" /\ p = current'), Saved(p), stack[p] \in Seq(Word),
         context'[p] = context[p], stack'[p] = stack[p]
  PROVE  File(p)' = File(p) /\ Saved(p)'
<1>1. File(p) = InContext(stack[p])
  BY FileSaved DEF Saved
<1>2. File(p)' = InContext(stack'[p])
  BY FileSavedNext DEF Saved
<1> QED
  BY <1>1, <1>2 DEF Saved

(* The registers and the stack that a file has.                            *)
LEMMA FileType ==
  ASSUME NEW p, stack[p] \in Seq(Word), Saved(p)
  PROVE  /\ InContext(stack[p]).regs \in [Registers -> Word]
         /\ InContext(stack[p]).words \in Seq(Word)
         /\ Len(stack[p]) \in Nat /\ SIZE = 18 /\ Len(stack[p]) >= 18
         /\ Len(InContext(stack[p]).words) = Len(stack[p]) - 18
         /\ \A i \in 1 .. Len(stack[p]) - 18 : InContext(stack[p]).words[i] = stack[p][i]
         /\ \A r \in Registers : InContext(stack[p]).regs[r] = Field(stack[p], r)
<1> DEFINE s == stack[p]
<1>1. s \in Seq(Word) /\ Len(s) >= SIZE /\ SIZE = 18
  BY Places DEF Saved
<1> HIDE DEF s
<1>2. /\ InContext(s).regs \in [Registers -> Word] /\ InContext(s).words = WithoutContext(s)
      /\ WithoutContext(s) \in Seq(Word) /\ Len(WithoutContext(s)) = Len(s) - 18
      /\ \A i \in 1 .. Len(s) - 18 : WithoutContext(s)[i] = s[i]
  BY <1>1, ContextType
<1>3. \A r \in Registers : InContext(s).regs[r] = Field(s, r)
  BY DEF InContext
<1> QED
  BY <1>1, <1>2, <1>3 DEF s

-----------------------------------------------------------------------------
(* The steps of the specification, as steps of Processors.                 *)

(* Processes are numbers from 1 on, and have a stack each.                 *)
LEMMA LiveTypes ==
  ASSUME Types, NEW p \in live
  PROVE  p \in Process /\ p \in Nat /\ p # 0 /\ stack[p] \in Seq(Word)
<1>1. p \in Process
  BY DEF Types
<1> QED
  BY <1>1, MachineConstants DEF Types

(* A program that runs is at a step that it can take.                      *)
LEMMA UserIsAt ==
  ASSUME MachineInv, mode = "user"
  PROVE  UserAt /\ File(current) = Running /\ Lines /\ Goes
<1>1. Types /\ Lines /\ Goes /\ current \in live
  BY DEF MachineInv, Stopped, Types
<1>2. File(current) = Running
  BY <1>1, FileRuns
<1>3. Behaves(current, File(current))
  BY <1>1 DEF Goes
<1> QED
  BY <1>1, <1>2, <1>3 DEF UserAt

(* OnlyOf, process by process.                                             *)
LEMMA OwnOnlyOf ==
  ASSUME Types, NEW r, current = r, \A q \in live \ {r} : File(q)' = File(q)
  PROVE  Own!OnlyOf(current)
<1>1. live \subseteq Process
  BY DEF Types
<1> QED
  BY <1>1 DEF Own!OnlyOf

(* The phase tells the modes apart,                                        *)
LEMMA Phases ==
  /\ mode = "user" => Phase = "runs"
  /\ mode = "restore" => Phase = "return"
  /\ mode = "halted" => Phase = "stopped"
  /\ mode = "isr" /\ Unexpected(vector) => Phase = "stopped"
  /\ mode = "isr" /\ ~ Unexpected(vector) /\ vector = SYSCALL => Phase = "call"
  /\ mode = "isr" /\ ~ Unexpected(vector) /\ vector # SYSCALL => Phase = "interrupt"
<1>1. CASE mode = "user"
  BY <1>1 DEF Phase
<1>2. CASE mode = "restore"
  BY <1>2 DEF Phase
<1>3. CASE mode = "halted"
  BY <1>3 DEF Phase
<1>4. CASE mode = "isr"
  <2>1. Phase = IF Unexpected(vector) THEN "stopped"
                ELSE IF vector = SYSCALL THEN "call" ELSE "interrupt"
    BY <1>4 DEF Phase
  <2> QED
    BY <1>4, <2>1
<1> QED
  BY <1>1, <1>2, <1>3, <1>4

(* after a step too.                                                       *)
LEMMA PhasesNext == Phases'
BY Phases, PTL

(* A step of a program is an Instruction of its process.                   *)
LEMMA ProgramStep ==
  ASSUME MachineInv, ~ FORKS_ANYWHERE, Program
  PROVE  MachineInv' /\ Own!Instruction
<1>1. mode = "user"
  BY DEF Program, Prologue, StoreLocal, Calls, Returns, CallsKernel, StubReturns, SpawnForks,
         SpawnExecs, DoExit, At
<1>2. UserAt /\ File(current) = Running /\ Lines /\ Goes /\ Types
  BY <1>1, UserIsAt DEF MachineInv
<1>3. StillBehaves
  BY <1>2, ProgramKeeps
<1>4. /\ cpu' \in [Registers -> Word] /\ stack'[current] \in Seq(Word)
      /\ stack' = [stack EXCEPT ![current] = stack'[current]]
      /\ Behaves(current, After)
      /\ context' = context /\ current' = current /\ live' = live /\ mode' = mode
      /\ vector' = vector /\ master' = master /\ slave' = slave /\ status' = status
  BY <1>3 DEF StillBehaves
<1>5. Types'
  BY <1>2, <1>4 DEF Types
<1>6. Masked' /\ Lines'
  BY <1>1, <1>2, <1>4 DEF Masked, Lines
<1>7. PICK r : r = current
  OBVIOUS
<1>8. ASSUME NEW p \in live, p # r PROVE File(p)' = File(p) /\ Saved(p)'
  <2>1. p \in live' /\ context'[p] = context[p] /\ stack'[p] = stack[p] /\ p # current /\ p # current'
    BY <1>2, <1>4, <1>7, <1>8 DEF Types
  <2>2. Saved(p) /\ stack[p] \in Seq(Word)
    BY <1>2, <2>1, LiveTypes DEF Goes
  <2> QED
    BY <2>1, <2>2, FileKept
<1>9. r \in live /\ File(r)' = After
  <2>1. r \in live' /\ r \in live /\ mode' = "user" /\ r = current'
    BY <1>1, <1>2, <1>4, <1>7 DEF Types
  <2>2. File(r)' = [regs |-> cpu', words |-> stack'[r]]
    BY <2>1, FileRunsNext
  <2> QED
    BY <1>7, <2>1, <2>2 DEF After
<1>10. Goes'
  <2>1. ASSUME NEW p \in live' PROVE (mode' = "user" /\ p = current') \/ Saved(p)'
    BY <1>1, <1>4, <1>7, <1>8
  <2>2. ASSUME NEW p \in live' PROVE Behaves(p, File(p)')
    <3>1. CASE p = r
      BY <1>4, <1>7, <1>9, <3>1
    <3>2. CASE p # r
      <4>1. p \in live /\ Behaves(p, File(p))
        BY <1>1, <1>2, <1>4 DEF Goes
      <4> QED
        BY <1>8, <3>2, <4>1
    <3> QED
      BY <3>1, <3>2
  <2>3. mode' # "isr"
    BY <1>1, <1>4
  <2> QED
    BY <2>1, <2>2, <2>3 DEF Goes
<1>11. Phase = "runs" /\ Phase' = "runs"
  BY <1>1, <1>4, Phases, PhasesNext
<1>12. Own!OnlyOf(current)
  BY <1>2, <1>7, <1>8, OwnOnlyOf
<1> QED
  BY <1>4, <1>5, <1>6, <1>10, <1>11, <1>12 DEF MachineInv, Own!Instruction

(* The ISRs run with interrupts off.                                       *)
LEMMA KernelCpu ==
  /\ [KernelRegisters EXCEPT !.eflags = Flags(IfAfterGate(cpu.eflags[2]))] \in [Registers -> Word]
  /\ [KernelRegisters EXCEPT !.eflags = Flags(IfAfterGate(cpu.eflags[2]))].eflags = Flags(FALSE)
  /\ KernelRegisters \in [Registers -> Word] /\ KernelRegisters.eflags = Flags(FALSE)
<1>1. Flags(FALSE) \in Word /\ Val(0) \in Word /\ "eflags" \in Registers
  <2>1. 0 \in Nat /\ FALSE \in BOOLEAN
    OBVIOUS
  <2> QED
    BY <2>1, Words DEF Registers
<1>2. KernelRegisters \in [Registers -> Word] /\ KernelRegisters.eflags = Flags(FALSE)
  BY <1>1 DEF KernelRegisters
<1> QED
  BY <1>1, <1>2 DEF IfAfterGate

(* isr_save, whatever is on the stack in use.                              *)
SaveAt    == IF mode = "user" THEN current ELSE SystemStack
SaveUnder == IF mode = "user" THEN stack[current] ELSE << >>
Saving(v, eip) == SaveUnder \o Pushed(v, SaveAt, eip)

(* What isr_save saves, and where.                                         *)
LEMMA SaveTypes ==
  ASSUME Types, NEW v \in Nat, NEW eip \in Word, IsrSave(v, eip)
  PROVE  /\ Types' /\ Masked' /\ mode' = "isr" /\ vector' = v
         /\ current' = current /\ live' = live /\ status' = status
         /\ Saving(v, eip) \in Seq(Word) /\ Len(Saving(v, eip)) = Len(SaveUnder) + 18
         /\ stack' = [stack EXCEPT ![SaveAt] = Saving(v, eip)]
         /\ context' = [context EXCEPT ![current] = <<SaveAt, Len(Saving(v, eip))>>]
         /\ InContext(Saving(v, eip)) = [regs |-> [cpu EXCEPT !.eip = eip], words |-> SaveUnder]
<1> DEFINE words == Saving(v, eip)
           at    == SaveAt
           under == SaveUnder
<1>1. /\ stack' = [stack EXCEPT ![at] = words]
      /\ context' = [context EXCEPT ![current] = <<at, Len(words)>>]
      /\ cpu' = [KernelRegisters EXCEPT !.eflags = Flags(IfAfterGate(cpu.eflags[2]))]
      /\ mode' = "isr" /\ vector' = Field(words, "vector")[2]
      /\ current' = current /\ live' = live /\ status' = status
  BY DEF IsrSave, Saving, SaveAt, SaveUnder
<1>2. /\ at \in Process \cup {SystemStack} /\ at \in Nat /\ stack[at] \in Seq(Word)
      /\ under \in Seq(Word)
  <2>1. current \in Process /\ current \in Nat
    BY MachineConstants DEF Types
  <2>2. SystemStack \in Nat
    BY DEF SystemStack
  <2>3. << >> \in Seq(Word) /\ stack[current] \in Seq(Word)
    BY <2>1 DEF Types
  <2> QED
    BY <2>1, <2>2, <2>3 DEF Types, SaveAt, SaveUnder
<1>3. cpu \in [Registers -> Word]
  BY DEF Types
<1>4. /\ words \in Seq(Word) /\ Len(words) = Len(under) + 18 /\ Field(words, "vector") = Val(v)
      /\ InContext(words) = [regs |-> [cpu EXCEPT !.eip = eip], words |-> under]
  <2> HIDE DEF at, under
  <2>1. words = under \o Pushed(v, at, eip)
    BY DEF Saving, at, under
  <2> HIDE DEF words
  <2> DEFINE pushed == under \o Pushed(v, at, eip)
  <2>2. /\ pushed \in Seq(Word) /\ Len(pushed) = Len(under) + 18
        /\ Field(pushed, "vector") = Val(v)
        /\ InContext(pushed) = [regs |-> [cpu EXCEPT !.eip = eip], words |-> under]
    BY <1>2, <1>3, PushedContext
  <2> QED
    BY <2>1, <2>2
<1> HIDE DEF words, at, under
<1>5. vector' = v
  BY <1>1, <1>4, Words
<1>6. Len(words) \in Nat
  BY <1>2, <1>4
<1>7. cpu' \in [Registers -> Word] /\ cpu'.eflags = Flags(FALSE)
  BY <1>1, KernelCpu
<1>8. stack' \in [Process \cup {SystemStack} -> Seq(Word)]
  BY <1>1, <1>2, <1>4 DEF Types
<1>9. context' \in [Process -> (Process \cup {SystemStack}) \X Nat]
  BY <1>1, <1>2, <1>6 DEF Types
<1>10. Types'
  BY <1>1, <1>5, <1>7, <1>8, <1>9 DEF Types
<1>11. Masked'
  BY <1>7 DEF Masked
<1> QED
  BY <1>1, <1>4, <1>5, <1>10, <1>11 DEF words, at, under

(* From a program: nothing of a process is lost.                           *)
LEMMA SaveProgram ==
  ASSUME MachineInv, mode = "user", NEW v \in Nat, NEW eip \in Word, IsrSave(v, eip),
         NEW r, r = current
  PROVE  /\ Types' /\ Masked' /\ mode' = "isr" /\ vector' = v
         /\ current' = current /\ live' = live /\ status' = status
         /\ \A p \in live : Saved(p)'
         /\ \A p \in live \ {r} : File(p)' = File(p)
         /\ File(r)' = [regs |-> [cpu EXCEPT !.eip = eip], words |-> stack[r]]
<1> DEFINE under == stack[current]
           words == Saving(v, eip)
<1>1. UserAt /\ Goes /\ Types /\ under \in Seq(Word) /\ r \in live
  BY UserIsAt, UserTypes DEF MachineInv, Types
<1>2. /\ Types' /\ Masked' /\ mode' = "isr" /\ vector' = v
      /\ current' = current /\ live' = live /\ status' = status
      /\ words \in Seq(Word) /\ Len(words) = Len(under) + 18
      /\ stack' = [stack EXCEPT ![current] = words]
      /\ context' = [context EXCEPT ![current] = <<current, Len(words)>>]
      /\ InContext(words) = [regs |-> [cpu EXCEPT !.eip = eip], words |-> under]
  <2>1. SaveAt = current /\ SaveUnder = under
    BY DEF SaveAt, SaveUnder
  <2> QED
    BY <1>1, <2>1, SaveTypes
<1> HIDE DEF words
<1>3. ASSUME NEW p \in live, p # r PROVE File(p)' = File(p) /\ Saved(p)'
  <2>1. p \in live' /\ context'[p] = context[p] /\ stack'[p] = stack[p] /\ p # current
    BY <1>1, <1>2, <1>3 DEF Types
  <2>2. Saved(p) /\ stack[p] \in Seq(Word) /\ mode' # "user"
    BY <1>1, <1>2, <2>1, LiveTypes DEF Goes
  <2> QED
    BY <2>1, <2>2, FileKept
<1>4. stack'[r] = words /\ context'[r] = <<r, Len(words)>>
  BY <1>1, <1>2 DEF Types
<1>5. Saved(r)'
  <2>1. Len(words) >= 18
    BY <1>1, <1>2
  <2>2. context'[r] = <<r, Len(stack'[r])>> /\ Len(stack'[r]) >= SIZE
    BY <1>4, <2>1, Places
  <2> QED
    BY <2>2 DEF Saved
<1>6. File(r)' = [regs |-> [cpu EXCEPT !.eip = eip], words |-> stack[r]]
  <2>1. r \in live' /\ mode' # "user" /\ stack'[r] \in Seq(Word)
    BY <1>1, <1>2, <1>4
  <2>2. context'[r] = <<r, Len(stack'[r])>>
    BY <1>4
  <2>3. File(r)' = InContext(stack'[r])
    BY <2>1, <2>2, FileSavedNext
  <2> QED
    BY <1>2, <1>4, <2>3
<1> QED
  BY <1>2, <1>3, <1>5, <1>6

(* Exceptions and the lines of the slave are unexpected.                   *)
LEMMA ExpectedVectors ==
  /\ \A v \in Nat : v < 32 => Unexpected(v)
  /\ \A v \in Nat : v > 39 /\ v # 128 => Unexpected(v)
  /\ ~ Unexpected(SYSCALL) /\ SYSCALL = 128
<1>1. ASSUME NEW v \in Nat, v # 32, v # 33, v # 36, v # 39, v # 128
      PROVE  Unexpected(v)
  BY <1>1 DEF Unexpected, IsrTable, TIMER, KEYBOARD, SERIAL, SYSCALL, MYSTERY
<1>2. \A v \in Nat : v < 32 => v # 32 /\ v # 33 /\ v # 36 /\ v # 39 /\ v # 128
  OBVIOUS
<1>3. \A v \in Nat : v > 39 => v # 32 /\ v # 33 /\ v # 36 /\ v # 39
  OBVIOUS
<1>4. ~ Unexpected(SYSCALL) /\ SYSCALL = 128
  BY DEF Unexpected, IsrTable, TIMER, KEYBOARD, SERIAL, SYSCALL, MYSTERY
<1> QED
  BY <1>1, <1>2, <1>3, <1>4

(* There is no file of a process that does not exist.                      *)
LEMMA FileDead ==
  ASSUME NEW p, p \notin live, p \notin live'
  PROVE  File(p)' = File(p)
BY DEF File

(* An interrupt comes back to where it was.                                *)
LEMMA EipWord ==
  ASSUME Types
  PROVE  cpu.eip \in Word /\ [cpu EXCEPT !.eip = cpu.eip] = cpu
<1>1. "eip" \in Registers
  BY DEF Registers
<1> QED
  BY <1>1 DEF Types

(* An exception or an NMI ends in the loop of the panic.                   *)
LEMMA FaultStep ==
  ASSUME MachineInv, Fault
  PROVE  MachineInv' /\ Own!Stop
<1>1. PICK v \in FAULTS : IsrSave(v, cpu.eip)
  BY DEF Fault
<1>2. v \in Nat /\ v < 32
  BY <1>1, MachineConstants
<1>3. Types /\ cpu.eip \in Word
  BY EipWord DEF MachineInv
<1>4. Types' /\ Masked' /\ mode' = "isr" /\ vector' = v
  BY <1>1, <1>2, <1>3, SaveTypes
<1>5. Unexpected(vector')
  BY <1>2, <1>4, ExpectedVectors
<1>6. Phase' = "stopped"
  BY <1>4, <1>5, PhasesNext
<1> QED
  BY <1>4, <1>5, <1>6 DEF MachineInv, Stopped, Own!Stop

(* A program that is interrupted, and will go on where it was.             *)
LEMMA InterruptedStep ==
  ASSUME MachineInv, mode = "user", NEW v \in Nat, IsrSave(v, cpu.eip),
         v # SYSCALL, slave' = {}, \E line \in 0 .. 7 : master' \subseteq {line}
  PROVE  MachineInv' /\ (Own!Interrupt \/ Own!Stop)
<1>1. Types /\ cpu.eip \in Word /\ [cpu EXCEPT !.eip = cpu.eip] = cpu
  BY EipWord DEF MachineInv
<1>2. PICK r \in live : r = current
  BY <1>1 DEF Types
<1>3. UserAt /\ Goes /\ File(r) = Running
  BY <1>2, UserIsAt
<1>4. /\ Types' /\ Masked' /\ mode' = "isr" /\ vector' = v
      /\ current' = current /\ live' = live /\ status' = status
      /\ \A p \in live : Saved(p)'
      /\ \A p \in live \ {r} : File(p)' = File(p)
      /\ File(r)' = [regs |-> [cpu EXCEPT !.eip = cpu.eip], words |-> stack[r]]
  BY <1>1, <1>2, SaveProgram
<1>5. File(r)' = File(r)
  BY <1>1, <1>2, <1>3, <1>4 DEF Running
<1>6. \A p \in live : File(p)' = File(p)
  BY <1>4, <1>5
<1>7. Goes'
  <2>1. \A p \in live : Behaves(p, File(p))
    BY <1>3 DEF Goes
  <2>2. \A p \in live' : Behaves(p, File(p)')
    BY <1>4, <1>6, <2>1
  <2>3. ~ (mode' = "isr" /\ vector' = SYSCALL)
    BY <1>4
  <2> QED
    BY <1>4, <2>2, <2>3 DEF Goes
<1>8. Lines'
  BY <1>4 DEF Lines
<1>9. MachineInv'
  BY <1>4, <1>7, <1>8 DEF MachineInv
<1>10. Phase = "runs"
  BY Phases
<1>11. CASE Unexpected(v)
  <2>1. Phase' = "stopped"
    BY <1>4, <1>11, PhasesNext
  <2> QED
    BY <1>9, <2>1 DEF Own!Stop
<1>12. CASE ~ Unexpected(v)
  <2>1. Phase' = "interrupt"
    BY <1>4, <1>12, PhasesNext
  <2>2. \A p \in Process : File(p)' = File(p)
    BY <1>4, <1>6, FileDead
  <2> QED
    BY <1>4, <1>9, <1>10, <2>1, <2>2 DEF Own!Interrupt
<1> QED
  BY <1>11, <1>12

(* A line or the mystery interrupt: an Interrupt, or the end.              *)
LEMMA DeviceStep ==
  ASSUME MachineInv, Device
  PROVE  MachineInv' /\ (Own!Interrupt \/ Own!Stop)
<1>1. Types /\ cpu.eip \in Word
  BY EipWord DEF MachineInv
<1>2. mode = "user"
  <2>1. Flags(TRUE) # Flags(FALSE)
    BY DEF Flags
  <2> QED
    BY <2>1 DEF Device, MachineInv, Masked
<1>3. master = {} /\ slave = {}
  BY <1>2, UserIsAt DEF Lines
<1>4. CASE IsrSave(MYSTERY, cpu.eip) /\ UNCHANGED <<master, slave>>
  <2>1. MYSTERY \in Nat /\ MYSTERY # SYSCALL
    BY DEF MYSTERY, SYSCALL
  <2>2. slave' = {} /\ \E line \in 0 .. 7 : master' \subseteq {line}
    <3>1. slave' = {} /\ 0 \in 0 .. 7 /\ master' \subseteq {0}
      BY <1>3, <1>4
    <3> QED
      BY <3>1
  <2> QED
    BY <1>2, <1>4, <2>1, <2>2, InterruptedStep
<1>5. ASSUME NEW line \in LINES,
             master' = master \cup {IF line < 8 THEN line ELSE 2},
             slave' = IF line < 8 THEN slave ELSE slave \cup {line - 8},
             IsrSave(LineVector(line), cpu.eip)
      PROVE  MachineInv' /\ (Own!Interrupt \/ Own!Stop)
  <2>1. line \in 0 .. 15
    BY MachineConstants
  <2>2. PICK v \in Nat : v = LineVector(line) /\ v = 32 + line
    BY <2>1 DEF LineVector
  <2>3. CASE line < 8
    <3>1. v # SYSCALL
      BY <2>1, <2>2 DEF SYSCALL
    <3>2. slave' = {} /\ master' \subseteq {line} /\ line \in 0 .. 7
      BY <1>3, <1>5, <2>1, <2>3
    <3>3. IsrSave(v, cpu.eip)
      BY <1>5, <2>2
    <3> QED
      BY <1>2, <3>1, <3>2, <3>3, InterruptedStep
  <2>4. CASE ~ (line < 8)
    <3>1. v > 39 /\ v # 128
      BY <2>1, <2>2, <2>4
    <3>2. Unexpected(v)
      BY <3>1, ExpectedVectors
    <3>3. IsrSave(v, cpu.eip)
      BY <1>5, <2>2
    <3>4. Types' /\ Masked' /\ mode' = "isr" /\ vector' = v
      BY <1>1, <3>3, SaveTypes
    <3>5. Phase' = "stopped"
      BY <3>2, <3>4, PhasesNext
    <3> QED
      BY <3>2, <3>4, <3>5 DEF MachineInv, Stopped, Own!Stop
  <2> QED
    BY <2>3, <2>4
<1> QED
  BY <1>4, <1>5 DEF Device

(* The same call, whatever comes next.                                     *)
LEMMA SameCall ==
  ASSUME NEW p, NEW f, NEW g, Call(p, f), g.words = f.words, g.regs.eax = f.regs.eax,
         g.regs.ebp = f.regs.ebp
  PROVE  Call(p, g)
BY DEF Call, Works, Frames, Top

(* The instruction int $0x80 is a Call of its process.                     *)
LEMMA Int80Step ==
  ASSUME MachineInv, Int80
  PROVE  MachineInv' /\ Own!Call
<1>1. /\ Types /\ mode = "user" /\ cpu.eip = Code("int") /\ master' = master /\ slave' = slave
      /\ IsrSave(SYSCALL, Code("ret")) /\ SYSCALL \in Nat
  BY DEF MachineInv, Int80, SYSCALL
<1>2. PICK r \in live : r = current
  BY <1>1 DEF Types
<1>3. UserAt /\ Goes /\ Lines /\ File(r) = Running
  BY <1>1, <1>2, UserIsAt
<1>4. Code("ret") \in Word
  <2>1. "ret" \in Labels
    BY DEF Labels
  <2> QED
    BY <2>1, Words
<1>5. /\ Types' /\ Masked' /\ mode' = "isr" /\ vector' = SYSCALL
      /\ current' = current /\ live' = live /\ status' = status
      /\ \A p \in live : Saved(p)'
      /\ \A p \in live \ {r} : File(p)' = File(p)
      /\ File(r)' = [regs |-> [cpu EXCEPT !.eip = Code("ret")], words |-> stack[r]]
  BY <1>1, <1>2, <1>4, SaveProgram
<1>6. /\ File(r)'.regs.eip = Code("ret") /\ File(r)'.regs.eax = File(r).regs.eax
      /\ File(r)'.regs.ebp = File(r).regs.ebp /\ File(r)'.words = File(r).words
      /\ File(r)' = [File(r) EXCEPT !.regs.eip = Code("ret")]
  <2>1. /\ "eip" \in Registers /\ "eax" \in Registers /\ "ebp" \in Registers
        /\ cpu \in [Registers -> Word]
    BY <1>1 DEF Registers, Types
  <2>2. File(r) = [regs |-> cpu, words |-> stack[r]]
    BY <1>2, <1>3 DEF Running
  <2> QED
    BY <1>5, <2>1, <2>2
<1>7. Call(r, File(r))
  <2>1. Behaves(r, File(r)) /\ File(r).regs.eip = Code("int")
    BY <1>1, <1>2, <1>3, UserTypes DEF UserAt
  <2> QED
    BY <2>1, BehavesAt
<1>8. Call(r, File(r)')
  BY <1>6, <1>7, SameCall
<1>9. Goes'
  <2>1. \A p \in live \ {r} : Behaves(p, File(p))
    BY <1>1, <1>3 DEF Goes
  <2>2. \A p \in live' \ {r} : Behaves(p, File(p)')
    BY <1>5, <2>1
  <2>3. \A p \in live' : p = current' <=> p = r
    BY <1>2, <1>5
  <2> QED
    BY <1>5, <1>6, <1>8, <2>2, <2>3 DEF Goes
<1>10. Lines'
  <2>1. master' = {} /\ slave' = {} /\ 0 \in 0 .. 7
    BY <1>1, <1>3 DEF Lines
  <2> QED
    BY <1>5, <2>1 DEF Lines
<1>11. Phase = "runs" /\ Phase' = "call"
  BY <1>1, <1>5, Phases, PhasesNext, ExpectedVectors
<1>12. Own!OnlyOf(current)
  BY <1>1, <1>2, <1>5, OwnOnlyOf
<1>13. Own!Call
  <2>1. r \in Process
    BY <1>1 DEF Types
  <2>2. /\ [p \in Process |-> File(p)][current] = File(r)
        /\ ([p \in Process |-> File(p)]')[current] = File(r)'
    BY <1>2, <2>1
  <2> QED
    BY <1>5, <1>6, <1>11, <1>12, <2>2 DEF Own!Call
<1> QED
  BY <1>5, <1>9, <1>10, <1>13 DEF MachineInv

-----------------------------------------------------------------------------
(* The ISRs, on the system stack.                                          *)

(* While the system works every process is saved.                          *)
LEMMA InSystem ==
  ASSUME MachineInv, mode # "user", ~ Stopped
  PROVE  /\ Types /\ Masked /\ Lines /\ Goes
         /\ \A p \in live : /\ Saved(p) /\ stack[p] \in Seq(Word)
                            /\ File(p) = InContext(stack[p])
<1>1. Types /\ Masked /\ Lines /\ Goes
  BY DEF MachineInv
<1>2. ASSUME NEW p \in live
      PROVE  Saved(p) /\ stack[p] \in Seq(Word) /\ File(p) = InContext(stack[p])
  <2>1. Saved(p) /\ stack[p] \in Seq(Word)
    BY <1>1, LiveTypes DEF Goes
  <2> QED
    BY <2>1, FileSaved DEF Saved
<1> QED
  BY <1>1, <1>2

(* The ISRs that do something are for the expected vectors,                *)
LEMMA ExpectedIsr ==
  ASSUME NEW name, name # "__default_unexpected_handler", Isr(name)
  PROVE  /\ mode = "isr" /\ ~ Unexpected(vector) /\ ~ Stopped
         /\ name # "_sys_isr" => vector # SYSCALL
<1>1. IsrTable(SYSCALL) = "_sys_isr"
  BY DEF IsrTable, TIMER, KEYBOARD, SERIAL, SYSCALL, MYSTERY
<1> QED
  BY <1>1 DEF Isr, Unexpected, Stopped

(* and that for system calls is for one only.                              *)
LEMMA SystemCall ==
  ASSUME Isr("_sys_isr")
  PROVE  vector = SYSCALL
BY DEF Isr, IsrTable

(* The EOI ends what was in service.                                       *)
LEMMA LineEnds ==
  ASSUME NEW line \in Nat, NEW in_service, in_service \subseteq {line}
  PROVE  Eoi(in_service) = {}
<1>1. \A n \in in_service : \A other \in in_service : n <= other
  OBVIOUS
<1> QED
  BY <1>1 DEF Eoi

(* An ISR that leaves every process there is saved, where it behaves.      *)
LEMMA SystemGoes ==
  ASSUME MachineInv, mode = "isr", ~ Unexpected(vector), Done, Types',
         \A p \in live' : Saved(p)' /\ Behaves(p, File(p)')
  PROVE  MachineInv'
<1>1. /\ mode' = "restore" /\ master' = Eoi(master) /\ slave' = slave /\ cpu' = cpu
  BY DEF Done
<1>2. Masked /\ Lines
  BY InSystem DEF Stopped
<1>3. PICK line \in 0 .. 7 : slave = {} /\ master \subseteq {line}
  BY <1>2 DEF Lines
<1>4. master' = {} /\ slave' = {}
  <2>1. line \in Nat
    BY <1>3
  <2> QED
    BY <1>1, <1>3, <2>1, LineEnds
<1>5. Masked' /\ Lines'
  BY <1>1, <1>2, <1>4 DEF Masked, Lines
<1>6. Goes'
  BY <1>1 DEF Goes
<1> QED
  BY <1>5, <1>6 DEF MachineInv

(* Idle, process by process.                                               *)
LEMMA OwnIdle ==
  ASSUME Phase \in {"call", "interrupt"}, live' = live, \A p \in live : File(p)' = File(p)
  PROVE  Own!Idle
<1>1. \A p \in Process : File(p)' = File(p)
  BY FileDead
<1> QED
  BY <1>1 DEF Own!Idle

(* An ISR that changes no process, but perhaps the one that goes on.       *)
LEMMA IdleGoes ==
  ASSUME MachineInv, mode = "isr", ~ Unexpected(vector), Done, current' \in live,
         UNCHANGED <<stack, context, live, status>>
  PROVE  /\ Types' /\ \A p \in live : File(p)' = File(p) /\ Saved(p)'
         /\ Own!Idle /\ Own!Dispatch
<1>1. /\ mode' = "restore" /\ cpu' = cpu /\ vector' = 0
  BY DEF Done
<1>2. /\ Types
      /\ \A p \in live : Saved(p) /\ stack[p] \in Seq(Word)
  BY InSystem DEF Stopped
<1>3. Types'
  BY <1>1, <1>2 DEF Types
<1>4. ASSUME NEW p \in live PROVE File(p)' = File(p) /\ Saved(p)'
  <2>1. p \in live' /\ context'[p] = context[p] /\ stack'[p] = stack[p] /\ mode' # "user"
    BY <1>1
  <2> QED
    BY <1>2, <2>1, FileKept
<1>5. Phase \in {"call", "interrupt"} /\ Phase' = "return"
  BY <1>1, Phases, PhasesNext
<1>6. Own!Idle
  BY <1>4, <1>5, OwnIdle
<1>7. Own!Dispatch
  BY <1>5, <1>6 DEF Own!Dispatch
<1> QED
  BY <1>3, <1>4, <1>6, <1>7

(* The ISRs of the devices: an interrupt is over.                          *)
LEMMA InterruptStep ==
  ASSUME MachineInv, ClkIsr \/ OtherIsr
  PROVE  MachineInv' /\ Own!Dispatch
<1>1. /\ mode = "isr" /\ ~ Unexpected(vector) /\ vector # SYSCALL /\ Done
      /\ current' \in live /\ UNCHANGED <<stack, context, live, status>>
  <2>1. CASE ClkIsr
    BY <2>1, ExpectedIsr DEF ClkIsr
  <2>2. CASE OtherIsr
    <3>1. PICK name \in {"__c_keyboard_isr", "_sio_isr", "__default_mystery_handler"} : Isr(name)
      BY <2>2 DEF OtherIsr
    <3>2. current \in live
      BY DEF MachineInv, Types
    <3> QED
      BY <2>2, <3>1, <3>2, ExpectedIsr DEF OtherIsr
  <2> QED
    BY <2>1, <2>2
<1>2. /\ Types' /\ \A p \in live : File(p)' = File(p) /\ Saved(p)'
      /\ Own!Dispatch
  BY <1>1, IdleGoes
<1>3. \A p \in live : Behaves(p, File(p))
  BY <1>1, InSystem DEF Stopped, Goes
<1>4. \A p \in live' : Saved(p)' /\ Behaves(p, File(p)')
  BY <1>1, <1>2, <1>3
<1>5. MachineInv'
  BY <1>1, <1>2, <1>4, SystemGoes
<1> QED
  BY <1>2, <1>5

(* The handler of the rest: the system stops.                              *)
LEMMA UnexpectedStep ==
  ASSUME MachineInv, UnexpectedHandler
  PROVE  MachineInv' /\ Own!Stop
<1>1. /\ mode = "isr" /\ mode' = "halted"
      /\ UNCHANGED <<cpu, stack, context, current, live, vector, master, slave, status>>
  BY DEF UnexpectedHandler, Isr
<1>2. Types' /\ Masked'
  BY <1>1 DEF MachineInv, Types, Masked
<1>3. Phase' = "stopped"
  BY <1>1, PhasesNext
<1> QED
  BY <1>1, <1>2, <1>3 DEF MachineInv, Stopped, Own!Stop

(* isr_restore is a Return to the process that was dispatched.             *)
LEMMA RestoreStep ==
  ASSUME MachineInv, IsrRestore
  PROVE  MachineInv' /\ Own!Return
<1>1. mode = "restore" /\ mode' = "user" /\ ~ Stopped
  BY DEF IsrRestore, Stopped
<1>2. PICK r \in live : r = current
  BY DEF MachineInv, Types
<1>3. PICK words : words = stack[r]
  OBVIOUS
<1>4. /\ Types /\ Lines /\ Goes /\ Saved(r) /\ words \in Seq(Word)
      /\ File(r) = InContext(words)
      /\ \A p \in live : Saved(p) /\ stack[p] \in Seq(Word)
  BY <1>1, <1>3, InSystem
<1>5. context[r] = <<r, Len(words)>> /\ SubSeq(words, 1, Len(words)) = words
  BY <1>3, <1>4, AllOf DEF Saved
<1>6. /\ cpu' = [f \in Registers |-> words[Len(words) + 1 - IndexIn(RestoreOrder, f)]]
      /\ stack' = [stack EXCEPT ![r] = WithoutContext(words)]
      /\ context' = [context EXCEPT ![r] = <<r, 0>>]
      /\ current' = current /\ live' = live /\ vector' = vector
      /\ master' = master /\ slave' = slave /\ status' = status
  <2>1. /\ context[current][1] = r /\ SubSeq(stack[r], 1, context[current][2]) = words
    BY <1>2, <1>3, <1>5
  <2> QED
    BY <1>2, <2>1 DEF IsrRestore
<1>7. /\ InContext(words).regs \in [Registers -> Word] /\ WithoutContext(words) \in Seq(Word)
      /\ InContext(words).words = WithoutContext(words)
  BY <1>3, <1>4, ContextType DEF Saved
<1>8. cpu' = InContext(words).regs
  BY <1>6, Places DEF InContext, Field, FieldAt
<1>9. r \in Process /\ r \in Process \cup {SystemStack} /\ 0 \in Nat
  BY <1>4 DEF Types
<1>10. Types'
  <2>1. stack' \in [Process \cup {SystemStack} -> Seq(Word)]
    BY <1>4, <1>6, <1>7 DEF Types
  <2>2. context' \in [Process -> (Process \cup {SystemStack}) \X Nat]
    <3>1. <<r, 0>> \in (Process \cup {SystemStack}) \X Nat
      BY <1>9
    <3> QED
      BY <1>4, <1>6, <3>1 DEF Types
  <2> QED
    BY <1>1, <1>4, <1>6, <1>7, <1>8, <2>1, <2>2 DEF Types
<1>11. stack'[r] = WithoutContext(words)
  BY <1>4, <1>6, <1>9 DEF Types
<1>12. File(r)' = File(r)
  <2>1. r \in live' /\ r = current'
    BY <1>2, <1>6
  <2>2. File(r)' = [regs |-> cpu', words |-> stack'[r]]
    BY <1>1, <2>1, FileRunsNext
  <2>3. InContext(words) = [regs |-> InContext(words).regs, words |-> InContext(words).words]
    BY DEF InContext
  <2> QED
    BY <1>4, <1>7, <1>8, <1>11, <2>2, <2>3
<1>13. ASSUME NEW p \in live, p # r PROVE File(p)' = File(p) /\ Saved(p)'
  <2>1. p \in live' /\ p # current /\ p # current' /\ p \in Process
    BY <1>2, <1>4, <1>6, <1>13 DEF Types
  <2>2. context'[p] = context[p] /\ stack'[p] = stack[p]
    BY <1>4, <1>6, <1>13, <2>1 DEF Types
  <2> QED
    BY <1>4, <2>1, <2>2, FileKept
<1>14. \A p \in live : File(p)' = File(p)
  BY <1>12, <1>13
<1>15. Goes'
  <2>1. \A p \in live : Behaves(p, File(p))
    BY <1>1, <1>4 DEF Goes
  <2>2. \A p \in live' : Behaves(p, File(p)')
    BY <1>6, <1>14, <2>1
  <2>3. \A p \in live' : (mode' = "user" /\ p = current') \/ Saved(p)'
    BY <1>1, <1>2, <1>6, <1>13
  <2> QED
    BY <1>1, <2>2, <2>3 DEF Goes
<1>16. Masked' /\ Lines'
  BY <1>1, <1>4, <1>6 DEF Masked, Lines
<1>17. Phase = "return" /\ Phase' = "runs"
  BY <1>1, Phases, PhasesNext
<1>18. \A p \in Process : File(p)' = File(p)
  BY <1>6, <1>14, FileDead
<1> QED
  BY <1>6, <1>10, <1>15, <1>16, <1>17, <1>18 DEF MachineInv, Own!Return

-----------------------------------------------------------------------------
(* The system calls.                                                       *)

(* A context that is stored is the file of its process.                    *)
LEMMA FileStored ==
  ASSUME NEW p, p \in live', mode' # "user", NEW words \in Seq(Word), Len(words) >= SIZE,
         stack'[p] = words, context'[p] = <<p, Len(words)>>
  PROVE  Saved(p)' /\ File(p)' = InContext(words)
<1>1. Saved(p)'
  BY DEF Saved
<1>2. ~ (mode' = "user" /\ p = current') /\ context'[p] = <<p, Len(stack'[p])>>
      /\ stack'[p] \in Seq(Word)
  OBVIOUS
<1>3. File(p)' = InContext(stack'[p])
  BY <1>2, FileSavedNext
<1> QED
  BY <1>1, <1>3

(* What is on the stack at each system call.                               *)
LEMMA CallIs ==
  ASSUME NEW p, NEW f, Call(p, f)
  PROVE  /\ f.regs.eax \in {Code("getpid"), Code("bogus")} =>
              \E k \in 0 .. Len(f.words) : Works(p, f, k, 1) /\ Top(f) = Code("body")
         /\ f.regs.eax = Code("sleep") =>
              \E k \in 0 .. Len(f.words) : Works(p, f, k, 2) /\ Top(f) = Code("body")
         /\ f.regs.eax = Code("fork") =>
              \E k \in 0 .. Len(f.words) : Works(p, f, k, 1) /\ Top(f) = Code("forked")
         /\ f.regs.eax = Code("exec") =>
              \E k \in 0 .. Len(f.words) :
                /\ Frames(p, f, k, 4)
                /\ f.words[Len(f.words) - 1] = Code("entry")
                /\ f.words[Len(f.words) - 2] = Val(1)
         /\ f.regs.eax = Code("exit") =>
              Len(f.words) > 1 /\ f.words[Len(f.words) - 1] = RESULT
<1> DEFINE eax == f.regs.eax
           arg == f.words[Len(f.words) - 1]
           A(k) == eax \in {Code("getpid"), Code("bogus")} /\ Works(p, f, k, 1) /\ Top(f) = Code("body")
           B(k) == eax = Code("sleep") /\ Works(p, f, k, 2) /\ Top(f) = Code("body")
           C(k) == eax = Code("fork") /\ Works(p, f, k, 1) /\ Top(f) = Code("forked")
           D(k) == /\ eax = Code("exec") /\ Frames(p, f, k, 4)
                   /\ arg = Code("entry") /\ f.words[Len(f.words) - 2] = Val(1)
           E == eax = Code("exit") /\ Len(f.words) > 1 /\ arg = RESULT
<1>1. PICK k \in 0 .. Len(f.words) : A(k) \/ B(k) \/ C(k) \/ D(k) \/ E
  BY DEF Call
<1>2. \A l, m : Code(l) = Code(m) <=> l = m
  BY Words
<1>3. /\ eax = Code("getpid") \/ eax = Code("bogus") => A(k)
      /\ eax = Code("sleep") => B(k)
      /\ eax = Code("fork") => C(k)
      /\ eax = Code("exec") => D(k)
      /\ eax = Code("exit") => E
  <2>1. CASE A(k)
    BY <2>1, <1>2
  <2>2. CASE B(k)
    BY <2>2, <1>2
  <2>3. CASE C(k)
    BY <2>3, <1>2
  <2>4. CASE D(k)
    BY <2>4, <1>2
  <2>5. CASE E
    BY <2>5, <1>2
  <2> QED
    BY <1>1, <2>1, <2>2, <2>3, <2>4, <2>5
<1> QED
  BY <1>3

(* What a system call finds.                                               *)
LEMMA InCall ==
  ASSUME MachineInv, NEW code, Called(code)
  PROVE  /\ mode = "isr" /\ vector = SYSCALL /\ ~ Unexpected(vector) /\ ~ Stopped
         /\ Types /\ Goes /\ Phase = "call"
         /\ current \in live /\ Saved(current) /\ stack[current] \in Seq(Word)
         /\ Len(stack[current]) >= SIZE
         /\ File(current) = InContext(stack[current])
         /\ Call(current, File(current))
         /\ File(current).regs.eip = Code("ret") /\ File(current).regs.eax = Code(code)
         /\ \A p \in live : Saved(p) /\ stack[p] \in Seq(Word)
         /\ \A p \in live \ {current} : Behaves(p, File(p))
<1>1. Isr("_sys_isr") /\ Field(stack[current], "eax") = Code(code)
  BY DEF Called
<1>2. mode = "isr" /\ vector = SYSCALL /\ ~ Unexpected(vector) /\ ~ Stopped
  BY <1>1, ExpectedIsr, SystemCall
<1>3. /\ Types /\ Goes
      /\ \A p \in live : Saved(p) /\ stack[p] \in Seq(Word) /\ File(p) = InContext(stack[p])
  BY <1>2, InSystem
<1>4. current \in live
  BY <1>3 DEF Types
<1>5. "eax" \in Registers
  BY DEF Registers
<1>6. File(current).regs.eax = Code(code)
  BY <1>1, <1>3, <1>4, <1>5 DEF InContext
<1>7. Call(current, File(current)) /\ File(current).regs.eip = Code("ret")
  BY <1>2, <1>3, <1>4 DEF Goes
<1>8. \A p \in live \ {current} : Behaves(p, File(p))
  BY <1>3 DEF Goes
<1> QED
  BY <1>2, <1>3, <1>4, <1>6, <1>7, <1>8, Phases DEF Saved

(* The answer is in EAX, and the rest as it was.                           *)
LEMMA AnswerKeeps ==
  ASSUME NEW p, NEW f, NEW g, g.words = f.words, g.regs.ebp = f.regs.ebp
  PROVE  /\ Top(g) = Top(f)
         /\ \A k, n : /\ Frames(p, f, k, n) => Frames(p, g, k, n)
                      /\ Works(p, f, k, n) => Works(p, g, k, n)
BY DEF Top, Frames, Works

(* A call that was answered is one to return from.                         *)
LEMMA AnsweredCall ==
  ASSUME NEW p, NEW f, NEW g, Call(p, f), g.words = f.words, g.regs.ebp = f.regs.ebp,
         f.regs.eax \in {Code("getpid"), Code("sleep"), Code("fork")}
  PROVE  Answered(p, g)
<1>1. /\ Top(g) = Top(f)
      /\ \A k, n : /\ Works(p, f, k, n) => Works(p, g, k, n)
  BY AnswerKeeps
<1>2. CASE f.regs.eax = Code("getpid")
  <2>1. PICK k \in 0 .. Len(f.words) : Works(p, f, k, 1) /\ Top(f) = Code("body")
    BY <1>2, CallIs
  <2>2. k \in 1 .. Len(g.words) /\ Works(p, g, k, 1)
    BY <1>1, <2>1 DEF Works, Frames
  <2> QED
    BY <1>1, <2>1, <2>2 DEF Answered
<1>3. CASE f.regs.eax = Code("sleep")
  <2>1. PICK k \in 0 .. Len(f.words) : Works(p, f, k, 2) /\ Top(f) = Code("body")
    BY <1>3, CallIs
  <2>2. k \in 1 .. Len(g.words) /\ Works(p, g, k, 2)
    BY <1>1, <2>1 DEF Works, Frames
  <2> QED
    BY <1>1, <2>1, <2>2 DEF Answered
<1>4. CASE f.regs.eax = Code("fork")
  <2>1. PICK k \in 0 .. Len(f.words) : Works(p, f, k, 1) /\ Top(f) = Code("forked")
    BY <1>4, CallIs
  <2>2. k \in 1 .. Len(g.words) /\ Works(p, g, k, 1)
    BY <1>1, <2>1 DEF Works, Frames
  <2>3. Frames(p, g, k, 1) /\ Chain(p, g.words, k)
    BY <2>2 DEF Works
  <2> QED
    BY <1>1, <2>1, <2>2, <2>3 DEF Answered
<1> QED
  BY <1>2, <1>3, <1>4

(* A process that was answered goes on in the stub.                        *)
LEMMA BehavesRet ==
  ASSUME NEW p, NEW f, f.regs.eip = Code("ret"), Answered(p, f), Len(f.words) \in Nat
  PROVE  Behaves(p, f)
<1>1. 0 \in 0 .. Len(f.words)
  OBVIOUS
<1> QED
  BY <1>1 DEF Behaves

(* RET(pcb): the answer goes to EAX of the context, and nothing else.      *)
LEMMA AnswerWritten ==
  ASSUME MachineInv, NEW code, Called(code), NEW r, r = current, NEW val \in Word,
         mode' # "user", r \in live', stack'[r] = SetField(stack[r], "eax", val),
         context'[r] = context[r]
  PROVE  /\ Saved(r)' /\ stack'[r] \in Seq(Word)
         /\ File(r)' = [File(r) EXCEPT !.regs.eax = val]
         /\ File(r)'.regs.eax = val /\ File(r)'.regs.eip = Code("ret")
         /\ File(r)'.regs.ebp = File(r).regs.ebp /\ File(r)'.words = File(r).words
<1> DEFINE s == stack[r]
           after == SetField(s, "eax", val)
<1>1. /\ Saved(r) /\ s \in Seq(Word) /\ Len(s) >= SIZE
      /\ File(r) = InContext(s) /\ File(r).regs.eip = Code("ret")
  BY InCall
<1>2. context[r] = <<r, Len(s)>>
  BY <1>1 DEF Saved
<1>3. "eax" \in Registers /\ "ebp" \in Registers /\ "eip" \in Registers
  BY DEF Registers
<1>4. stack'[r] = after /\ context'[r] = <<r, Len(s)>>
  BY <1>2
<1> HIDE DEF s
<1>5. /\ after \in Seq(Word) /\ Len(after) = Len(s)
      /\ InContext(after) = [InContext(s) EXCEPT !.regs["eax"] = val]
  BY <1>1, <1>3, StoredInContext
<1> HIDE DEF after
<1>6. context'[r] = <<r, Len(after)>> /\ Len(after) >= SIZE
  BY <1>1, <1>4, <1>5
<1>7. Saved(r)' /\ File(r)' = InContext(after)
  BY <1>4, <1>5, <1>6, FileStored
<1>8. InContext(s).regs \in [Registers -> Word]
  BY <1>1, ContextType
<1>9. /\ InContext(after) = [InContext(s) EXCEPT !.regs.eax = val]
      /\ InContext(after).regs = [InContext(s).regs EXCEPT !.eax = val]
      /\ InContext(after).words = InContext(s).words
  BY <1>5 DEF InContext
<1>10. /\ InContext(after).regs.eax = val /\ InContext(after).regs.eip = InContext(s).regs.eip
       /\ InContext(after).regs.ebp = InContext(s).regs.ebp
  BY <1>3, <1>8, <1>9
<1> QED
  BY <1>1, <1>4, <1>5, <1>7, <1>9, <1>10

(* The files of the other processes stay as they are.                      *)
LEMMA OthersKept ==
  ASSUME MachineInv, mode = "isr", ~ Unexpected(vector), NEW r, mode' # "user",
         \A q \in live \ {r} : q \in live' /\ context'[q] = context[q] /\ stack'[q] = stack[q]
  PROVE  \A q \in live \ {r} : File(q)' = File(q) /\ Saved(q)'
<1>1. \A q \in live : Saved(q) /\ stack[q] \in Seq(Word)
  BY InSystem DEF Stopped
<1> QED
  BY <1>1, FileKept

(* getpid(), and fork() when there is no PCB.                              *)
LEMMA AnswerStep ==
  ASSUME MachineInv, NEW code \in {"getpid", "fork"}, Called(code), Done,
         NEW val \in Word,
         stack' = [stack EXCEPT ![current] = SetField(@, "eax", val)],
         UNCHANGED <<context, current, live, status>>
  PROVE  MachineInv' /\ Own!Dispatch
<1>1. PICK r : r = current
  OBVIOUS
<1>2. /\ mode = "isr" /\ ~ Unexpected(vector) /\ Types /\ Phase = "call"
      /\ r \in live /\ Call(r, File(r)) /\ File(r).regs.eax = Code(code)
      /\ \A p \in live \ {r} : Behaves(p, File(p))
  BY <1>1, InCall
<1>3. mode' = "restore" /\ vector' = 0 /\ cpu' = cpu
  BY DEF Done
<1>4. r \in Process \cup {SystemStack} /\ r \in Process
  BY <1>2 DEF Types
<1>5. stack'[r] = SetField(stack[r], "eax", val) /\ \A q \in live \ {r} : stack'[q] = stack[q]
  BY <1>1, <1>2, <1>4 DEF Types
<1>6. /\ Saved(r)' /\ stack'[r] \in Seq(Word)
      /\ File(r)' = [File(r) EXCEPT !.regs.eax = val]
      /\ File(r)'.regs.eax = val /\ File(r)'.regs.eip = Code("ret")
      /\ File(r)'.regs.ebp = File(r).regs.ebp /\ File(r)'.words = File(r).words
  <2>1. mode' # "user" /\ r \in live' /\ context'[r] = context[r]
    BY <1>2, <1>3
  <2> QED
    BY <1>1, <1>5, <2>1, AnswerWritten
<1>7. \A q \in live \ {r} : File(q)' = File(q) /\ Saved(q)'
  <2>1. \A q \in live \ {r} : q \in live' /\ context'[q] = context[q] /\ stack'[q] = stack[q]
    BY <1>5
  <2>2. mode' # "user"
    BY <1>3
  <2> QED
    BY <1>2, <2>1, <2>2, OthersKept
<1>8. Types'
  <2>1. stack' = [stack EXCEPT ![r] = stack'[r]]
    BY <1>1, <1>5
  <2>2. stack' \in [Process \cup {SystemStack} -> Seq(Word)]
    BY <1>2, <1>4, <1>6, <2>1 DEF Types
  <2> QED
    BY <1>2, <1>3, <2>2 DEF Types
<1>9. Behaves(r, File(r)')
  <2>1. Answered(r, File(r)')
    BY <1>2, <1>6, AnsweredCall
  <2>2. Len(File(r)'.words) \in Nat
    <3>1. stack[r] \in Seq(Word) /\ Saved(r) /\ File(r) = InContext(stack[r])
      BY <1>1, InCall
    <3> QED
      BY <1>6, <3>1, FileType
  <2> QED
    BY <1>6, <2>1, <2>2, BehavesRet
<1>10. \A p \in live' : Saved(p)' /\ Behaves(p, File(p)')
  BY <1>2, <1>6, <1>7, <1>9
<1>11. MachineInv'
  BY <1>2, <1>8, <1>10, SystemGoes
<1>12. Phase' = "return" /\ current' \in live'
  BY <1>1, <1>2, <1>3, PhasesNext
<1>13. Own!OnlyOf(current)
  BY <1>1, <1>2, <1>7, OwnOnlyOf
<1>14. Own!Answer
  <2>1. /\ [p \in Process |-> File(p)][current] = File(r)
        /\ ([p \in Process |-> File(p)]')[current] = File(r)'
    BY <1>1, <1>4
  <2> QED
    BY <1>2, <1>6, <1>13, <2>1 DEF Own!Answer
<1> QED
  BY <1>11, <1>12, <1>14 DEF Own!Dispatch

(* getpid().                                                               *)
LEMMA SysGetpidStep ==
  ASSUME MachineInv, SysGetpid
  PROVE  MachineInv' /\ Own!Dispatch
<1>1. Called("getpid") /\ Done /\ stack' = [stack EXCEPT ![current] = SetField(@, "eax", Val(current))]
      /\ UNCHANGED <<context, current, live, status>>
  BY DEF SysGetpid
<1>2. Val(current) \in Word
  <2>1. current \in Nat
    BY MachineConstants DEF MachineInv, Types
  <2> QED
    BY <2>1, Words
<1> QED
  BY <1>1, <1>2, AnswerStep

(* fork(), with all PCBs in use.                                           *)
LEMMA SysForkFailsStep ==
  ASSUME MachineInv, SysForkFails
  PROVE  MachineInv' /\ Own!Dispatch
<1>1. Called("fork") /\ Done /\ stack' = [stack EXCEPT ![current] = SetField(@, "eax", Val(255))]
      /\ UNCHANGED <<context, current, live, status>>
  BY DEF SysForkFails
<1>2. Val(255) \in Word
  <2>1. 255 \in Nat
    OBVIOUS
  <2> QED
    BY <2>1, Words
<1> QED
  BY <1>1, <1>2, AnswerStep

(* sleep().                                                                *)
LEMMA SysSleepStep ==
  ASSUME MachineInv, SysSleep
  PROVE  MachineInv' /\ Own!Dispatch
<1>1. Called("sleep") /\ Done /\ current' \in live /\ UNCHANGED <<stack, context, live, status>>
  BY DEF SysSleep
<1>2. PICK r : r = current
  OBVIOUS
<1>3. /\ mode = "isr" /\ ~ Unexpected(vector) /\ r \in live
      /\ Call(r, File(r)) /\ File(r).regs.eax = Code("sleep") /\ File(r).regs.eip = Code("ret")
      /\ stack[r] \in Seq(Word) /\ Saved(r) /\ File(r) = InContext(stack[r])
      /\ \A p \in live \ {r} : Behaves(p, File(p))
  BY <1>1, <1>2, InCall
<1>4. /\ Types' /\ \A p \in live : File(p)' = File(p) /\ Saved(p)'
      /\ Own!Dispatch
  BY <1>1, <1>3, IdleGoes
<1>5. Behaves(r, File(r))
  <2>1. Answered(r, File(r))
    BY <1>3, AnsweredCall
  <2> QED
    BY <1>3, <2>1, FileType, BehavesRet
<1>6. \A p \in live' : Saved(p)' /\ Behaves(p, File(p)')
  BY <1>1, <1>3, <1>4, <1>5
<1>7. MachineInv'
  BY <1>1, <1>3, <1>4, <1>6, SystemGoes
<1> QED
  BY <1>4, <1>7

(* The arguments of a call are under its context and return address.       *)
LEMMA Arguments ==
  ASSUME NEW p, stack[p] \in Seq(Word), Saved(p), NEW n \in Nat,
         NEW f, f = InContext(stack[p]), Len(f.words) > n
  PROVE  /\ Arg(stack[p], n) = f.words[Len(f.words) - n]
         /\ Len(stack[p]) - SIZE - n \in 1 .. Len(stack[p])
<1>1. PICK m \in Nat : m = Len(stack[p])
  OBVIOUS
<1>2. /\ SIZE = 18 /\ m >= 18 /\ Len(f.words) = m - 18
      /\ \A i \in 1 .. m - 18 : f.words[i] = stack[p][i]
  BY <1>1, FileType
<1>3. m - 18 - n \in 1 .. m - 18 /\ m - 18 - n \in 1 .. m
  BY <1>2
<1> QED
  BY <1>1, <1>2, <1>3 DEF Arg

(* What _stk_setup() makes is a program that is about to begin.            *)
LEMMA Setup ==
  ASSUME NEW p \in Nat, NEW entry \in Word, NEW arg \in Word
  PROVE  /\ StkSetup(entry, arg) \in Seq(Word) /\ Len(StkSetup(entry, arg)) = 21
         /\ FreshFile(entry, arg) = InContext(StkSetup(entry, arg))
         /\ entry = Code("entry") => Behaves(p, FreshFile(entry, arg))
<1> DEFINE words == StkSetup(entry, arg)
           f     == InContext(words)
<1>1. /\ words \in Seq(Word) /\ Len(words) = 21
      /\ f.regs.eip = entry /\ f.regs.ebp = Val(0)
      /\ f.words = <<Val(0), arg, Code("do_exit")>>
  BY SetupContext
<1>2. FreshFile(entry, arg) = f
  BY DEF FreshFile, InContext
<1> HIDE DEF words, f
<1>3. Len(f.words) = 3 /\ f.words[3] = Code("do_exit")
  BY <1>1
<1>4. Chain(p, f.words, 0)
  BY <1>3 DEF Chain
<1>5. Begins(p, f, 0)
  BY <1>1, <1>3, <1>4 DEF Begins, FrameOf
<1>6. entry = Code("entry") => Behaves(p, f)
  <2>1. 0 \in 0 .. Len(f.words)
    BY <1>3
  <2> QED
    BY <1>1, <1>5, <2>1 DEF Behaves
<1> QED
  BY <1>1, <1>2, <1>6 DEF words, f

(* exec() is an Exec: the arguments are where the code looks for them.     *)
LEMMA SysExecStep ==
  ASSUME MachineInv, SysExec
  PROVE  MachineInv' /\ Own!Dispatch
<1> DEFINE entry == Arg(stack[current], 1)
           arg   == Arg(stack[current], 2)
           words == StkSetup(entry, arg)
<1>1. /\ Called("exec") /\ Done
      /\ stack' = [stack EXCEPT ![current] = words]
      /\ context' = [context EXCEPT ![current] = <<current, Len(words)>>]
      /\ UNCHANGED <<current, live, status>>
  BY DEF SysExec
<1>2. PICK r : r = current
  OBVIOUS
<1>3. PICK f : f = File(r)
  OBVIOUS
<1>4. /\ mode = "isr" /\ ~ Unexpected(vector) /\ Types /\ Phase = "call"
      /\ r \in live /\ Call(r, f) /\ f.regs.eax = Code("exec")
      /\ stack[r] \in Seq(Word) /\ Saved(r) /\ f = InContext(stack[r])
      /\ \A p \in live \ {r} : Behaves(p, File(p))
  BY <1>1, <1>2, <1>3, InCall
<1>5. mode' = "restore" /\ vector' = 0 /\ cpu' = cpu
  BY <1>1 DEF Done
<1>6. /\ f.words[Len(f.words) - 1] = Code("entry") /\ f.words[Len(f.words) - 2] = Val(1)
      /\ Len(f.words) > 2
  <2>1. PICK k \in 0 .. Len(f.words) :
          /\ Frames(r, f, k, 4)
          /\ f.words[Len(f.words) - 1] = Code("entry")
          /\ f.words[Len(f.words) - 2] = Val(1)
    BY <1>4, CallIs
  <2>2. Len(f.words) > 2
    BY <2>1 DEF Frames
  <2> QED
    BY <2>1, <2>2
<1>7. entry = Code("entry") /\ arg = Val(1)
  <2>1. Len(f.words) > 1
    BY <1>4, <1>6, FileType
  <2> QED
    BY <1>2, <1>4, <1>6, <2>1, Arguments
<1>8. entry \in Word /\ arg \in Word
  <2>1. "entry" \in Labels /\ 1 \in Nat
    BY DEF Labels
  <2> QED
    BY <1>7, <2>1, Words
<1> HIDE DEF entry, arg
<1>9. r \in Nat /\ r \in Process /\ r \in Process \cup {SystemStack}
  BY <1>4, MachineConstants DEF Types
<1>10. /\ words \in Seq(Word) /\ Len(words) = 21 /\ FreshFile(entry, arg) = InContext(words)
       /\ Behaves(r, FreshFile(entry, arg))
  BY <1>7, <1>8, <1>9, Setup
<1> HIDE DEF words
<1>11. /\ stack'[r] = words /\ context'[r] = <<r, Len(words)>>
       /\ \A q \in live \ {r} : stack'[q] = stack[q] /\ context'[q] = context[q]
  BY <1>1, <1>2, <1>4, <1>9 DEF Types
<1>12. Saved(r)' /\ File(r)' = FreshFile(entry, arg)
  <2>1. r \in live' /\ mode' # "user" /\ Len(words) >= SIZE
    BY <1>1, <1>4, <1>5, <1>10, Places
  <2> QED
    BY <1>10, <1>11, <2>1, FileStored
<1>13. \A q \in live \ {r} : File(q)' = File(q) /\ Saved(q)'
  <2>1. \A q \in live \ {r} : q \in live' /\ context'[q] = context[q] /\ stack'[q] = stack[q]
    BY <1>1, <1>11
  <2>2. mode' # "user"
    BY <1>5
  <2> QED
    BY <1>4, <2>1, <2>2, OthersKept
<1>14. Types'
  <2>1. stack' \in [Process \cup {SystemStack} -> Seq(Word)]
    BY <1>1, <1>2, <1>4, <1>9, <1>10 DEF Types
  <2>2. context' \in [Process -> (Process \cup {SystemStack}) \X Nat]
    <3>1. <<r, 21>> \in (Process \cup {SystemStack}) \X Nat
      BY <1>9
    <3> QED
      BY <1>1, <1>2, <1>4, <1>10, <3>1 DEF Types
  <2> QED
    BY <1>1, <1>4, <1>5, <2>1, <2>2 DEF Types
<1>15. \A p \in live' : Saved(p)' /\ Behaves(p, File(p)')
  BY <1>1, <1>4, <1>10, <1>12, <1>13
<1>16. MachineInv'
  BY <1>1, <1>4, <1>14, <1>15, SystemGoes
<1>17. Phase' = "return" /\ current' \in live'
  BY <1>1, <1>2, <1>4, <1>5, PhasesNext
<1>18. Own!OnlyOf(current)
  BY <1>2, <1>4, <1>13, OwnOnlyOf
<1>19. Own!Exec
  <2>1. /\ [p \in Process |-> File(p)][current] = File(r)
        /\ ([p \in Process |-> File(p)]')[current] = File(r)'
    BY <1>1, <1>2, <1>9
  <2>2. File(r)' = FreshFile(File(r).words[Len(File(r).words) - 1],
                             File(r).words[Len(File(r).words) - 2])
    BY <1>3, <1>6, <1>7, <1>12
  <2> QED
    BY <1>1, <1>4, <1>18, <2>1, <2>2 DEF Own!Exec
<1> QED
  BY <1>1, <1>16, <1>17, <1>19 DEF Own!Dispatch

(* exit(), and a bogus call: the status is the argument, or EXIT_BAD_CODE. *)
LEMMA SysExitStep ==
  ASSUME MachineInv, SysExit
  PROVE  MachineInv' /\ Own!Dispatch
<1> DEFINE words == IF Called("bogus") THEN SetArg(stack[current], 1, EXIT_BAD_CODE)
                    ELSE stack[current]
<1>1. /\ Called("exit") \/ Called("bogus")
      /\ Done /\ status' = Arg(words, 1) /\ stack' = [stack EXCEPT ![current] = << >>]
      /\ context' = [context EXCEPT ![current] = <<current, 0>>]
      /\ live' = live \ {current} /\ current' \in live'
  BY DEF SysExit
<1>2. PICK r : r = current
  OBVIOUS
<1>3. PICK f : f = File(r)
  OBVIOUS
<1>4. /\ mode = "isr" /\ ~ Unexpected(vector) /\ Types /\ Phase = "call"
      /\ r \in live /\ Call(r, f) /\ (f.regs.eax = Code("exit") \/ f.regs.eax = Code("bogus"))
      /\ stack[r] \in Seq(Word) /\ Saved(r) /\ f = InContext(stack[r])
      /\ \A p \in live \ {r} : Behaves(p, File(p))
  BY <1>1, <1>2, <1>3, InCall
<1>5. mode' = "restore" /\ vector' = 0 /\ cpu' = cpu
  BY <1>1 DEF Done
<1>6. status' \in {RESULT, EXIT_BAD_CODE}
  <2>1. CASE Called("bogus")
    <3>1. f.regs.eax = Code("bogus")
      BY <1>2, <1>3, <2>1, InCall
    <3>2. PICK k \in 0 .. Len(f.words) : Works(r, f, k, 1)
      BY <1>4, <3>1, CallIs
    <3>3. Len(f.words) > 1
      BY <3>2 DEF Works, Frames
    <3>4. Len(stack[r]) - SIZE - 1 \in 1 .. Len(stack[r])
      BY <1>4, <3>3, Arguments
    <3>5. words = [stack[r] EXCEPT ![Len(stack[r]) - SIZE - 1] = EXIT_BAD_CODE]
      BY <1>2, <2>1 DEF SetArg
    <3>6. Len(words) = Len(stack[r])
          /\ words[Len(stack[r]) - SIZE - 1] = EXIT_BAD_CODE
      BY <1>4, <3>4, <3>5
    <3> QED
      BY <1>1, <3>6 DEF Arg
  <2>2. CASE ~ Called("bogus")
    <3>1. f.regs.eax = Code("exit")
      BY <1>1, <1>2, <1>3, <2>2, InCall
    <3>2. Len(f.words) > 1 /\ f.words[Len(f.words) - 1] = RESULT
      BY <1>4, <3>1, CallIs
    <3>3. Arg(stack[r], 1) = RESULT
      BY <1>4, <3>2, Arguments
    <3> QED
      BY <1>1, <1>2, <2>2, <3>3
  <2> QED
    BY <2>1, <2>2
<1>7. /\ r \in Process /\ r \in Process \cup {SystemStack}
      /\ live' \subseteq live /\ r \notin live'
      /\ \A q \in live \ {r} : q \in live' /\ stack'[q] = stack[q] /\ context'[q] = context[q]
  BY <1>1, <1>2, <1>4 DEF Types
<1>8. \A q \in live \ {r} : File(q)' = File(q) /\ Saved(q)'
  <2>1. mode' # "user"
    BY <1>5
  <2> QED
    BY <1>4, <1>7, <2>1, OthersKept
<1>9. Types'
  <2>1. stack' \in [Process \cup {SystemStack} -> Seq(Word)]
    BY <1>1, <1>2, <1>4, <1>7 DEF Types
  <2>2. context' \in [Process -> (Process \cup {SystemStack}) \X Nat]
    <3>1. <<r, 0>> \in (Process \cup {SystemStack}) \X Nat
      BY <1>7
    <3> QED
      BY <1>1, <1>2, <1>4, <3>1 DEF Types
  <2> QED
    BY <1>1, <1>4, <1>5, <1>6, <1>7, <2>1, <2>2 DEF Types
<1>10. \A p \in live' : Saved(p)' /\ Behaves(p, File(p)')
  BY <1>4, <1>7, <1>8
<1>11. MachineInv'
  BY <1>1, <1>4, <1>9, <1>10, SystemGoes
<1>12. Phase' = "return"
  BY <1>5, PhasesNext
<1>13. Own!OnlyOf(current)
  BY <1>2, <1>4, <1>8, OwnOnlyOf
<1>14. Own!Exit
  BY <1>1, <1>4, <1>6, <1>13 DEF Own!Exit
<1> QED
  BY <1>1, <1>11, <1>12, <1>14 DEF Own!Dispatch

(* What the child of a fork() is given.                                    *)
LEMMA ChildWritten ==
  ASSUME NEW words \in Seq(Word), Len(words) >= SIZE, NEW f, f = InContext(words),
         NEW child \in Nat, NEW r \in Nat, NEW k \in Nat, Works(r, f, k, 1),
         Top(f) = Code("forked"), f.regs.eip = Code("ret"),
         NEW after,
         after = SetField(SetField(words, "ebp", Moved(Field(words, "ebp"), child)), "eax", Val(0))
  PROVE  /\ after \in Seq(Word) /\ Len(after) = Len(words)
         /\ InContext(after) = [MovedFile(f, child) EXCEPT !.regs.eax = Val(0)]
         /\ Behaves(child, InContext(after))
<1> DEFINE ebp   == Moved(Field(words, "ebp"), child)
           first == SetField(words, "ebp", ebp)
           g     == InContext(after)
<1>1. "eax" \in Registers /\ "ebp" \in Registers /\ "eip" \in Registers
  BY DEF Registers
<1>2. k > 0 /\ f.regs.ebp = Ptr(r, 3 * k + 1) /\ Len(f.words) = 3 * k + 3
  BY DEF Works, Frames, FrameOf
<1>3. Field(words, "ebp") = f.regs.ebp
  BY <1>1 DEF InContext
<1>4. 3 * k + 1 \in Nat
  OBVIOUS
<1>5. ebp = Ptr(child, 3 * k + 1) /\ ebp \in Word
  <2>1. Field(words, "ebp")[1] = "ptr" /\ Field(words, "ebp")[3] = 3 * k + 1
    BY <1>2, <1>3, <1>4, Words
  <2>2. ebp = Ptr(child, 3 * k + 1)
    BY <2>1 DEF Moved
  <2> QED
    BY <1>4, <2>2, Words
<1>6. ebp = FrameOf(child, k)
  BY <1>2, <1>5 DEF FrameOf
<1>7. f.regs \in [Registers -> Word] /\ f = [regs |-> f.regs, words |-> f.words]
  <2>1. InContext(words).regs \in [Registers -> Word]
    BY ContextType
  <2> QED
    BY <2>1 DEF InContext
<1>8. ebp = Moved(f.regs.ebp, child)
  BY <1>3
<1>9. after = SetField(first, "eax", Val(0))
  OBVIOUS
<1>10. /\ first \in Seq(Word) /\ Len(first) = Len(words)
       /\ InContext(first) = [f EXCEPT !.regs["ebp"] = ebp]
  BY <1>1, <1>5, StoredInContext
<1> HIDE DEF first
<1> HIDE DEF ebp
<1> DEFINE zero == Val(0)
           last == SetField(first, "eax", zero)
<1>11. /\ after \in Seq(Word) /\ Len(after) = Len(words)
       /\ g = [InContext(first) EXCEPT !.regs["eax"] = Val(0)]
  <2>1. zero \in Word
    <3>1. 0 \in Nat
      OBVIOUS
    <3> QED
      BY <3>1, Words
  <2>2. first \in Seq(Word) /\ Len(first) >= SIZE /\ "eax" \in Registers
    BY <1>1, <1>10
  <2>3. after = last
    BY <1>9
  <2> HIDE DEF zero
  <2>4. /\ last \in Seq(Word) /\ Len(last) = Len(first)
        /\ InContext(last) = [InContext(first) EXCEPT !.regs["eax"] = zero]
    BY <2>1, <2>2, StoredInContext
  <2> HIDE DEF last
  <2> QED
    BY <1>10, <2>3, <2>4 DEF zero
<1> HIDE DEF g
<1>12. MovedFile(f, child) = [f EXCEPT !.regs.ebp = ebp]
  BY <1>7, <1>8 DEF MovedFile
<1>13. g = [MovedFile(f, child) EXCEPT !.regs.eax = Val(0)]
  BY <1>10, <1>11, <1>12
<1>14. /\ g.words = f.words /\ g.regs.eax = Val(0) /\ g.regs.ebp = ebp
       /\ g.regs.eip = Code("ret")
  BY <1>1, <1>7, <1>12, <1>13
<1>15. Frames(child, g, k, 1) /\ Top(g) = Code("forked") /\ k \in 1 .. Len(g.words)
  BY <1>2, <1>6, <1>14 DEF Frames, Top
<1>16. Answered(child, g)
  BY <1>14, <1>15 DEF Answered
<1>17. Behaves(child, g)
  BY <1>2, <1>14, <1>16, BehavesRet
<1> QED
  BY <1>11, <1>13, <1>17 DEF g

(* fork() is a Fork: the child is the parent on another stack.             *)
LEMMA SysForkStep ==
  ASSUME MachineInv, SysFork
  PROVE  MachineInv' /\ Own!Dispatch
<1>1. Called("fork") /\ Done /\ current' = current /\ status' = status
  BY DEF SysFork
<1>2. PICK r : r = current
  OBVIOUS
<1>3. PICK words : words = stack[r]
  OBVIOUS
<1>4. PICK f : f = File(r)
  OBVIOUS
<1>5. PICK child \in Process \ live :
        /\ live' = live \cup {child}
        /\ context' = [context EXCEPT ![child] = <<child, context[r][2]>>]
        /\ stack' = [stack EXCEPT
             ![child] = SetField(SetField(words, "ebp", Moved(Field(words, "ebp"), child)),
                                 "eax", Val(0)),
             ![r]     = SetField(@, "eax", Val(child))]
  BY <1>2, <1>3 DEF SysFork
<1> DEFINE after == SetField(SetField(words, "ebp", Moved(Field(words, "ebp"), child)),
                             "eax", Val(0))
<1>6. /\ mode = "isr" /\ ~ Unexpected(vector) /\ Types /\ Phase = "call"
      /\ r \in live /\ Call(r, f) /\ f.regs.eax = Code("fork") /\ f.regs.eip = Code("ret")
      /\ words \in Seq(Word) /\ Len(words) >= SIZE /\ Saved(r) /\ f = InContext(words)
      /\ \A p \in live \ {r} : Behaves(p, File(p))
  BY <1>1, <1>2, <1>3, <1>4, InCall
<1>7. mode' = "restore" /\ vector' = 0 /\ cpu' = cpu
  BY <1>1 DEF Done
<1>8. /\ r \in Nat /\ r \in Process /\ child \in Nat /\ child \in Process /\ child # r
      /\ r \in Process \cup {SystemStack} /\ child \in Process \cup {SystemStack}
  BY <1>5, <1>6, MachineConstants DEF Types
<1> HIDE DEF after
<1>9. /\ after \in Seq(Word) /\ Len(after) = Len(words)
      /\ InContext(after) = [MovedFile(f, child) EXCEPT !.regs.eax = Val(0)]
      /\ Behaves(child, InContext(after))
  <2>1. PICK k \in 0 .. Len(f.words) : Works(r, f, k, 1) /\ Top(f) = Code("forked")
    BY <1>6, CallIs
  <2>2. k \in Nat
    OBVIOUS
  <2> QED
    BY <1>6, <1>8, <2>1, <2>2, ChildWritten DEF after
<1>10. /\ stack'[child] = after
       /\ stack'[r] = SetField(stack[r], "eax", Val(child))
       /\ \A q \in live \ {r} : stack'[q] = stack[q]
       /\ stack' = [stack EXCEPT ![child] = stack'[child], ![r] = stack'[r]]
  <2>1. stack' = [stack EXCEPT ![child] = after, ![r] = SetField(@, "eax", Val(child))]
    BY <1>5 DEF after
  <2>2. \A q \in live : q # child /\ q \in Process \cup {SystemStack}
    BY <1>5, <1>6 DEF Types
  <2> QED
    BY <1>6, <1>8, <2>1, <2>2 DEF Types
<1>11. /\ context'[child] = <<child, Len(words)>>
       /\ \A q \in live : context'[q] = context[q]
  <2>1. context[r][2] = Len(words)
    BY <1>3, <1>6 DEF Saved
  <2>2. \A q \in live : q # child /\ q \in Process
    BY <1>5, <1>6 DEF Types
  <2> QED
    BY <1>5, <1>6, <1>8, <2>1, <2>2 DEF Types
<1>12. Val(child) \in Word
  BY <1>8, Words
<1>13. /\ Saved(r)' /\ stack'[r] \in Seq(Word)
       /\ File(r)' = [File(r) EXCEPT !.regs.eax = Val(child)]
       /\ File(r)'.regs.eax = Val(child) /\ File(r)'.regs.eip = Code("ret")
       /\ File(r)'.regs.ebp = f.regs.ebp /\ File(r)'.words = f.words
  <2>1. mode' # "user" /\ r \in live' /\ context'[r] = context[r]
    BY <1>5, <1>6, <1>7, <1>11
  <2> QED
    BY <1>1, <1>2, <1>4, <1>10, <1>12, <2>1, AnswerWritten
<1>14. Saved(child)' /\ File(child)' = InContext(after)
  <2>1. child \in live' /\ mode' # "user" /\ context'[child] = <<child, Len(after)>>
        /\ Len(after) >= SIZE
    BY <1>5, <1>6, <1>7, <1>9, <1>11
  <2> QED
    BY <1>9, <1>10, <2>1, FileStored
<1>15. \A q \in live \ {r} : File(q)' = File(q) /\ Saved(q)'
  <2>1. \A q \in live \ {r} : q \in live' /\ context'[q] = context[q] /\ stack'[q] = stack[q]
    BY <1>5, <1>10, <1>11
  <2>2. mode' # "user"
    BY <1>7
  <2> QED
    BY <1>6, <2>1, <2>2, OthersKept
<1>16. Types'
  <2>1. stack' \in [Process \cup {SystemStack} -> Seq(Word)]
    <3>1. stack'[child] \in Seq(Word) /\ stack'[r] \in Seq(Word)
      BY <1>9, <1>10, <1>13
    <3> QED
      BY <1>6, <1>8, <1>10, <3>1 DEF Types
  <2>2. context' \in [Process -> (Process \cup {SystemStack}) \X Nat]
    <3>1. context[r][2] \in Nat
      BY <1>3, <1>6 DEF Saved
    <3>2. <<child, context[r][2]>> \in (Process \cup {SystemStack}) \X Nat
      BY <1>8, <3>1
    <3> QED
      BY <1>5, <1>6, <1>8, <3>2 DEF Types
  <2>3. live' \subseteq Process /\ current' \in live'
    BY <1>1, <1>2, <1>5, <1>6, <1>8 DEF Types
  <2> QED
    BY <1>1, <1>6, <1>7, <2>1, <2>2, <2>3 DEF Types
<1>17. Behaves(r, File(r)')
  <2>1. Answered(r, File(r)')
    BY <1>6, <1>13, AnsweredCall
  <2>2. Len(File(r)'.words) \in Nat
    <3>1. stack[r] \in Seq(Word) /\ f = InContext(stack[r])
      BY <1>3, <1>6
    <3>2. Len(f.words) \in Nat
      BY <1>6, <3>1, FileType
    <3> QED
      BY <1>13, <3>2
  <2> QED
    BY <1>13, <2>1, <2>2, BehavesRet
<1>18. \A p \in live' : Saved(p)' /\ Behaves(p, File(p)')
  <2>1. \A p \in live' : p = child \/ p = r \/ p \in live \ {r}
    BY <1>5
  <2> QED
    BY <1>6, <1>9, <1>13, <1>14, <1>15, <1>17, <2>1
<1>19. MachineInv'
  BY <1>1, <1>6, <1>16, <1>18, SystemGoes
<1>20. Phase' = "return" /\ current' \in live'
  BY <1>7, <1>16, PhasesNext DEF Types
<1>21. Own!OnlyOf(current)
  BY <1>2, <1>6, <1>15, OwnOnlyOf
<1>22. Own!Fork
  <2>1. /\ [p \in Process |-> File(p)][current] = File(r)
        /\ ([p \in Process |-> File(p)]')[current] = File(r)'
        /\ ([p \in Process |-> File(p)]')[child] = File(child)'
    BY <1>1, <1>2, <1>8
  <2>2. File(child)' = [MovedFile(File(r), child) EXCEPT !.regs.eax = <<"val", 0>>]
    BY <1>4, <1>9, <1>14 DEF Val
  <2>3. File(r)' = [File(r) EXCEPT !.regs.eax = <<"val", child>>]
    BY <1>13 DEF Val
  <2> QED
    BY <1>5, <1>6, <1>21, <2>1, <2>2, <2>3 DEF Own!Fork
<1> QED
  BY <1>1, <1>19, <1>20, <1>22 DEF Own!Dispatch

-----------------------------------------------------------------------------
(* The theorems.                                                           *)

(* The first process is about to begin.                                    *)
LEMMA MachineStarts ==
  ASSUME Init
  PROVE  MachineInv /\ Own!PInit
<1> DEFINE words == StkSetup(Code("entry"), Val(0))
<1>1. /\ cpu = KernelRegisters
      /\ stack = [s \in Process \cup {SystemStack} |-> IF s = 1 THEN words ELSE << >>]
      /\ context = [p \in Process |-> <<p, Len(stack[p])>>]
      /\ current = 1 /\ live = {1} /\ mode = "restore" /\ vector = 0
      /\ master = {} /\ slave = {} /\ status = RESULT
  BY DEF Init
<1>2. 1 \in Process /\ 1 \in Process \cup {SystemStack} /\ 1 \in Nat
  BY MachineConstants
<1>3. Code("entry") \in Word /\ Val(0) \in Word
  <2>1. "entry" \in Labels /\ 0 \in Nat
    BY DEF Labels
  <2> QED
    BY <2>1, Words
<1>4. /\ words \in Seq(Word) /\ Len(words) = 21
      /\ FreshFile(Code("entry"), Val(0)) = InContext(words)
      /\ Behaves(1, FreshFile(Code("entry"), Val(0)))
  BY <1>2, <1>3, Setup
<1> HIDE DEF words
<1>5. stack[1] = words /\ context[1] = <<1, Len(stack[1])>>
  BY <1>1, <1>2
<1>6. stack \in [Process \cup {SystemStack} -> Seq(Word)]
  <2>1. << >> \in Seq(Word)
    OBVIOUS
  <2> QED
    BY <1>1, <1>4, <2>1
<1>7. context \in [Process -> (Process \cup {SystemStack}) \X Nat]
  <2>1. \A p \in Process : Len(stack[p]) \in Nat
    BY <1>6
  <2> QED
    BY <1>1, <2>1
<1>8. Types
  BY <1>1, <1>2, <1>6, <1>7, KernelCpu DEF Types
<1>9. Masked /\ Lines /\ ~ Stopped
  BY <1>1, KernelCpu DEF Masked, Lines, Stopped
<1>10. Saved(1) /\ File(1) = FreshFile(Code("entry"), Val(0))
  <2>1. Saved(1)
    BY <1>4, <1>5, Places DEF Saved
  <2>2. 1 \in live /\ mode # "user" /\ stack[1] \in Seq(Word)
    BY <1>1, <1>4, <1>5
  <2>3. File(1) = InContext(stack[1])
    BY <1>5, <2>2, FileSaved
  <2> QED
    BY <1>4, <1>5, <2>1, <2>3
<1>11. Goes
  BY <1>1, <1>4, <1>10 DEF Goes
<1>12. Phase = "return"
  BY <1>1, Phases
<1>13. Own!PInit
  BY <1>1, <1>2, <1>10, <1>12 DEF Own!PInit
<1> QED
  BY <1>8, <1>9, <1>11, <1>13 DEF MachineInv

(* When nothing changes, nothing changes.                                  *)
LEMMA MachineStutters ==
  ASSUME MachineInv, UNCHANGED vars
  PROVE  MachineInv' /\ UNCHANGED Own!pvars
<1>1. UNCHANGED <<cpu, stack, context, current, live, mode, vector, master, slave, status>>
  BY DEF vars
<1>2. \A p : File(p)' = File(p)
  BY <1>1 DEF File
<1>3. Types' /\ Masked' /\ (Stopped' <=> Stopped) /\ (Lines' <=> Lines)
  BY <1>1 DEF MachineInv, Types, Masked, Stopped, Lines
<1>4. Goes => Goes'
  BY <1>1, <1>2 DEF Goes, Saved
<1>5. Phase' = Phase
  BY <1>1 DEF Phase
<1>6. UNCHANGED Own!pvars
  BY <1>1, <1>2, <1>5 DEF Own!pvars
<1> QED
  BY <1>3, <1>4, <1>6 DEF MachineInv

(* Every step keeps the invariant, and is a step of Processors.            *)
LEMMA MachineSteps ==
  ASSUME MachineInv, ~ FORKS_ANYWHERE, [Next]_vars
  PROVE  MachineInv' /\ [Own!PNext]_(Own!pvars)
<1>1. CASE Program
  BY <1>1, ProgramStep DEF Own!PNext
<1>2. CASE Int80
  BY <1>2, Int80Step DEF Own!PNext
<1>3. CASE Device
  BY <1>3, DeviceStep DEF Own!PNext
<1>4. CASE Fault
  BY <1>4, FaultStep DEF Own!PNext
<1>5. CASE ClkIsr \/ OtherIsr
  BY <1>5, InterruptStep DEF Own!PNext
<1>6. CASE UnexpectedHandler
  BY <1>6, UnexpectedStep DEF Own!PNext
<1>7. CASE SysGetpid
  BY <1>7, SysGetpidStep DEF Own!PNext
<1>8. CASE SysSleep
  BY <1>8, SysSleepStep DEF Own!PNext
<1>9. CASE SysFork
  BY <1>9, SysForkStep DEF Own!PNext
<1>10. CASE SysForkFails
  BY <1>10, SysForkFailsStep DEF Own!PNext
<1>11. CASE SysExec
  BY <1>11, SysExecStep DEF Own!PNext
<1>12. CASE SysExit
  BY <1>12, SysExitStep DEF Own!PNext
<1>13. CASE IsrRestore
  BY <1>13, RestoreStep DEF Own!PNext
<1>14. CASE UNCHANGED vars
  BY <1>14, MachineStutters
<1> QED
  BY <1>1, <1>2, <1>3, <1>4, <1>5, <1>6, <1>7, <1>8, <1>9, <1>10, <1>11, <1>12, <1>13, <1>14
     DEF Next, System

(* At every instruction, interrupt and system call, each process has its   *)
(* registers and a chain of frames on its stack that fit what it does next *)
(* (isr_stubs.S, _stk_setup, _sys_fork, _sys_exec, ulibs.S).               *)
THEOREM MachineBehaves ==
  ASSUME ~ FORKS_ANYWHERE
  PROVE  Spec => []MachineInv
<1>1. Init => MachineInv
  BY MachineStarts
<1>2. MachineInv /\ [Next]_vars => MachineInv'
  BY MachineSteps
<1> QED
  BY <1>1, <1>2, PTL DEF Spec

(* The frame pointer of a function that waits or works.                    *)
LEMMA FrameIsOwn ==
  ASSUME NEW p \in Nat, NEW f, NEW k \in Nat, f.regs.ebp = FrameOf(p, k),
         Len(f.words) \in Nat, 3 * k + 1 <= Len(f.words)
  PROVE  \/ f.regs.ebp = Val(0)
         \/ f.regs.ebp[1] = "ptr" /\ f.regs.ebp[2] = p /\ f.regs.ebp[3] <= Len(f.words)
<1>1. CASE k = 0
  BY <1>1 DEF FrameOf
<1>2. CASE k # 0
  <2>1. f.regs.ebp = Ptr(p, 3 * k + 1) /\ 3 * k + 1 \in Nat
    BY <1>2 DEF FrameOf
  <2> QED
    BY <2>1, Words
<1> QED
  BY <1>1, <1>2

(* Wherever a process is, its frame pointer is its own.                    *)
LEMMA OwnFrameAt ==
  ASSUME MachineInv
  PROVE  OwnFrame
<1> SUFFICES ASSUME mode = "user"
             PROVE  \/ cpu.ebp = Val(0)
                    \/ cpu.ebp[1] = "ptr" /\ cpu.ebp[2] = current /\ cpu.ebp[3] <= Len(stack[current])
  BY DEF OwnFrame
<1>1. PICK p, f : p = current /\ f = Running
  OBVIOUS
<1>2. UserAt /\ p \in Nat /\ f.regs = cpu /\ f.words = stack[p] /\ f.words \in Seq(Word)
  BY <1>1, UserIsAt, UserTypes
<1>3. Behaves(p, f)
  BY <1>1, <1>2 DEF UserAt
<1> DEFINE In(k) == f.regs.ebp = FrameOf(p, k) /\ 3 * k + 1 <= Len(f.words)
<1>4. f.regs.ebp = Val(0) \/ \E k \in Nat : In(k)
  <2>1. PICK k \in 0 .. Len(f.words) :
          \/ Begins(p, f, k)
          \/ Works(p, f, k, 0)
          \/ Frames(p, f, k, 0)
          \/ f.regs.ebp = Val(0)
          \/ Call(p, f)
          \/ Answered(p, f)
    BY <1>3 DEF Behaves
  <2>2. Len(f.words) \in Nat /\ k \in Nat
    BY <1>2
  <2>3. \A j \in 0 .. Len(f.words) : \A n \in Nat : Frames(p, f, j, n) => In(j)
    BY <1>2, <2>2 DEF Frames
  <2>4. CASE Begins(p, f, k)
    BY <2>2, <2>4 DEF Begins
  <2>5. CASE Works(p, f, k, 0) \/ Frames(p, f, k, 0)
    BY <2>2, <2>3, <2>5 DEF Works
  <2>6. CASE Call(p, f)
    <3>1. PICK j \in 0 .. Len(f.words) :
            \/ Works(p, f, j, 1) \/ Works(p, f, j, 2) \/ Frames(p, f, j, 4)
            \/ f.regs.ebp = Val(0)
            \/ f.regs.ebp = FrameOf(p, j) /\ 3 * j + 1 <= Len(f.words)
      BY <2>6 DEF Call
    <3> QED
      BY <2>2, <2>3, <3>1 DEF Works
  <2>7. CASE Answered(p, f)
    <3>1. PICK j \in 0 .. Len(f.words) :
            \/ Works(p, f, j, 1) \/ Works(p, f, j, 2) \/ Frames(p, f, j, 1)
      BY <2>7 DEF Answered
    <3> QED
      BY <2>2, <2>3, <3>1 DEF Works
  <2> QED
    BY <2>1, <2>4, <2>5, <2>6, <2>7
<1>5. ASSUME NEW k \in Nat, In(k)
      PROVE  \/ f.regs.ebp = Val(0)
             \/ f.regs.ebp[1] = "ptr" /\ f.regs.ebp[2] = p /\ f.regs.ebp[3] <= Len(f.words)
  <2>1. f.regs.ebp = FrameOf(p, k) /\ Len(f.words) \in Nat /\ 3 * k + 1 <= Len(f.words) /\ p \in Nat
    BY <1>2, <1>5
  <2> HIDE DEF In
  <2> QED
    BY <2>1, FrameIsOwn
<1> QED
  BY <1>1, <1>2, <1>4, <1>5

(* The frame pointer of a running program is in its own stack: what the    *)
(* stubs restore, and what fork() and exec() make, is never another's.     *)
THEOREM FrameStaysOwn ==
  ASSUME ~ FORKS_ANYWHERE
  PROVE  Spec => []OwnFrame
<1>1. MachineInv => OwnFrame
  BY OwnFrameAt
<1> QED
  BY <1>1, MachineBehaves, PTL

(* While a program runs no interrupt line is in service: every handler,    *)
(* the system call too, ends with an EOI that ends its line (support.c,    *)
(* clock.c, sio.c, c_io.c, syscall.c).                                     *)
THEOREM LinesStayOpen ==
  ASSUME ~ FORKS_ANYWHERE
  PROVE  Spec => []NoLineLockedOut
<1>1. MachineInv => NoLineLockedOut
  BY UserIsAt DEF Lines, NoLineLockedOut
<1> QED
  BY <1>1, MachineBehaves, PTL

(* The stubs and the handlers implement Processors: saving the context,    *)
(* changing to the system stack, dispatching another process and restoring *)
(* are invisible to a process, fork(), exec() and exit() to all but their  *)
(* caller and its child, and exit() gets what it was given.                *)
THEOREM ProcessorsImplemented ==
  ASSUME ~ FORKS_ANYWHERE
  PROVE  Spec => OwnProcessors
<1>1. Init => Own!PInit
  BY MachineStarts
<1>2. MachineInv /\ [Next]_vars => [Own!PNext]_(Own!pvars)
  BY MachineSteps
<1> QED
  BY <1>1, <1>2, MachineBehaves, PTL DEF Spec, OwnProcessors, Own!PSpec
=============================================================================
