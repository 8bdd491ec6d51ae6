----------------------------- MODULE MachineProps -----------------------------
(***************************************************************************)
(* What the stubs, the stacks and the interrupt controllers promise.       *)
(***************************************************************************)
EXTENDS Machine

(* The registers and the stack of a process: in the processor while it     *)
(* runs, in the context at the end of its stack otherwise.                 *)
File(p) ==
  IF p \notin live THEN [regs |-> [r \in Registers |-> Val(0)], words |-> << >>]
  ELSE IF mode = "user" /\ p = current THEN [regs |-> cpu, words |-> stack[p]]
  ELSE LET words == SubSeq(stack[context[p][1]], 1, context[p][2])
       IN [regs |-> [r \in Registers |-> Field(words, r)], words |-> WithoutContext(words)]

FreshFile(entry, arg) ==
  LET words == StkSetup(entry, arg)
  IN [regs |-> [r \in Registers |-> Field(words, r)], words |-> WithoutContext(words)]

MovedFile(f, child) == [f EXCEPT !.regs.ebp = Moved(@, child)]

Phase ==
  CASE mode = "user" -> "runs"
    [] mode = "restore" -> "return"
    [] mode = "halted" -> "stopped"
    [] OTHER -> IF Unexpected(vector) THEN "stopped"
                ELSE IF vector = SYSCALL THEN "call" ELSE "interrupt"

(* Every process has a processor and a stack of its own: the save, the     *)
(* switch to the system stack, the dispatch of another process and the     *)
(* restore are invisible to it (isr_stubs.S), and so are fork() and exec() *)
(* to all but their caller and its child (_sys_fork, _sys_exec).  And      *)
(* exit() gets what it is given, by the program or, when main() returns to *)
(* do_exit(), by its result; a bogus call gives EXIT_BAD_CODE.             *)
Own == INSTANCE Processors WITH
  FirstEntry <- Code("entry"), FirstArg <- Val(0),
  Fresh <- FreshFile, Moved <- MovedFile, Statuses <- {RESULT, EXIT_BAD_CODE},
  file <- [p \in Process |-> File(p)], alive <- live, runs <- current, told <- status,
  phase <- Phase

OwnProcessors == Own!PSpec

(* The frame pointer of a running program is in its own stack, above the   *)
(* words that will be popped: a function never works on the locals of      *)
(* another process.                                                        *)
OwnFrame ==
  mode = "user" =>
    \/ cpu.ebp = Val(0)
    \/ cpu.ebp[1] = "ptr" /\ cpu.ebp[2] = current /\ cpu.ebp[3] <= Len(stack[current])

(* While a program runs no interrupt line is in service: an ISR that had   *)
(* not told the 8259 would lock out its line and all below it.             *)
NoLineLockedOut == mode = "user" => master = {} /\ slave = {}

-----------------------------------------------------------------------------
(* What is not so.                                                         *)

(* The same for programs that call fork() themselves: "fix the child's     *)
(* EBP" (syscall.c) fixes the register, not the frame pointers in the      *)
(* copied stack.                                                           *)
ForkedFrame == OwnFrame
=============================================================================
