------------------------------- MODULE Machine -------------------------------
(***************************************************************************)
(* The processor under the kernel: the interrupt stubs of isr_stubs.S,     *)
(* which save the context of the current process on its stack and restore  *)
(* it, the stacks as _stk_setup, _sys_fork and _sys_exec leave them, the   *)
(* tables and default handlers of support.c, the system call stubs and     *)
(* do_exit() of ulibs.S, and the two 8259s (external).                     *)
(*                                                                         *)
(* A process has the stack of its own number; which one the system         *)
(* dispatches is module Kernel's subject and any choice here.  A stack is  *)
(* the sequence of its words, the last one at ESP.  What the debugging     *)
(* code of __isr_restore pushes it removes, and is left out.               *)
(***************************************************************************)
EXTENDS Naturals, Sequences, FiniteSets, SequencesExt

CONSTANTS
  Process,        \* the processes: a set of numbers from 1 on
  MAX_CALLS,      \* how deep a program's functions call each other (a bound)
  FORKS_ANYWHERE, \* whether programs call fork() themselves, not just spawn()
  FAULTS,         \* vectors of exceptions and of the NMI that happen
  LINES           \* interrupt lines that are raised

ASSUME MachineConstants ==
  /\ Process \subseteq Nat \ {0} /\ 1 \in Process /\ IsFiniteSet(Process)
  /\ MAX_CALLS \in Nat /\ FORKS_ANYWHERE \in BOOLEAN
  /\ FAULTS \subseteq 0 .. 31 /\ LINES \subseteq 0 .. 15

VARIABLES
  cpu,            \* the registers, but for ESP
  stack,          \* the stacks: of the processes, and of the system
  context,        \* PCB field: where the saved context is, <<stack, height>>
  current,        \* _current
  live,           \* the processes that exist
  mode,           \* what executes: "user", "isr", "restore", "halted"
  vector,         \* the parameter of the ISR
  master, slave,  \* the in-service registers of the 8259s
  status          \* the exit status of the last process that exited

vars == <<cpu, stack, context, current, live, mode, vector, master, slave, status>>

SystemStack == 0

(* The words that matter: numbers, addresses of code, addresses in stacks, *)
(* and the flags with IF on or off.                                        *)
Val(n)    == <<"val", n>>
Code(l)   == <<"code", l>>
Ptr(s, h) == <<"ptr", s, h>>
Flags(if) == <<"flags", if>>

-----------------------------------------------------------------------------
(* The context save area.  pusha also saves ESP, which popa skips.         *)

Registers == {"ss", "gs", "fs", "es", "ds", "edi", "esi", "ebp", "ebx", "edx",
              "ecx", "eax", "eip", "cs", "eflags"}

SaveOrder ==
  <<"eflags", "cs", "eip", "code", "vector", "eax", "ecx", "edx", "ebx", "esp",
    "ebp", "esi", "edi", "ds", "es", "fs", "gs", "ss">>

RestoreOrder ==
  <<"ss", "gs", "fs", "es", "ds", "edi", "esi", "ebp", "esp", "ebx", "edx",
    "ecx", "eax", "vector", "code", "eip", "cs", "eflags">>

(* context_t, from its first field up.                                     *)
Layout ==
  <<"ss", "gs", "fs", "es", "ds", "edi", "esi", "ebp", "esp", "ebx", "edx",
    "ecx", "eax", "vector", "code", "eip", "cs", "eflags">>

SIZE == Len(Layout)

IndexIn(order, field) == CHOOSE i \in 1 .. SIZE : order[i] = field

(* The word of a field in a stack whose last words are a context.          *)
FieldAt(words, field)       == Len(words) + 1 - IndexIn(Layout, field)
Field(words, field)         == words[FieldAt(words, field)]
SetField(words, field, val) == [words EXCEPT ![FieldAt(words, field)] = val]

(* ARG(pcb,n): argument n is above the context and the return address.     *)
Arg(words, n)         == words[Len(words) - SIZE - n]
SetArg(words, n, val) == [words EXCEPT ![Len(words) - SIZE - n] = val]

WithoutContext(words) == SubSeq(words, 1, Len(words) - SIZE)

(* _stk_setup(): a stack for a program that starts at entry and, when it   *)
(* returns, returns to do_exit().                                          *)
StkSetup(entry, arg) ==
  LET Initial(field) ==
        CASE field = "eflags" -> Flags(TRUE)
          [] field = "eip"    -> entry
          [] field = "cs"     -> Val(16)
          [] field = "ss"     -> Val(32)
          [] field \in {"ds", "es", "fs", "gs"} -> Val(24)
          [] OTHER            -> Val(0)
  IN <<Val(0), arg, Code("do_exit")>> \o [i \in 1 .. SIZE |-> Initial(Layout[SIZE + 1 - i])]

-----------------------------------------------------------------------------
(* support.c: the gates of the IDT and the table of ISRs.                  *)

TIMER    == 32
KEYBOARD == 33
SERIAL   == 36
MYSTERY  == 39
SYSCALL  == 128

(* set_idt_entry(): an interrupt gate, so the ISR runs with IF off.        *)
IfAfterGate_Trap(if) == if
IfAfterGate(if) == FALSE

(* The gates lead to the stubs in their order, and each pushes its number. *)
StubOf(v) == v

(* __isr_table as init_idt() and the modules' __install_isr calls leave it *)
IsrTable(v) ==
  CASE v = TIMER    -> "_clk_isr"
    [] v = KEYBOARD -> "__c_keyboard_isr"
    [] v = SERIAL   -> "_sio_isr"
    [] v = SYSCALL  -> "_sys_isr"
    [] v = MYSTERY  -> "__default_mystery_handler"
    [] OTHER        -> "__default_unexpected_handler"

Unexpected(v) == IsrTable(v) = "__default_unexpected_handler"

-----------------------------------------------------------------------------
(* The interrupt controllers: a line is served when the processor accepts  *)
(* it, no line of its priority or above being in service; a non-specific   *)
(* EOI ends the service of the highest.                                    *)

LineVector(line) == 32 + line   \* init_pic(): vectors from 0x20 and 0x28

Above(in_service, line) == \A other \in in_service : line < other

Accepted(line) ==
  IF line < 8 THEN Above(master, line)
  ELSE Above(master, 2) /\ Above(slave, line - 8)

Eoi(in_service) ==
  in_service \ {line \in in_service : \A other \in in_service : line <= other}

-----------------------------------------------------------------------------
(* isr_save: the context goes on the stack in use, the pointer to it in    *)
(* _current, and the ISR runs on the system stack.  (A stub pushes 0 where *)
(* the processor pushes no error code, so all contexts look alike.)        *)

Pushed(v, at, eip) ==
  LET Word(field) ==
        CASE field = "vector" -> Val(StubOf(v))
          [] field = "code"   -> Val(0)
          [] field = "esp"    -> Ptr(at, Len(stack[at]) + 5)
          [] field = "eip"    -> eip
          [] OTHER            -> cpu[field]
  IN [i \in 1 .. SIZE |-> Word(SaveOrder[i])]

(* What the ISR has in the registers is its own business.                  *)
KernelRegisters == [r \in Registers |-> IF r = "eflags" THEN Flags(FALSE) ELSE Val(0)]

IsrSave(v, eip) ==
  LET at    == IF mode = "user" THEN current ELSE SystemStack
      under == IF mode = "user" THEN stack[current] ELSE << >>   \* from _system_esp on
      words == under \o Pushed(v, at, eip)
  IN /\ stack' = [stack EXCEPT ![at] = words]
     /\ context' = [context EXCEPT ![current] = <<at, Len(words)>>]
     /\ cpu' = [KernelRegisters EXCEPT !.eflags = Flags(IfAfterGate(cpu.eflags[2]))]
     /\ mode' = "isr" /\ vector' = Field(words, "vector")[2]
     /\ UNCHANGED <<current, live, status>>

Int80 ==
  /\ mode = "user" /\ cpu.eip = Code("int")
  /\ IsrSave(SYSCALL, Code("ret"))
  /\ UNCHANGED <<master, slave>>

(* A device, with the mystery interrupt, which puts no line in service.    *)
Device ==
  /\ mode # "halted" /\ cpu.eflags = Flags(TRUE)
  /\ \/ \E line \in LINES :
          /\ Accepted(line)
          /\ master' = master \cup {IF line < 8 THEN line ELSE 2}
          /\ slave' = IF line < 8 THEN slave ELSE slave \cup {line - 8}
          /\ IsrSave(LineVector(line), cpu.eip)
     \/ IsrSave(MYSTERY, cpu.eip) /\ UNCHANGED <<master, slave>>

(* An exception or an NMI, which IF does not keep out.                     *)
Fault ==
  /\ mode # "halted"
  /\ \E v \in FAULTS : IsrSave(v, cpu.eip)
  /\ UNCHANGED <<master, slave>>

(* __isr_restore: back to the context of _current, in the order of its     *)
(* pops; error code and vector are dropped.  (The pointer to the context   *)
(* is dead then, and cleared.)                                             *)
IsrRestore ==
  /\ mode = "restore"
  /\ LET at    == context[current][1]
         words == SubSeq(stack[at], 1, context[current][2])
         Popped(r) == words[Len(words) + 1 - IndexIn(RestoreOrder, r)]
     IN /\ cpu' = [r \in Registers |-> Popped(r)]
        /\ stack' = [stack EXCEPT ![at] = WithoutContext(words)]
  /\ context' = [context EXCEPT ![current] = <<current, 0>>]
  /\ mode' = "user"
  /\ UNCHANGED <<current, live, vector, master, slave, status>>

-----------------------------------------------------------------------------
(* The ISRs, on the system stack.  Each ends with an EOI to the master,    *)
(* the system call one too, where there is nothing to end.                 *)

Isr(name) == mode = "isr" /\ IsrTable(vector) = name

Done_NoEoi == mode' = "restore" /\ vector' = 0 /\ UNCHANGED <<master, slave, cpu>>

Done ==
  /\ mode' = "restore" /\ master' = Eoi(master) /\ vector' = 0
  /\ UNCHANGED <<slave, cpu>>

(* The clock may end a quantum, and dispatch.                              *)
ClkIsr ==
  /\ Isr("_clk_isr") /\ Done
  /\ current' \in live
  /\ UNCHANGED <<stack, context, live, status>>

OtherIsr ==
  /\ \E name \in {"__c_keyboard_isr", "_sio_isr", "__default_mystery_handler"} : Isr(name)
  /\ Done
  /\ UNCHANGED <<stack, context, current, live, status>>

(* __panic(): a message, then a loop with IF off.                          *)
UnexpectedHandler ==
  /\ Isr("__default_unexpected_handler")
  /\ mode' = "halted"
  /\ UNCHANGED <<cpu, stack, context, current, live, vector, master, slave, status>>

Called(code) == Isr("_sys_isr") /\ Field(stack[current], "eax") = Code(code)

(* getpid() stands for the calls that answer in EAX and do not dispatch.   *)
SysGetpid ==
  /\ Called("getpid") /\ Done
  /\ stack' = [stack EXCEPT ![current] = SetField(@, "eax", Val(current))]
  /\ UNCHANGED <<context, current, live, status>>

(* sleep() stands for those that dispatch another process.                 *)
SysSleep ==
  /\ Called("sleep") /\ Done
  /\ current' \in live
  /\ UNCHANGED <<stack, context, live, status>>

(* The distance between the stacks is added to the child's EBP.            *)
Moved(word, child) == IF word[1] = "ptr" THEN Ptr(child, word[3]) ELSE word

SysFork_KeepsEbp ==   \* the child's EBP is not fixed
  /\ Called("fork") /\ Done
  /\ \E child \in Process \ live :
       /\ live' = live \cup {child}
       /\ context' = [context EXCEPT ![child] = <<child, context[current][2]>>]
       /\ stack' = [stack EXCEPT
            ![child]   = SetField(stack[current], "eax", Val(0)),
            ![current] = SetField(@, "eax", Val(child))]
  /\ UNCHANGED <<current, status>>

SysFork ==
  /\ Called("fork") /\ Done
  /\ \E child \in Process \ live :
       LET words == stack[current]
           ebp   == Moved(Field(words, "ebp"), child)
       IN /\ live' = live \cup {child}
          /\ context' = [context EXCEPT ![child] = <<child, context[current][2]>>]
          /\ stack' = [stack EXCEPT
               ![child]   = SetField(SetField(words, "ebp", ebp), "eax", Val(0)),
               ![current] = SetField(@, "eax", Val(child))]
  /\ UNCHANGED <<current, status>>

SysForkFails ==
  /\ Called("fork") /\ Process = live /\ Done
  /\ stack' = [stack EXCEPT ![current] = SetField(@, "eax", Val(255))]
  /\ UNCHANGED <<context, current, live, status>>

SysExec ==
  /\ Called("exec") /\ Done
  /\ LET words == StkSetup(Arg(stack[current], 1), Arg(stack[current], 2))
     IN /\ stack' = [stack EXCEPT ![current] = words]
        /\ context' = [context EXCEPT ![current] = <<current, Len(words)>>]
  /\ UNCHANGED <<current, live, status>>

EXIT_BAD_CODE == Val(2)

(* A code out of range becomes exit(), its argument overwritten.           *)
SysExit ==
  /\ Called("exit") \/ Called("bogus")
  /\ LET words == IF Called("bogus") THEN SetArg(stack[current], 1, EXIT_BAD_CODE)
                  ELSE stack[current]
     IN /\ status' = Arg(words, 1)
        /\ stack' = [stack EXCEPT ![current] = << >>]   \* dead
  /\ context' = [context EXCEPT ![current] = <<current, 0>>]
  /\ live' = live \ {current} /\ current' \in live'
  /\ Done

-----------------------------------------------------------------------------
(* The programs, as the compiler makes them: a function pushes EBP, makes  *)
(* it its frame pointer, and has a local word above it; arguments are      *)
(* pushed by the caller, who drops them.  EIP is the label of a step.      *)

RESULT == Val(7)   \* what every function returns, and exit() is given

At(label) == mode = "user" /\ cpu.eip = Code(label)

Step(regs, words) ==
  /\ cpu' = regs /\ stack' = [stack EXCEPT ![current] = words]
  /\ UNCHANGED <<context, current, live, mode, vector, master, slave, status>>

here == stack[current]

(* The function works in the other registers, with values of its own.      *)
Working == [ecx |-> Val(11), edx |-> Val(12), ebx |-> Val(13), esi |-> Val(14), edi |-> Val(15)]

Prologue(from, to) ==
  /\ At(from)
  /\ Step([r \in Registers |->
             CASE r \in DOMAIN Working -> Working[r]
               [] r = "ebp" -> Ptr(current, Len(here) + 1)
               [] r = "eip" -> Code(to)
               [] OTHER     -> cpu[r]],
          here \o <<cpu.ebp, Val(0)>>)

StoreLocal ==
  /\ At("body")
  /\ stack' = [stack EXCEPT ![cpu.ebp[2]][cpu.ebp[3] + 1] = Val(1)]
  /\ UNCHANGED <<cpu, context, current, live, mode, vector, master, slave, status>>

Depth == (Len(here) - 5) \div 3

Calls(function) ==
  /\ At("body") /\ Depth < MAX_CALLS
  /\ Step([cpu EXCEPT !.eip = Code(function)], Append(here, Code("body")))

(* leave and ret.  Process 1 is one of those that never return from main.  *)
Returns ==
  /\ At("body") \/ (At("forked") /\ cpu.eax # Val(0))
  /\ current = 1 => Depth > 0
  /\ LET frame == cpu.ebp[3] IN
     Step([cpu EXCEPT !.ebp = here[frame], !.eip = here[frame - 1], !.eax = RESULT],
          SubSeq(here, 1, frame - 2))

(* The stub of a system call: SYS_name in EAX, int $0x80, ret.             *)
Invokes(name, args, back) ==
  Step([cpu EXCEPT !.eax = Code(name), !.eip = Code("int")],
       here \o Reverse(args) \o <<Code(back)>>)

CallsKernel ==
  /\ At("body")
  /\ \/ Invokes("getpid", << >>, "body")
     \/ Invokes("sleep", <<Val(0)>>, "body")
     \/ current # 1 /\ Invokes("bogus", << >>, "body")
     \/ current # 1 /\ Invokes("exit", <<RESULT>>, "body")
     \/ FORKS_ANYWHERE /\ Invokes("fork", << >>, "body")

StubReturns ==
  /\ At("ret")
  /\ Step([cpu EXCEPT !.eip = here[Len(here)]], SubSeq(here, 1, cpu.ebp[3] + 1))

(* spawn(): the child of its fork() goes on to exec(), the parent returns. *)
SpawnForks == At("spawn") /\ Invokes("fork", << >>, "forked")

SpawnExecs ==
  /\ At("forked") /\ cpu.eax = Val(0)
  /\ Invokes("exec", <<Code("entry"), Val(1), Val(3)>>, "failed")

DoExit == At("do_exit") /\ Invokes("exit", <<cpu.eax>>, "done")

-----------------------------------------------------------------------------
Init ==
  /\ cpu = KernelRegisters
  /\ stack = [s \in Process \cup {SystemStack} |->
                IF s = 1 THEN StkSetup(Code("entry"), Val(0)) ELSE << >>]
  /\ context = [p \in Process |-> <<p, Len(stack[p])>>]
  /\ current = 1 /\ live = {1} /\ mode = "restore" /\ vector = 0
  /\ master = {} /\ slave = {} /\ status = RESULT

Program ==
  \/ Prologue("entry", "body") \/ Prologue("spawn0", "spawn")
  \/ StoreLocal \/ Calls("entry") \/ Calls("spawn0") \/ Returns
  \/ CallsKernel \/ StubReturns \/ SpawnForks \/ SpawnExecs \/ DoExit

System ==
  \/ ClkIsr \/ OtherIsr \/ UnexpectedHandler
  \/ SysGetpid \/ SysSleep \/ SysFork \/ SysForkFails \/ SysExec \/ SysExit
  \/ IsrRestore

Next == Program \/ Int80 \/ Device \/ Fault \/ System

Spec == Init /\ [][Next]_vars
=============================================================================
