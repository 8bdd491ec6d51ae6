------------------------------ MODULE Processors ------------------------------
(***************************************************************************)
(* What the interrupt stubs promise to the processes: each has, as far as  *)
(* it can tell, a processor and a stack of its own.  Nothing but its own   *)
(* instructions and the answers to its own system calls changes what is in *)
(* them, however often it is interrupted and whoever runs in between.      *)
(***************************************************************************)
EXTENDS Naturals, Sequences

CONSTANTS
  Process,
  FirstEntry,     \* the first program, and its argument
  FirstArg,
  Fresh(_, _),    \* registers and stack of a program with that entry and
                  \* argument
  Moved(_, _),    \* those of a process, on the stack of another one
  Statuses        \* what a process can exit with

VARIABLES
  file,           \* file[p]: the registers and the stack of p
  alive,          \* the processes there are
  runs,           \* the one that has the real processor
  told,           \* the exit status of the last process that exited
  phase           \* it "runs", or the system serves a "call" or an
                  \* "interrupt", is about to "return", or has "stopped"

pvars == <<file, alive, runs, told, phase>>

PInit ==
  /\ file[runs] = Fresh(FirstEntry, FirstArg)
  /\ alive = {runs} /\ told \in Statuses /\ phase = "return"

OnlyOf(p) == \A q \in alive \ {p} : file'[q] = file[q]

Instruction ==
  /\ phase = "runs" /\ OnlyOf(runs)
  /\ UNCHANGED <<alive, runs, told, phase>>

Interrupt ==
  /\ phase = "runs" /\ phase' = "interrupt"
  /\ UNCHANGED <<file, alive, runs, told>>

(* The processor is past the instruction that made the call.               *)
Call ==
  /\ phase = "runs" /\ phase' = "call" /\ OnlyOf(runs)
  /\ \E eip \in {file'[runs].regs.eip} : file'[runs] = [file[runs] EXCEPT !.regs.eip = eip]
  /\ UNCHANGED <<alive, runs, told>>

Answer ==
  /\ phase = "call" /\ OnlyOf(runs) /\ alive' = alive
  /\ \E eax \in {file'[runs].regs.eax} : file'[runs] = [file[runs] EXCEPT !.regs.eax = eax]

Fork ==
  /\ phase = "call" /\ OnlyOf(runs)
  /\ \E child \in Process \ alive :
       /\ alive' = alive \cup {child}
       /\ file'[child] = [Moved(file[runs], child) EXCEPT !.regs.eax = <<"val", 0>>]
       /\ file'[runs] = [file[runs] EXCEPT !.regs.eax = <<"val", child>>]

(* exec(entry, arg, prio): the arguments are above the return address.     *)
Exec ==
  /\ phase = "call" /\ OnlyOf(runs) /\ alive' = alive
  /\ LET words == file[runs].words
         Argument(n) == words[Len(words) - n]
     IN file'[runs] = Fresh(Argument(1), Argument(2))

Exit ==
  /\ phase = "call" /\ OnlyOf(runs)
  /\ alive' = alive \ {runs} /\ told' \in Statuses

(* An interrupt, or a call that blocks or fails to find its process.       *)
Idle == phase \in {"call", "interrupt"} /\ UNCHANGED <<file, alive>>

Dispatch ==
  /\ Exit \/ ((Answer \/ Fork \/ Exec \/ Idle) /\ told' = told)
  /\ phase' = "return" /\ runs' \in alive'

Return ==
  /\ phase = "return" /\ phase' = "runs"
  /\ UNCHANGED <<file, alive, runs, told>>

(* An interrupt nobody expects, at any time: the system stops.             *)
Stop == phase' = "stopped"

PNext == Instruction \/ Interrupt \/ Call \/ Dispatch \/ Return \/ Stop

PSpec == PInit /\ [][PNext]_pvars
=============================================================================
