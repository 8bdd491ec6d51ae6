------------------------------ MODULE PowerUp ------------------------------
(***************************************************************************)
(* From the image builder to the first process: Boot, with the call of     *)
(* _init as SystemStart.  The kernel's static variables hold anything,     *)
(* such as what a kernel left that ran before a reset, until clearbss of   *)
(* startup.S has gone over them.                                           *)
(***************************************************************************)
EXTENDS BootProps

CONSTANTS N_PROCS, PID_FIRST_USER, PID_LIMIT, TIME_MOD, QUANT_STD, BUF_SIZE, C_BUFSIZE

VARIABLES
  pcb, queue, free_stacks, qnodes, current, next_pid, now, incount, console,
  returned, panic, stage

Sys == INSTANCE SystemStart WITH
  Calls <- {}, ExitStatuses <- {}, ExecPrios <- {}, SleepTimes <- {},
  Sizes <- {}, Chars <- {}

kernelVars ==
  <<pcb, queue, free_stacks, qnodes, current, next_pid, now, incount, console,
    returned, panic>>
allVars == <<vars, kernelVars, stage>>

PowerUpInit ==
  /\ Init
  /\ \E k \in {Sys!Zeros, Sys!Leftover} :
       /\ pcb = k.pcb /\ queue = k.queue /\ free_stacks = k.free_stacks
       /\ qnodes = k.qnodes /\ current = k.current /\ next_pid = k.next_pid
       /\ now = k.now /\ incount = k.incount /\ console = k.console
       /\ returned = k.returned /\ panic = k.panic
  /\ stage = "none"

(* A step of the boot: clearbss comes to its end, _init returns, or        *)
(* neither.                                                                *)
Booting(A) ==
  /\ A
  /\ pc = "init" /\ pc' = "kernel" => stage = "done"
  /\ IF pc = "clear" /\ pc' = "init"
     THEN Sys!Becomes(Sys!Zeros) /\ stage' = Sys!Order[1]
     ELSE UNCHANGED <<kernelVars, stage>>

Starting == pc = "init" /\ Sys!StartNext /\ UNCHANGED vars

PowerUpNext == Booting(Next) \/ Starting

PowerUpSpec ==
  /\ PowerUpInit /\ [][PowerUpNext]_allVars
  /\ WF_allVars(Booting(Build /\ UNCHANGED bootVars))
  /\ WF_allVars(Booting(Bootstrap)) /\ WF_allVars(Booting(Controller))
  /\ WF_allVars(Starting)

-----------------------------------------------------------------------------
(* Whatever was in memory before, and however the boot went, _init leaves  *)
(* the kernel in the initial state of module Kernel: every PCB and stack   *)
(* but init's is on its free list in the order of the tables, though       *)
(* _pcb_dealloc and _stk_dealloc would lose them silently if the qnodes    *)
(* were not there first; and nothing of an earlier run is left.  On the    *)
(* way it does not give up for want of a PCB or a stack.                   *)
StartsInInit == stage # "panic" /\ (pc = "kernel" => Sys!Init)
=============================================================================
