------------------------------ MODULE KernelProps ------------------------------
(***************************************************************************)
(* What the kernel of module Kernel promises, whatever its user programs   *)
(* do.  A panic is the end of the system, so the properties that relate    *)
(* the kernel's structures to each other are about states without one.     *)
(***************************************************************************)
EXTENDS Kernel

Free(p) == pcb[p].state = PS_FREE
Dead(p) == pcb[p].state \in {PS_KILLED, PS_ZOMBIE}
Live(p) == ~ Free(p) /\ ~ Dead(p)

(* A PCB is where its state says it is, once: the running process on no    *)
(* queue, every other on the one queue that _sys_kill, _sys_wait, _zombify *)
(* and the scheduler will look for it on.                                  *)
Placement ==
  panic = NoPanic =>
    /\ \A p \in Pcb : pcb[p].state = PS_RUNNING <=> p = current
    /\ \A q \in QueueId :
         /\ IsInjective(queue[q])
         /\ ToSet(queue[q]) = {p \in Pcb \ {current} : QueueOf(K, p) = q}

(* Every stack is either free or owned by exactly one process that is not  *)
(* free: none is shared, none leaks (_pcb_cleanup, _sys_fork).             *)
StackOwnership ==
  panic = NoPanic =>
    /\ IsInjective(free_stacks)
    /\ \A p, c \in Pcb : p # c /\ ~ Free(p) /\ ~ Free(c) => pcb[p].stack # pcb[c].stack
    /\ {pcb[p].stack : p \in {c \in Pcb : ~ Free(c)}} = Stack \ ToSet(free_stacks)

(* The queue module's pool: every qnode is free or holds a queue entry, so *)
(* none is lost by the calls of _q_enque whose status is ignored.          *)
QueuedPcbs ==
    Len(queue["free_pcbs"]) + Len(queue["sleeping"]) + Len(queue["waiting"])
  + Len(queue["reading"]) + Len(queue["zombie"])
  + Len(queue["ready[0]"]) + Len(queue["ready[1]"])
  + Len(queue["ready[2]"]) + Len(queue["ready[3]"])

QnodeBalance ==
  qnodes >= 0 /\ qnodes + QueuedPcbs + Len(free_stacks) = N_QNODES

(* The process tree.  PIDs are unique and below next_pid; the parent that  *)
(* ppid names is in the table, and alive unless it is init, so a process   *)
(* that ends always has somebody to report to; and a live process counts   *)
(* at least the children it has, without which wait() would refuse and     *)
(* _zombify would leave them orphaned.                                     *)
ProcessTree ==
  panic = NoPanic =>
    \A p \in Pcb : ~ Free(p) =>
      /\ IF p = InitPcb THEN pcb[p].pid = PID_INIT
         ELSE pcb[p].pid \in PID_FIRST_USER .. next_pid - 1
      /\ \A c \in Pcb : ~ Free(c) /\ pcb[c].pid = pcb[p].pid => c = p
      /\ \E parent \in Pcb : /\ pcb[parent].pid = pcb[p].ppid
                             /\ parent = InitPcb \/ Live(parent)
      /\ Live(p) => pcb[p].children >=
                      Cardinality(ChildrenOf(K, pcb[p].pid) \ {InitPcb})

(* No count of children exceeds the number of calls of fork() so far,      *)
(* though a child inherits its parent's, init's is raised by each orphan   *)
(* that it adopts, and a parent that is woken has none taken off: as       *)
(* fork() refuses once next_pid is 65000, the 16 bits of the count never   *)
(* overflow to a 0 that would hide children from _zombify and wait().      *)
ChildrenFit == \A p \in Pcb : pcb[p].children <= next_pid - PID_FIRST_USER

(* Of the checks that end in _kpanic only two can fail, both by what user  *)
(* programs do: nobody is left to run, or kill((pid_t) -1).                *)
OnlyUserPanics ==
  panic \in {NoPanic, "_dispatch: no ready processes", "_sys_kill: bad victim state"}

(* No process but init is blocked in wait() while a child of its that      *)
(* exited is uncollected (_sys_wait looks before it blocks, _zombify wakes *)
(* a waiting parent).                                                      *)
WaitMissesNoExit ==
  panic = NoPanic =>
    \A p \in Pcb \ {InitPcb} : pcb[p].state = PS_WAITING =>
      \A c \in ChildrenOf(K, pcb[p].pid) : pcb[c].state # PS_ZOMBIE

-----------------------------------------------------------------------------
(* Action properties.                                                      *)

Reaped == {p \in Pcb : ~ Free(p) /\ Free(p)'}

(* What p ended with: its stored status if it was dead already, otherwise  *)
(* what the call that ended it says.                                       *)
FinalStatus(p) ==
  IF Dead(p) THEN {pcb[p].exitstatus}
  ELSE IF p # current THEN {EXIT_KILLED}
  ELSE ExitStatuses \cup {EXIT_BAD_CODE, EXIT_KILLED}

(* A process disappears from the table only as it is reported to its       *)
(* parent, with its own PID and status, and a parent whose wait() succeeds *)
(* has been told of exactly one child that is gone.                        *)
Reporting ==
  LET told == {w \in Pcb : Len(returned'[w]) = 3} IN
  /\ Cardinality(told) = Cardinality(Reaped) /\ Cardinality(told) <= 1
  /\ \A p \in Reaped, w \in told :
       /\ pcb[w].pid = pcb[p].ppid
       /\ \E status \in FinalStatus(p) :
            returned'[w] = <<E_SUCCESS, pcb[p].pid, status>>

ReapedByParent == [][Reporting]_vars

(* A clock interrupt leaves nobody asleep whose time has come, wherever    *)
(* the sleepers stand in the queue.                                        *)
WakingDue ==
  now' # now => \A p \in Pcb : pcb'[p].state = PS_SLEEPING => pcb'[p].wakeup > now'

TickWakesDue == [][WakingDue]_vars

Before(q, p, c) ==
  \E i, j \in 1 .. Len(queue[q]) : i < j /\ queue[q][i] = p /\ queue[q][j] = c

(* "we give awakened processes preference over the current process (when   *)
(* it is scheduled again)" (clock.c:81): a process that wakes at the tick  *)
(* at which the quantum runs out is ahead of the preempted process.        *)
WakingFirst ==
  \A p \in Pcb, c \in {current} :
    /\ pcb[p].state = PS_SLEEPING /\ pcb'[p].state = PS_READY
    /\ pcb[c].state = PS_RUNNING /\ pcb'[c].state = PS_READY
    /\ pcb'[p].prio = pcb'[c].prio
    => Before(Ready(pcb[p].prio), p, c)'

AwakenedFirst == [][WakingFirst]_vars

-----------------------------------------------------------------------------
(* Liveness, under FairSpec.                                               *)

(* Every sleeper wakes, unless it is killed or the system stops.           *)
SleepersWake ==
  \A p \in Pcb : pcb[p].state = PS_SLEEPING ~>
                   pcb[p].state # PS_SLEEPING \/ panic # NoPanic

(* At the highest priority the ready queue is served in turn: whoever is   *)
(* on it runs, or is killed, or the system stops.                          *)
SystemReadyRuns ==
  \A p \in Pcb : pcb[p].state = PS_READY /\ pcb[p].prio = P_SYSTEM ~>
                   pcb[p].state # PS_READY \/ panic # NoPanic

-----------------------------------------------------------------------------
(* What comments and interface documents say and the code does not do.     *)

(* ulib.h:252-254: wait() blocks only if no child has terminated.          *)
WaitBlocksOnlyIfNoneTerminated ==
  [][\A p \in Pcb : pcb[p].state = PS_RUNNING /\ pcb'[p].state = PS_WAITING =>
       \A c \in ChildrenOf(K, pcb[p].pid) : ~ Dead(c)]_vars

(* ulib.h:250: wait() with no children returns an error code.              *)
WaitNeedsAChild ==
  panic = NoPanic =>
    \A p \in Pcb : pcb[p].state = PS_WAITING =>
      ChildrenOf(K, pcb[p].pid) \ {p} # {}

(* ulib.h:254: wait() "blocks until a child terminates", for init too.     *)
NobodyWaitsForAnExited ==
  panic = NoPanic =>
    \A p \in Pcb : pcb[p].state = PS_WAITING =>
      \A c \in ChildrenOf(K, pcb[p].pid) : pcb[c].state # PS_ZOMBIE

(* syscall.c:387: the victim of kill() is in no other state.               *)
KillFindsOnlyProcesses == panic # "_sys_kill: bad victim state"

(* syscall.c:207: "console input doesn't block".                           *)
ConsoleNeverBlocks ==
  [][ReadConsole => pcb'[current].state # PS_BLOCKED]_vars

(* sio.c:153: a character that finds a blocked reader is the first one.    *)
BlockedReaderMeansNoInput == queue["reading"] # << >> => incount = 0
=============================================================================
