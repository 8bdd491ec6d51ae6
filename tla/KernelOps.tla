------------------------------ MODULE KernelOps ------------------------------
(***************************************************************************)
(* The kernel's data structures and the subroutines its handlers are made  *)
(* of: the PCB table (process.c), the stack pool (stack.c), the queues and *)
(* their pool of qnodes (queue.c), the scheduler (scheduler.c) and the     *)
(* zombie maker (system.c).                                                *)
(*                                                                         *)
(* Every handler runs with interrupts off on one system stack, so a        *)
(* subroutine is a function from kernel states to kernel states.  A kernel *)
(* state is a record k with one field per global of the C program;         *)
(* Kernel.tla holds the same fields as variables.  _kpanic() never         *)
(* returns: an operator applied to a panicked state is the identity, or is *)
(* only reached when the operator before it cannot panic.                  *)
(*                                                                         *)
(* Abstracted: saved register contexts and stack contents (a stack is its  *)
(* index), console messages, and q_default, which is always QUANT_STD.     *)
(* A _q_enque whose status the code ignores is Enque when there is a       *)
(* qnode and the identity otherwise.                                       *)
(*                                                                         *)
(* An operator named Op_Something, right before Op, is Op with a plausible *)
(* mistake: PROJECT.json names the property that would notice it.          *)
(***************************************************************************)
EXTENDS Integers, Sequences, FiniteSets, SequencesExt

CONSTANTS
  N_PROCS,          \* most user processes the system is configured for
  PID_FIRST_USER,   \* first PID that fork() hands out
  PID_LIMIT,        \* fork() refuses when next_pid reaches it (65000)
  TIME_MOD,         \* the clock counts modulo this (2^32)
  QUANT_STD,        \* quantum, in clock ticks
  BUF_SIZE,         \* capacity of the SIO input buffer
  C_BUFSIZE         \* size of the console's circular input buffer

PID_INIT == 1
PID_NONE == 65535       \* (pid_t) -1, the PID a free PCB carries

ASSUME KernelConstants ==
  /\ N_PROCS \in Nat
  /\ PID_FIRST_USER \in Nat /\ PID_INIT < PID_FIRST_USER
  /\ PID_LIMIT \in Nat /\ PID_FIRST_USER <= PID_LIMIT /\ PID_LIMIT < PID_NONE
  /\ TIME_MOD \in Nat \ {0}
  /\ QUANT_STD \in 1 .. 255
  /\ BUF_SIZE \in Nat /\ C_BUFSIZE \in Nat \ {0}

-----------------------------------------------------------------------------
(* Constants of the headers.                                               *)

N_PCBS   == N_PROCS + 3
N_STACKS == N_PROCS + 3
N_QNODES == N_PCBS + N_STACKS + 5

Pcb     == 1 .. N_PCBS
Stack   == 1 .. N_STACKS
NoPcb   == 0            \* NULL
NoStack == 0            \* NULL
InitPcb == 1            \* _init_pcb: the first PCB that is ever allocated

PS_INVALID == -1
PS_FREE     == 0
PS_NEW      == 1
PS_READY    == 2
PS_RUNNING  == 3
PS_SLEEPING == 4
PS_WAITING  == 5
PS_BLOCKED  == 6
PS_KILLED   == 7
PS_ZOMBIE   == 8
PState == PS_FREE .. PS_ZOMBIE

P_SYSTEM == 0
P_HIGH   == 1
P_LOW    == 2
P_MIN    == 3
Prio == P_SYSTEM .. P_MIN

E_NO_PCBS       == -9
E_NO_STACKS     == -8
E_NO_MORE_PROCS == -7
E_NO_CHAR       == -6
E_NO_CHILD      == -5
E_BAD_CHAN      == -4
E_NO_PROCESS    == -3
E_FAILURE       == -1
E_SUCCESS       == 0

EXIT_BAD_CODE == 2
EXIT_KILLED   == 3

(* The queues of PCBs; the four ready queues are the array _ready[].       *)
Ready(prio) ==
  CASE prio = P_SYSTEM -> "ready[0]"
    [] prio = P_HIGH   -> "ready[1]"
    [] prio = P_LOW    -> "ready[2]"
    [] OTHER           -> "ready[3]"
ReadyId == {"ready[0]", "ready[1]", "ready[2]", "ready[3]"}
QueueId == {"free_pcbs", "sleeping", "waiting", "reading", "zombie"} \cup ReadyId

(* The places where the kernel can give up (the calls of _kpanic), but for *)
(* the checks inside queue.c, which QueueList has, and the one for a       *)
(* status of the UART that it cannot have.                                 *)
NoPanic == "none"
PanicSite == {NoPanic,
  "_schedule: can't enque ready PCB", "_dispatch: no ready processes",
  "_zombify: parent process doesn't exist", "_zombify: waiting parent isn't",
  "_zombify: enque zombie failed", "_sys_sleep: can't enque sleeper",
  "_sys_kill: bad victim state", "_sys_kill: can't remove victim",
  "_sys_wait: can't deque zombie", "_sys_wait: can't enque waiting parent"}

(* A uint16_t holds children: ChildrenFit says why it cannot overflow.     *)
PcbRecord ==
  [state : PState, pid : 0 .. PID_NONE, ppid : 0 .. PID_NONE, children : Nat,
   prio : Nat, wakeup : 0 .. TIME_MOD - 1, exitstatus : Int,
   stack : Stack \cup {NoStack}, q_ticks : 0 .. 255]

(* What a freed PCB holds.  _pcb_dealloc writes state, pid and ppid; the   *)
(* other fields are dead, as _sys_fork overwrites the whole PCB, and are   *)
(* given one value here.                                                   *)
FreePcb ==
  [state |-> PS_FREE, pid |-> PID_NONE, ppid |-> PID_NONE, children |-> 0,
   prio |-> P_SYSTEM, wakeup |-> 0, exitstatus |-> 0, stack |-> NoStack,
   q_ticks |-> 0]

KernelState ==
  [pcb : [Pcb -> PcbRecord], queue : [QueueId -> Seq(Pcb)],
   free_stacks : Seq(Stack), qnodes : Int, current : Pcb,
   next_pid : 0 .. PID_LIMIT, now : 0 .. TIME_MOD - 1,
   incount : 0 .. BUF_SIZE, console : 0 .. C_BUFSIZE - 1,
   returned : [Pcb -> Seq(Int)], panic : PanicSite]

(* _kpanic(): interrupts off, then an endless loop.                        *)
Panic(k, site) == [k EXCEPT !.panic = site]
Halted(k) == k.panic # NoPanic

-----------------------------------------------------------------------------
(* queue.c: a queue is the sequence of the PCBs its qnodes point to, and   *)
(* the pool of free qnodes is counted.  _q_enque keeps _sleeping ordered   *)
(* by wakeup time, a new entry after the ones that are due as early, and   *)
(* the other queues first in, first out.                                   *)

Behind(k, p) ==   \* the positions of the sleepers that are due after p
  {i \in 1 .. Len(k.queue["sleeping"]) :
     k.pcb[p].wakeup < k.pcb[k.queue["sleeping"][i]].wakeup}

Enque_Fifo(k, q, p) ==   \* the sleep queue is not ordered
  [k EXCEPT !.queue[q] = Append(@, p), !.qnodes = @ - 1]

Enque(k, q, p) ==
  [k EXCEPT !.queue[q] = IF q = "sleeping" /\ Behind(k, p) # {}
                         THEN InsertAt(@, Min(Behind(k, p)), p)
                         ELSE Append(@, p),
            !.qnodes = @ - 1]

EnqueOrPanic(k, q, p, site) ==
  IF k.qnodes = 0 THEN Panic(k, site) ELSE Enque(k, q, p)

Deque(k, q) == [k EXCEPT !.queue[q] = Tail(@), !.qnodes = @ + 1]

RemoveOrPanic_LeaksQnode(k, q, p, site) ==   \* no _qn_dealloc
  LET here == {i \in 1 .. Len(k.queue[q]) : k.queue[q][i] = p} IN
  IF here = {} THEN Panic(k, site)
  ELSE [k EXCEPT !.queue[q] = RemoveAt(@, Min(here))]

RemoveOrPanic(k, q, p, site) ==
  LET here == {i \in 1 .. Len(k.queue[q]) : k.queue[q][i] = p} IN
  IF here = {} THEN Panic(k, site)
  ELSE [k EXCEPT !.queue[q] = RemoveAt(@, Min(here)), !.qnodes = @ + 1]

-----------------------------------------------------------------------------
(* stack.c and process.c                                                   *)

StkAlloc(k) == [k EXCEPT !.free_stacks = Tail(@), !.qnodes = @ + 1]

StkDealloc(k, s) ==
  IF s = NoStack \/ k.qnodes = 0 THEN k
  ELSE [k EXCEPT !.free_stacks = Append(@, s), !.qnodes = @ - 1]

PcbAlloc(k) ==
  [Deque(k, "free_pcbs") EXCEPT
     !.pcb[Head(k.queue["free_pcbs"])] = [@ EXCEPT !.state = PS_NEW]]

PcbDealloc(k, p) ==
  LET freed == [k EXCEPT !.pcb[p] = FreePcb] IN
  IF k.qnodes = 0 THEN freed ELSE Enque(freed, "free_pcbs", p)

PcbCleanup_KeepsStack(k, p) == PcbDealloc(k, p)   \* no _stk_dealloc

PcbCleanup(k, p) == PcbDealloc(StkDealloc(k, k.pcb[p].stack), p)

(* _pcb_find: the first PCB of the table with that PID, a free one too.    *)
PcbFind(k, pid) ==
  LET hits == {p \in Pcb : k.pcb[p].pid = pid} IN
  IF hits = {} THEN NoPcb ELSE Min(hits)

(* What the iterator _pcb_find_child_of goes through, in index order.      *)
ChildrenOf(k, pid) == {c \in Pcb : k.pcb[c].ppid = pid}

-----------------------------------------------------------------------------
(* scheduler.c                                                             *)

LegalPrio(prio) == IF prio \in Prio THEN prio ELSE P_LOW

Schedule(k, p) ==
  IF Halted(k) THEN k
  ELSE LET prio == LegalPrio(k.pcb[p].prio) IN
       EnqueOrPanic([k EXCEPT !.pcb[p] = [@ EXCEPT !.prio = prio, !.state = PS_READY]],
                    Ready(prio), p, "_schedule: can't enque ready PCB")

Dispatch_WorstFirst(k) ==   \* the ready queues are searched from P_MIN up
  LET ready == {prio \in Prio : k.queue[Ready(prio)] # << >>}
      q     == Ready(Max(ready))
      next  == Head(k.queue[q])
  IN IF Halted(k) THEN k
     ELSE IF ready = {} THEN Panic(k, "_dispatch: no ready processes")
     ELSE [Deque(k, q) EXCEPT
             !.current = next,
             !.pcb[next] = [@ EXCEPT !.state = PS_RUNNING, !.q_ticks = QUANT_STD]]

Dispatch(k) ==
  LET ready == {prio \in Prio : k.queue[Ready(prio)] # << >>}
      q     == Ready(Min(ready))
      next  == Head(k.queue[q])
  IN IF Halted(k) THEN k
     ELSE IF ready = {} THEN Panic(k, "_dispatch: no ready processes")
     ELSE [Deque(k, q) EXCEPT
             !.current = next,
             !.pcb[next] = [@ EXCEPT !.state = PS_RUNNING, !.q_ticks = QUANT_STD]]

-----------------------------------------------------------------------------
(* system.c: _zombify.  p already carries its state and exit status.       *)

Reparent_NoAdoption(k, p) ==   \* init does not count the children it inherits
  [k EXCEPT !.pcb = [c \in Pcb |->
     [k.pcb[c] EXCEPT
        !.ppid     = IF @ = k.pcb[p].pid THEN PID_INIT ELSE @,
        !.children = IF c = p THEN 0 ELSE @]]]

(* Give p's children to init, p's own count going to zero last.            *)
Reparent(k, p) ==
  LET orphans == IF k.pcb[p].children > 0 THEN ChildrenOf(k, k.pcb[p].pid) ELSE {}
  IN [k EXCEPT !.pcb = [c \in Pcb |->
        [k.pcb[c] EXCEPT
           !.ppid     = IF c \in orphans THEN PID_INIT ELSE @,
           !.children = IF c = p THEN 0
                        ELSE IF c = InitPcb THEN @ + Cardinality(orphans) ELSE @]]]

WakeParent_OwnStatus(k, parent, p) ==   \* the parent's exit status, not p's
  LET out == RemoveOrPanic(k, "waiting", parent, "_zombify: waiting parent isn't")
      told == [out EXCEPT !.returned[parent] =
                 <<E_SUCCESS, k.pcb[p].pid, k.pcb[parent].exitstatus>>]
  IN IF Halted(out) THEN out ELSE Schedule(PcbCleanup(told, p), parent)

(* Hand p's PID and status to the parent blocked in wait(), free p, and    *)
(* make the parent ready.  Its count of children is not decremented here.  *)
WakeParent(k, parent, p) ==
  LET out == RemoveOrPanic(k, "waiting", parent, "_zombify: waiting parent isn't")
      told == [out EXCEPT !.returned[parent] =
                 <<E_SUCCESS, k.pcb[p].pid, k.pcb[p].exitstatus>>]
  IN IF Halted(out) THEN out ELSE Schedule(PcbCleanup(told, p), parent)

Zombify_NoWakeup(k, p) ==   \* "what if parent is already wait()ing?" not handled
  LET r == Reparent(k, p) IN
  IF PcbFind(r, r.pcb[p].ppid) = NoPcb
  THEN Panic(r, "_zombify: parent process doesn't exist")
  ELSE EnqueOrPanic(r, "zombie", p, "_zombify: enque zombie failed")

Zombify(k, p) ==
  LET r      == Reparent(k, p)
      parent == PcbFind(r, r.pcb[p].ppid)
  IN IF parent = NoPcb THEN Panic(r, "_zombify: parent process doesn't exist")
     ELSE IF r.pcb[parent].state = PS_WAITING THEN WakeParent(r, parent, p)
     ELSE EnqueOrPanic(r, "zombie", p, "_zombify: enque zombie failed")

-----------------------------------------------------------------------------
(* clock.c: the loop that wakes the sleepers at the head of the queue that *)
(* are due.  Each one is dequeued, which frees a qnode, and scheduled,     *)
(* which takes it again, so the loop cannot panic.  wakeup is dead once    *)
(* the process is awake, and is cleared to keep the state space small.     *)

(* The entries of s that are in T, in their order.  (A recursive function, *)
(* as the proof system knows nothing about SelectSeq.)                     *)
Only(s, T) ==
  LET only[i \in 0 .. Len(s)] ==
        IF i = 0 THEN << >>
        ELSE IF s[i] \in T THEN Append(only[i - 1], s[i]) ELSE only[i - 1]
  IN only[Len(s)]

WakeSleepers_TooLate(k) ==   \* wakeup < now where the code has wakeup <= now
  LET s       == k.queue["sleeping"]
      asleep  == {i \in 1 .. Len(s) : k.pcb[s[i]].wakeup >= k.now}
      n       == IF asleep = {} THEN Len(s) ELSE Min(asleep) - 1
      due     == {s[i] : i \in 1 .. n}
      OfPrio(prio) == {p \in due : LegalPrio(k.pcb[p].prio) = prio}
  IN [k EXCEPT
        !.pcb = [p \in Pcb |->
           IF p \in due
           THEN [k.pcb[p] EXCEPT !.state = PS_READY, !.wakeup = 0,
                                 !.prio = LegalPrio(@)]
           ELSE k.pcb[p]],
        !.queue = [q \in QueueId |->
           IF q = "sleeping" THEN SubSeq(s, n + 1, Len(s))
           ELSE k.queue[q] \o Only(SubSeq(s, 1, n),
                    IF \E prio \in Prio : Ready(prio) = q
                    THEN OfPrio(CHOOSE prio \in Prio : Ready(prio) = q) ELSE {})]]

WakeSleepers(k) ==
  LET s       == k.queue["sleeping"]
      asleep  == {i \in 1 .. Len(s) : k.pcb[s[i]].wakeup > k.now}
      n       == IF asleep = {} THEN Len(s) ELSE Min(asleep) - 1
      due     == {s[i] : i \in 1 .. n}
      OfPrio(prio) == {p \in due : LegalPrio(k.pcb[p].prio) = prio}
      woken(prio)  == Only(SubSeq(s, 1, n), OfPrio(prio))
  IN [k EXCEPT
        !.pcb = [p \in Pcb |->
           IF p \in due
           THEN [k.pcb[p] EXCEPT !.state = PS_READY, !.wakeup = 0,
                                 !.prio = LegalPrio(@)]
           ELSE k.pcb[p]],
        !.queue = [q \in QueueId |->
           CASE q = "sleeping" -> SubSeq(s, n + 1, Len(s))
             [] q = "ready[0]" -> k.queue[q] \o woken(P_SYSTEM)
             [] q = "ready[1]" -> k.queue[q] \o woken(P_HIGH)
             [] q = "ready[2]" -> k.queue[q] \o woken(P_LOW)
             [] q = "ready[3]" -> k.queue[q] \o woken(P_MIN)
             [] OTHER          -> k.queue[q]]]

=============================================================================
