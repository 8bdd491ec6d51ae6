-------------------------------- MODULE Kernel --------------------------------
(***************************************************************************)
(* The process side of the SysProgOS kernel: the system calls of syscall.c *)
(* and the clock, serial-input and keyboard interrupts, run against any    *)
(* user programs whatever: at any time the current process may make any    *)
(* call with any of the enumerated arguments, or be interrupted.           *)
(*                                                                         *)
(* A handler runs to completion with interrupts off, so each is one action *)
(* that composes the subroutines of KernelOps in the order of the code.    *)
(* The guard panic = NoPanic of every action is the loop in _kpanic().     *)
(***************************************************************************)
EXTENDS KernelOps

CONSTANTS
  Calls,          \* the entry points the environment uses (all of AllCalls,
                  \* or fewer to bound a run)
  ExitStatuses,   \* arguments of exit()
  ExecPrios,      \* priorities given to exec(); any integer can be
  SleepTimes,     \* arguments of sleep()
  Sizes,          \* buffer sizes given to read() and write()
  Chars           \* characters that can arrive on the serial line

AllCalls == {"exit", "bogus", "kill", "wait", "fork", "exec", "sleep",
             "read_console", "read_sio", "read_bad", "write", "getpid",
             "getppid", "gettime", "getstatus", "tick", "rx", "key"}

ASSUME EnvironmentConstants ==
  /\ Calls \subseteq AllCalls
  /\ ExitStatuses \subseteq Int /\ ExecPrios \subseteq Nat
  /\ SleepTimes \subseteq Nat /\ Sizes \subseteq Nat /\ Chars \subseteq 0 .. 255

VARIABLES
  pcb,            \* _pcbs[]
  queue,          \* _free_pcbs, _sleeping, _waiting, _reading, _zombie, _ready[]
  free_stacks,    \* _free_stacks
  qnodes,         \* how many qnodes are on _free_qnodes
  current,        \* _current
  next_pid,       \* _next_pid
  now,            \* _now
  incount,        \* _incount, characters in the serial input buffer
  console,        \* characters in the console's input buffer
  returned,       \* what the last kernel entry stored in each process' saved
                  \* EAX: nothing, a value, or the results of wait()
  panic           \* where _kpanic was called

vars == <<pcb, queue, free_stacks, qnodes, current, next_pid, now, incount,
          console, returned, panic>>

K == [pcb |-> pcb, queue |-> queue, free_stacks |-> free_stacks,
      qnodes |-> qnodes, current |-> current, next_pid |-> next_pid,
      now |-> now, incount |-> incount, console |-> console,
      returned |-> returned, panic |-> panic]

Becomes(k) ==
  /\ pcb' = k.pcb /\ queue' = k.queue /\ free_stacks' = k.free_stacks
  /\ qnodes' = k.qnodes /\ current' = k.current /\ next_pid' = k.next_pid
  /\ now' = k.now /\ incount' = k.incount /\ console' = k.console
  /\ returned' = k.returned /\ panic' = k.panic

TypeOK == K \in KernelState

-----------------------------------------------------------------------------
(* _init(): every PCB and stack freed in index order, the first of each    *)
(* given to init, which is its own parent and is dispatched.               *)

Nothing == [p \in Pcb |-> << >>]

InitProcess ==
  [FreePcb EXCEPT !.state = PS_RUNNING, !.pid = PID_INIT, !.ppid = PID_INIT,
                  !.stack = 1, !.q_ticks = QUANT_STD]

Init ==
  /\ pcb = [p \in Pcb |-> IF p = InitPcb THEN InitProcess ELSE FreePcb]
  /\ queue = [q \in QueueId |->
                IF q = "free_pcbs" THEN [i \in 1 .. N_PCBS - 1 |-> i + 1] ELSE << >>]
  /\ free_stacks = [i \in 1 .. N_STACKS - 1 |-> i + 1]
  /\ qnodes = N_QNODES - (N_PCBS - 1) - (N_STACKS - 1)
  /\ current = InitPcb /\ next_pid = PID_FIRST_USER /\ now = 0
  /\ incount = 0 /\ console = 0 /\ returned = Nothing /\ panic = NoPanic

-----------------------------------------------------------------------------
(* Entering the kernel and returning from it.                              *)

Enter(call) == call \in Calls /\ panic = NoPanic

Entry == [K EXCEPT !.returned = Nothing]

me == pcb[current]

Return(k, value) == [k EXCEPT !.returned[current] = <<value>>]

(* The PIDs a program can name: those in the table, (pid_t) -1 among them  *)
(* while a PCB is free, and 0 for one that is not there.                   *)
PidArgs == {pcb[p].pid : p \in Pcb} \cup {0}

-----------------------------------------------------------------------------
(* System calls that change nothing but the caller's return value.         *)

GetPid  == Enter("getpid")  /\ Becomes(Return(Entry, me.pid))
GetPpid == Enter("getppid") /\ Becomes(Return(Entry, me.ppid))
GetTime == Enter("gettime") /\ Becomes(Return(Entry, now))

GetStatus ==
  /\ Enter("getstatus")
  /\ \E pid \in PidArgs :
       LET target == PcbFind(K, pid) IN
       Becomes(Return(Entry, IF target = NoPcb THEN PS_INVALID ELSE pcb[target].state))

(* The characters go to the screen or to the serial transmitter, which are *)
(* not part of this module.                                                *)
Write ==
  /\ Enter("write")
  /\ \E size \in Sizes : Becomes(Return(Entry, size))

WriteBadChannel == Enter("write") /\ Becomes(Return(Entry, E_BAD_CHAN))

-----------------------------------------------------------------------------
(* Termination.                                                            *)

ExitWith(status) ==
  LET dying == [Entry EXCEPT !.pcb[current] =
                  [@ EXCEPT !.exitstatus = status, !.state = PS_ZOMBIE]]
  IN Becomes(Dispatch(Zombify(dying, current)))

Exit == Enter("exit") /\ \E status \in ExitStatuses : ExitWith(status)

BogusCall_Returns ==   \* the code is not checked: the call does nothing and returns
  Enter("bogus") /\ Becomes(Return(Entry, E_FAILURE))

(* _sys_isr turns a system call code out of range into exit(badcode).      *)
BogusCall == Enter("bogus") /\ ExitWith(EXIT_BAD_CODE)

QueueOf_WrongForBlocked(k, p) ==   \* PS_BLOCKED taken for PS_WAITING
  CASE k.pcb[p].state = PS_FREE -> "free_pcbs"
    [] k.pcb[p].state \in {PS_WAITING, PS_BLOCKED} -> "waiting"
    [] k.pcb[p].state = PS_SLEEPING -> "sleeping"
    [] k.pcb[p].state = PS_READY -> Ready(k.pcb[p].prio)
    [] OTHER -> "zombie"

(* The queue a process that is not running is on, by its state.            *)
QueueOf(k, p) ==
  CASE k.pcb[p].state = PS_FREE -> "free_pcbs"
    [] k.pcb[p].state = PS_WAITING -> "waiting"
    [] k.pcb[p].state = PS_SLEEPING -> "sleeping"
    [] k.pcb[p].state = PS_BLOCKED -> "reading"
    [] k.pcb[p].state = PS_READY -> Ready(k.pcb[p].prio)
    [] OTHER -> "zombie"

KillNobody ==
  /\ Enter("kill")
  /\ \E pid \in PidArgs : PcbFind(K, pid) = NoPcb
  /\ Becomes(Return(Entry, E_NO_PROCESS))

KillDead ==
  /\ Enter("kill")
  /\ \E pid \in PidArgs :
       /\ PcbFind(K, pid) # NoPcb
       /\ pcb[PcbFind(K, pid)].state \in {PS_KILLED, PS_ZOMBIE}
  /\ Becomes(Return(Entry, E_SUCCESS))

(* Any other state than those of a live process is a panic: PS_FREE is one *)
(* since kill((pid_t) -1) finds a free PCB.                                *)
KillBadState ==
  /\ Enter("kill")
  /\ \E pid \in PidArgs :
       /\ PcbFind(K, pid) # NoPcb
       /\ pcb[PcbFind(K, pid)].state \in {PS_FREE, PS_NEW}
  /\ Becomes(Panic(Entry, "_sys_kill: bad victim state"))

Killed_LeftQueued(k, victim) ==   \* the victim is not pulled off its queue
  Zombify(Return([k EXCEPT !.pcb[victim] =
                    [@ EXCEPT !.state = PS_KILLED, !.exitstatus = EXIT_KILLED]],
                 E_SUCCESS), victim)

Killed(k, victim) ==
  LET out  == IF k.pcb[victim].state = PS_RUNNING THEN k
              ELSE RemoveOrPanic(k, QueueOf(k, victim), victim,
                                 "_sys_kill: can't remove victim")
      dead == [out EXCEPT !.pcb[victim] =
                 [@ EXCEPT !.state = PS_KILLED, !.exitstatus = EXIT_KILLED]]
  IN IF Halted(out) THEN out ELSE Zombify(Return(dead, E_SUCCESS), victim)

KillLive ==
  /\ Enter("kill")
  /\ \E pid \in PidArgs :
       LET victim == PcbFind(K, pid)
           after  == Killed(Entry, victim)
       IN /\ victim # NoPcb
          /\ pcb[victim].state \in PS_READY .. PS_BLOCKED
          /\ Becomes(IF victim = current THEN Dispatch(after) ELSE after)

Kill == KillNobody \/ KillDead \/ KillBadState \/ KillLive

-----------------------------------------------------------------------------
(* wait(): only a child that is PS_ZOMBIE is collected; one that is        *)
(* PS_KILLED is passed over.                                               *)

Collectable == {c \in ChildrenOf(K, me.pid) : pcb[c].state = PS_ZOMBIE}

WaitNoChild ==
  /\ Enter("wait") /\ me.children = 0
  /\ Becomes(Return(Entry, E_NO_CHILD))

WaitCollect ==
  /\ Enter("wait") /\ me.children # 0 /\ Collectable # {}
  /\ LET child == Min(Collectable)
         out   == RemoveOrPanic(Entry, "zombie", child, "_sys_wait: can't deque zombie")
         told  == [out EXCEPT !.pcb[current] = [@ EXCEPT !.children = me.children - 1],
                              !.returned[current] =
                                <<E_SUCCESS, pcb[child].pid, pcb[child].exitstatus>>]
     IN Becomes(IF Halted(out) THEN out ELSE PcbCleanup(told, child))

WaitBlock ==
  /\ Enter("wait") /\ me.children # 0 /\ Collectable = {}
  /\ LET waiting == [Entry EXCEPT !.pcb[current] = [@ EXCEPT !.state = PS_WAITING]]
     IN Becomes(Dispatch(EnqueOrPanic(waiting, "waiting", current,
                                      "_sys_wait: can't enque waiting parent")))

Wait == WaitNoChild \/ WaitCollect \/ WaitBlock

-----------------------------------------------------------------------------
(* fork() and exec().                                                      *)

(* The child is a copy of the parent's PCB, its count of children          *)
(* included, except for the fields fixed here.                             *)
Forked(k) ==
  LET child  == Head(k.queue["free_pcbs"])
      parent == k.pcb[current]
      with   == StkAlloc(PcbAlloc(k))
      copied == [with EXCEPT
                   !.pcb[child] = [parent EXCEPT !.pid = k.next_pid,
                                                 !.ppid = parent.pid,
                                                 !.stack = Head(k.free_stacks)],
                   !.next_pid = @ + 1]
      told   == [copied EXCEPT !.returned =
                   [@ EXCEPT ![child] = <<0>>, ![current] = <<k.next_pid>>]]
  IN Schedule([told EXCEPT !.pcb[current] = [@ EXCEPT !.children = parent.children + 1]], child)

ForkNoStack(k) ==
  Return(PcbDealloc(PcbAlloc(k), Head(k.queue["free_pcbs"])), E_NO_STACKS)

ForkNoPid ==
  /\ Enter("fork") /\ next_pid >= PID_LIMIT
  /\ Becomes(Return(Entry, E_NO_MORE_PROCS))

ForkNoPcb_Counted ==   \* the child is counted before there is a PCB for it
  /\ Enter("fork") /\ next_pid < PID_LIMIT /\ queue["free_pcbs"] = << >>
  /\ Becomes(Return([Entry EXCEPT !.pcb[current] = [@ EXCEPT !.children = @ + 1]], E_NO_PCBS))

ForkNoPcb ==
  /\ Enter("fork") /\ next_pid < PID_LIMIT /\ queue["free_pcbs"] = << >>
  /\ Becomes(Return(Entry, E_NO_PCBS))

ForkChild ==
  /\ Enter("fork") /\ next_pid < PID_LIMIT /\ queue["free_pcbs"] # << >>
  /\ Becomes(IF free_stacks = << >> THEN ForkNoStack(Entry) ELSE Forked(Entry))

Fork == ForkNoPid \/ ForkNoPcb \/ ForkChild

(* exec() keeps the process running with what is left of its quantum; the  *)
(* priority is stored as given.                                            *)
Exec ==
  /\ Enter("exec")
  /\ \E prio \in ExecPrios :
       Becomes([Entry EXCEPT !.pcb[current] = [@ EXCEPT !.prio = prio]])

-----------------------------------------------------------------------------
(* sleep(): 0 yields the CPU; the wakeup time wraps like the clock.        *)

Sleep ==
  /\ Enter("sleep")
  /\ \E msec \in SleepTimes :
       LET asleep == [Entry EXCEPT !.pcb[current] =
                        [@ EXCEPT !.wakeup = (now + msec) % TIME_MOD,
                                  !.state = PS_SLEEPING]]
       IN Becomes(Dispatch(
            IF msec = 0 THEN Schedule(Entry, current)
            ELSE EnqueOrPanic(asleep, "sleeping", current,
                              "_sys_sleep: can't enque sleeper")))

-----------------------------------------------------------------------------
(* read().  With nothing read the caller is put on _reading, whatever the  *)
(* channel was.                                                            *)

FinishRead(k, n) ==
  IF n > 0 THEN Return(k, n)
  ELSE IF k.qnodes = 0 THEN Return(k, E_FAILURE)
  ELSE Dispatch([Enque(k, "reading", current) EXCEPT
                   !.pcb[current] = [@ EXCEPT !.state = PS_BLOCKED]])

(* c_gets() takes characters up to size - 1, a newline, which it keeps, or *)
(* an EOT, which it drops; what the buffer lacks it polls from the         *)
(* keyboard with interrupts off.  n characters are stored, used are taken. *)
Gets(size) ==
  IF size <= 1 THEN {[n |-> 0, used |-> 0]}
  ELSE {[n |-> i, used |-> i] : i \in 1 .. size - 1}
       \cup {[n |-> i, used |-> i + 1] : i \in 0 .. size - 2}

ReadConsoleEmpty ==
  /\ Enter("read_console") /\ console < 1
  /\ Becomes(Return(Entry, E_NO_CHAR))

ReadConsole ==
  /\ Enter("read_console") /\ console >= 1
  /\ \E size \in Sizes : \E line \in Gets(size) :
       Becomes(FinishRead([Entry EXCEPT !.console =
                             IF line.used > @ THEN 0 ELSE @ - line.used], line.n))

ReadSio ==
  /\ Enter("read_sio")
  /\ \E size \in Sizes :
       LET n == IF size < incount THEN size ELSE incount
       IN Becomes(FinishRead([Entry EXCEPT !.incount = @ - n], n))

ReadBadChannel == Enter("read_bad") /\ Becomes(Return(Entry, E_BAD_CHAN))

-----------------------------------------------------------------------------
(* Interrupts.                                                             *)

CR == 13
LF == 10

RxChar_NoRoomTest ==   \* the input buffer is not checked for room
  /\ Enter("rx")
  /\ \E rxd \in Chars :
       LET ch     == IF rxd = CR THEN LF ELSE rxd
           reader == Head(queue["reading"])
           told   == [Deque(Entry, "reading") EXCEPT !.returned[reader] = <<ch>>]
       IN Becomes(IF queue["reading"] # << >> THEN Schedule(told, reader)
                  ELSE [Entry EXCEPT !.incount = @ + 1])

(* A character on the serial line: to the first blocked reader, or to the  *)
(* input buffer if there is room.                                          *)
RxChar ==
  /\ Enter("rx")
  /\ \E rxd \in Chars :
       LET ch     == IF rxd = CR THEN LF ELSE rxd
           reader == Head(queue["reading"])
           told   == [Deque(Entry, "reading") EXCEPT !.returned[reader] = <<ch>>]
       IN Becomes(IF queue["reading"] # << >> THEN Schedule(told, reader)
                  ELSE [Entry EXCEPT !.incount = IF @ < BUF_SIZE THEN @ + 1 ELSE @])

(* A key on the console: dropped when the circular buffer is full.         *)
KeyPress ==
  /\ Enter("key")
  /\ Becomes([Entry EXCEPT !.console = IF @ < C_BUFSIZE - 1 THEN @ + 1 ELSE @])

Tick_NoPreemption ==   \* the quantum is renewed, not ended
  /\ Enter("tick")
  /\ LET woken == WakeSleepers([Entry EXCEPT !.now = (@ + 1) % TIME_MOD])
     IN Becomes([woken EXCEPT !.pcb[current] =
                   [@ EXCEPT !.q_ticks = IF me.q_ticks = 1 THEN QUANT_STD
                                       ELSE (me.q_ticks - 1) % 256]])

Tick_QuantumFirst ==   \* the quantum is checked before the sleepers are woken
  /\ Enter("tick")
  /\ LET later == [Entry EXCEPT !.now = (@ + 1) % TIME_MOD,
                      !.pcb[current] = [@ EXCEPT !.q_ticks = (me.q_ticks - 1) % 256]]
     IN Becomes(WakeSleepers(IF later.pcb[current].q_ticks < 1
                             THEN Dispatch(Schedule(later, current)) ELSE later))

(* The clock: advance the time, wake the sleepers that are due, and end    *)
(* the quantum of the current process when it is used up.                  *)
Tick ==
  /\ Enter("tick")
  /\ LET woken == WakeSleepers([Entry EXCEPT !.now = (@ + 1) % TIME_MOD])
         used  == [woken EXCEPT !.pcb[current] = [@ EXCEPT !.q_ticks = (me.q_ticks - 1) % 256]]
     IN Becomes(IF used.pcb[current].q_ticks < 1
                THEN Dispatch(Schedule(used, current)) ELSE used)

-----------------------------------------------------------------------------

Next ==
  \/ GetPid \/ GetPpid \/ GetTime \/ GetStatus \/ Write \/ WriteBadChannel
  \/ Exit \/ BogusCall \/ Kill \/ Wait \/ Fork \/ Exec \/ Sleep
  \/ ReadConsoleEmpty \/ ReadConsole \/ ReadSio \/ ReadBadChannel
  \/ RxChar \/ KeyPress \/ Tick

Spec == Init /\ [][Next]_vars

(* The PIT interrupts for ever and user code runs with interrupts on, so   *)
(* the clock is stopped only by a panic.  (This is weak fairness of Tick:  *)
(* when TIME_MOD > 1 Tick is the one action that changes now, and it is    *)
(* enabled until a panic.  The form is the one TLC evaluates cheaply.)     *)
ClockRuns == []<>(panic # NoPanic) \/ []<><<now' # now>>_now

FairSpec == Spec /\ ClockRuns

=============================================================================
