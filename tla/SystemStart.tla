---------------------------- MODULE SystemStart ----------------------------
(***************************************************************************)
(* _init() of system.c before the first process runs: the modules of the   *)
(* kernel are initialised one after the other, and then init's PCB is      *)
(* allocated, filled in, scheduled and dispatched.  Kernel's Init is what  *)
(* this should end in.                                                     *)
(*                                                                         *)
(* Interrupts are off.  Installing the handlers and programming the        *)
(* devices is left out here (see Machine), and so are the messages.        *)
(***************************************************************************)
EXTENDS Kernel

VARIABLE
  stage     \* what _init has to initialise next, or "done", or "panic"

startVars == <<vars, stage>>

Order_QueuesLate ==
  <<"console", "processes", "queues", "stacks", "scheduler", "sio", "syscalls", "clock", "init">>
Order ==
  <<"console", "queues", "processes", "stacks", "scheduler", "sio", "syscalls", "clock", "init">>

-----------------------------------------------------------------------------
(* The static variables: all zero, the console's pointers as they come in  *)
(* the kernel's image, which is an empty buffer; and as an earlier run of  *)
(* the kernel can have left them.                                          *)
Zeros ==
  [pcb |-> [p \in Pcb |-> [FreePcb EXCEPT !.pid = 0, !.ppid = 0]],
   queue |-> [q \in QueueId |-> <<>>], free_stacks |-> <<>>, qnodes |-> 0,
   current |-> NoPcb, next_pid |-> 0, now |-> 0, incount |-> 0, console |-> 0,
   returned |-> Nothing, panic |-> NoPanic]

Leftover ==
  [Zeros EXCEPT !.pcb = [p \in Pcb |-> InitProcess],
                !.queue = [q \in QueueId |-> <<InitPcb>>],
                !.free_stacks = <<1>>, !.qnodes = 1, !.current = InitPcb,
                !.next_pid = PID_LIMIT, !.now = TIME_MOD - 1,
                !.incount = BUF_SIZE, !.console = C_BUFSIZE - 1]

-----------------------------------------------------------------------------
(* The modules.                                                            *)

(* _q_reset of some queues.                                                *)
QReset(k, queues) ==
  [k EXCEPT !.queue = [q \in QueueId |-> IF q \in queues THEN <<>> ELSE @[q]]]

(* _q_init frees the qnodes onto the list as it finds it.                  *)
QInit(k) == [k EXCEPT !.qnodes = @ + N_QNODES]

PcbInit(k) ==
  LET reset == QReset(k, {"free_pcbs", "sleeping"})
      freed == FoldLeft(PcbDealloc, reset, [i \in Pcb |-> i])
  IN  [freed EXCEPT !.next_pid = PID_FIRST_USER]

StkInit(k) ==
  FoldLeft(StkDealloc, [k EXCEPT !.free_stacks = <<>>], [i \in Stack |-> i])

SchedInit(k) == QReset(k, ReadyId)
SioInit(k)   == [QReset(k, {"reading"}) EXCEPT !.incount = 0]
SysInit(k)   == QReset(k, {"zombie", "waiting"})
ClkInit(k)   == [k EXCEPT !.now = 0]

(* _c_io_init does not touch the keyboard's buffer, whose pointers have    *)
(* initial values of their own.                                            *)
CIoInit(k)   == k

Initialised(k) ==
  CASE stage = "console"   -> CIoInit(k)
    [] stage = "queues"    -> QInit(k)
    [] stage = "processes" -> PcbInit(k)
    [] stage = "stacks"    -> StkInit(k)
    [] stage = "scheduler" -> SchedInit(k)
    [] stage = "sio"       -> SioInit(k)
    [] stage = "syscalls"  -> SysInit(k)
    [] stage = "clock"     -> ClkInit(k)

-----------------------------------------------------------------------------
Stages == {Order[i] : i \in DOMAIN Order}

StartModule ==
  /\ stage \in Stages \ {"init"}
  /\ Becomes(Initialised(K))
  /\ \E i \in DOMAIN Order : stage = Order[i] /\ stage' = Order[i + 1]

(* The first process, dispatched at once.  There is a PCB and a stack, or  *)
(* the kernel gives up.                                                    *)
StartInit ==
  /\ stage = "init"
  /\ IF queue["free_pcbs"] = <<>> \/ free_stacks = <<>>
     THEN stage' = "panic" /\ UNCHANGED vars
     ELSE LET p     == Head(queue["free_pcbs"])
              taken == StkAlloc(PcbAlloc(K))
          IN  /\ Becomes(Dispatch(Schedule(
                   [taken EXCEPT !.pcb[p] = [@ EXCEPT !.pid = PID_INIT, !.ppid = PID_INIT,
                                                      !.prio = P_SYSTEM,
                                                      !.stack = Head(free_stacks)]], p)))
              /\ stage' = "done"

StartNext == StartModule \/ StartInit
=============================================================================
