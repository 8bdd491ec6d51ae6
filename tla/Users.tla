-------------------------------- MODULE Users --------------------------------
(***************************************************************************)
(* The user programs of user.c on the kernel of module Kernel: each is the *)
(* sequence of its system calls, with what it does with their results.     *)
(*                                                                         *)
(* A system call is a step of Kernel with the arguments the program gives; *)
(* what the program does between two calls is done when the first returns. *)
(* Consecutive writes and delay loops, which end on no condition, are one  *)
(* write.  Bounded: a loop of ten or more rounds makes MANY of them, and   *)
(* TICK seconds are one tick of the clock.                                 *)
(***************************************************************************)
EXTENDS Kernel

CONSTANTS
  SELECTIONS,     \* lists of the programs that init starts (SPAWN_x)
  MANY,           \* rounds of the loops of ten rounds and more
  TICK            \* seconds of a tick of the model's clock

ASSUME UserConstants == MANY \in Nat \ {0} /\ TICK \in Nat \ {0}

VARIABLES
  selected,       \* the SPAWN_x definitions of user.h, fixed by Init
  user            \* user[p]: the program p runs and where it is

userVars == <<vars, selected, user>>

EXIT_SUCCESS == 0
EXIT_FAILURE == 1

-----------------------------------------------------------------------------
(* Instructions: a system call, or the end of a loop.                      *)

Op(op)            == <<[op |-> op]>>
Say               == Op("write")
Spawn(prog, prio) == <<[op |-> "spawn", prog |-> prog, prio |-> prio]>>
Nap(seconds)      == <<[op |-> "sleep", msec |-> (seconds + TICK - 1) \div TICK]>>

(* "Shouldn't happen": what follows is not to be reached.                  *)
Wrong             == Op("wrong")
Leave(status)     == <<[op |-> "exit", status |-> status]>> \o Wrong

(* main() returned: do_exit() calls exit() with its value.                 *)
Returns(status)   == Leave(status)

For(rounds, body) ==
  body \o <<[op |-> "repeat", length |-> Len(body), rounds |-> rounds]>>

Forever(body)      == For(0, body) \o Wrong
Many(rounds, body) == For(IF rounds < MANY THEN rounds ELSE MANY, body)

-----------------------------------------------------------------------------
(* The programs.  pid_t is unsigned, so the test pid < 0 that follows each *)
(* spawn() is never true and its branch is left out.                       *)

(* report(): who runs, with the PID the caller asked for.                  *)
Report == Op("getpid") \o Say

user_a == Many(30, Say) \o Leave(EXIT_SUCCESS)
user_b == Many(30, Say) \o Leave(EXIT_SUCCESS)
user_c == Many(30, Say) \o Leave(EXIT_SUCCESS)
user_d == Say \o Spawn("user_z", P_HIGH) \o Say \o Leave(EXIT_SUCCESS)
user_e == Report \o For(5, Nap(10) \o Say) \o Leave(EXIT_SUCCESS)
user_f == Report \o For(5, Nap(5) \o Say) \o Leave(EXIT_SUCCESS)
user_g == Report \o For(5, Nap(15) \o Say) \o Leave(EXIT_SUCCESS)
user_h == For(5, Say) \o Returns(0)
user_j == Say \o For(N_PROCS * 2, Spawn("user_y", P_HIGH) \o Say) \o Leave(EXIT_SUCCESS)
user_k == For(3, Say \o Spawn("user_x", P_HIGH) \o Nap(30)) \o Leave(EXIT_SUCCESS)
user_l == Op("gettime") \o For(3, Say \o Spawn("user_x", P_HIGH) \o Nap(0))
          \o Op("gettime") \o Say \o Leave(EXIT_SUCCESS)
user_m == Say \o For(3, Spawn("user_w", P_HIGH) \o Say) \o Leave(EXIT_SUCCESS)
user_n == Say \o For(3, Spawn("user_w", P_LOW) \o Spawn("user_z", P_LOW) \o Say)
          \o Leave(EXIT_SUCCESS)
user_p == Op("gettime") \o Say \o For(3, Nap(2) \o Op("gettime") \o Say)
          \o Leave(EXIT_SUCCESS)
user_q == Say \o Op("bogus") \o Wrong
user_r == Say \o Nap(10) \o For(3, Say \o Op("read")) \o Say \o Leave(EXIT_SUCCESS)
user_s == Say \o Forever(Nap(20) \o Say)
user_t == For(3, Say \o Spawn("user_w", P_LOW)) \o Say \o Nap(8)
          \o Op("wait") \o Leave(EXIT_SUCCESS)
user_u == For(3, Spawn("user_w", P_HIGH) \o Say) \o Nap(8)
          \o Op("kill") \o Op("wait") \o Leave(EXIT_SUCCESS)
user_w == Op("getpid") \o Many(20, Say \o Nap(3)) \o Say \o Leave(EXIT_SUCCESS)
user_x == Op("getpid") \o Many(20, Say) \o Op("exit_pid") \o Wrong
user_y == Many(10, Say \o Nap(1)) \o Leave(EXIT_SUCCESS)
user_z == Op("getpid") \o Op("getppid") \o Many(10, Say)
          \o Op("getppid") \o Say \o Leave(EXIT_SUCCESS)

idle == Op("getpid") \o Op("gettime") \o Forever(Say)

Started ==
  Spawn("idle", P_MIN) \o Say
  \o FlattenSeq([i \in 1 .. Len(selected) |-> Spawn(selected[i], P_HIGH) \o Say])

init == Say \o Started \o Op("wait_forever") \o Wrong

Code(prog) ==
  CASE prog = "init"   -> init   [] prog = "idle"   -> idle
    [] prog = "user_a" -> user_a [] prog = "user_b" -> user_b
    [] prog = "user_c" -> user_c [] prog = "user_d" -> user_d
    [] prog = "user_e" -> user_e [] prog = "user_f" -> user_f
    [] prog = "user_g" -> user_g [] prog = "user_h" -> user_h
    [] prog = "user_j" -> user_j [] prog = "user_k" -> user_k
    [] prog = "user_l" -> user_l [] prog = "user_m" -> user_m
    [] prog = "user_n" -> user_n [] prog = "user_p" -> user_p
    [] prog = "user_q" -> user_q [] prog = "user_r" -> user_r
    [] prog = "user_s" -> user_s [] prog = "user_t" -> user_t
    [] prog = "user_u" -> user_u [] prog = "user_w" -> user_w
    [] prog = "user_x" -> user_x [] prog = "user_y" -> user_y
    [] prog = "user_z" -> user_z

-----------------------------------------------------------------------------
(* Where a program is: the instruction, the rounds of its loop that are    *)
(* done, the children user U has on its list, and whether it is the child  *)
(* of a fork() on its way to exec().                                       *)

Start(prog) == [prog |-> prog, at |-> 1, rounds |-> 0, pids |-> << >>, child |-> FALSE]
NoUser      == [Start("none") EXCEPT !.at = 0]

InstrOf(u) == Code(u.prog)[u.at]

(* Past an instruction, and back to the start of a loop that is not done.  *)
Step(u) ==
  LET next == Code(u.prog)[u.at + 1] IN
  IF next.op # "repeat" THEN [u EXCEPT !.at = @ + 1]
  ELSE IF next.rounds = u.rounds + 1 THEN [u EXCEPT !.at = @ + 2, !.rounds = 0]
  ELSE [u EXCEPT !.at = @ + 1 - next.length,
                 !.rounds = IF next.rounds = 0 THEN 0 ELSE @ + 1]

(* What spawn() returns: the status of a failed fork() becomes a PID.      *)
PidOf(status) == status % 65536

(* The program u after its call has returned r.                            *)
Resume(u, r) ==
  LET op == InstrOf(u).op IN
  CASE op = "spawn" ->
         Step(IF u.prog = "user_u" THEN [u EXCEPT !.pids = Append(@, PidOf(r[1]))] ELSE u)
    [] op = "kill" ->
         IF Len(u.pids) = 1 THEN Step([u EXCEPT !.pids = << >>])
         ELSE [u EXCEPT !.pids = Tail(@)]
    [] op = "read" /\ r[1] < 0 -> [u EXCEPT !.at = @ - 1]
    [] op = "wait" /\ r[1] = E_SUCCESS -> u
    [] op = "wait_forever" -> u
    [] OTHER -> Step(u)

-----------------------------------------------------------------------------
UserInit ==
  /\ Init
  /\ selected \in SELECTIONS
  /\ user = [p \in Pcb |-> IF p = InitPcb THEN Start("init") ELSE NoUser]

here == user[current]
DeadPcb(p) == pcb[p].state \in {PS_KILLED, PS_ZOMBIE}

At(op) == panic = NoPanic /\ ~ here.child /\ InstrOf(here).op = op

(* Every process goes on from what the step returned to it; a new one      *)
(* continues as a copy of its parent, and a dead one runs nothing.         *)
GoOn(results) ==
  /\ user' = [p \in Pcb |->
       IF pcb'[p].state \in {PS_FREE, PS_KILLED, PS_ZOMBIE} THEN NoUser
       ELSE IF pcb[p].state = PS_FREE THEN [here EXCEPT !.child = TRUE]
       ELSE IF results[p] = << >> THEN user[p]
       ELSE Resume(user[p], results[p])]
  /\ UNCHANGED selected

Runs(op, call) == At(op) /\ call /\ GoOn(returned')

Reads     == Runs("read", ReadSio)
Asks      == Runs("getpid", GetPid) \/ Runs("getppid", GetPpid) \/ Runs("gettime", GetTime)
Writes    == Runs("write", Write)
Waits     == Runs("wait", Wait) \/ Runs("wait_forever", Wait)
Bogus     == Runs("bogus", BogusCall)
Forks     == Runs("spawn", Fork)
Exits     == Runs("exit", ExitWith(InstrOf(here).status)) \/ Runs("exit_pid", ExitWith(me.pid))

(* The child's half of spawn(): exec() the program.                        *)
Execs ==
  /\ panic = NoPanic /\ here.child
  /\ Exec /\ pcb'[current].prio = InstrOf(here).prio
  /\ user' = [user EXCEPT ![current] = Start(InstrOf(here).prog)]
  /\ UNCHANGED selected

Sleeps ==
  /\ At("sleep") /\ Sleep
  /\ LET msec == InstrOf(here).msec IN
     IF msec = 0 THEN pcb'[current].state # PS_SLEEPING
     ELSE /\ pcb'[current].state = PS_SLEEPING
          /\ pcb'[current].wakeup = (now + msec) % TIME_MOD
  /\ GoOn([returned' EXCEPT ![current] = <<E_SUCCESS>>])

(* User U kills the next child on its list, alive or not.                  *)
Kills ==
  /\ At("kill")
  /\ LET victim == PcbFind(K, Head(here.pids)) IN
     \/ victim = NoPcb /\ KillNobody
     \/ victim # NoPcb /\ DeadPcb(victim) /\ KillDead
     \/ victim # NoPcb /\ ~ DeadPcb(victim) /\ KillLive /\ pcb'[victim].state = PS_KILLED
  /\ GoOn(returned')

(* The clock; and characters on the serial line, while a program is there  *)
(* that reads them (a bound).                                              *)
Interrupt ==
  /\ Tick \/ ("user_r" \in ToSet(selected) /\ RxChar)
  /\ GoOn(returned')

UserStep ==
  \/ Reads \/ Asks \/ Writes \/ Waits \/ Bogus \/ Forks \/ Exits
  \/ Execs \/ Sleeps \/ Kills

UserNext == UserStep \/ Interrupt

UserSpec == UserInit /\ [][UserNext]_userVars

(* A quantum is five thousandths of a second, enough for many calls: a     *)
(* process that is given the processor again and again goes on.  (This is  *)
(* strong fairness of UserStep for each process, which is enabled when the *)
(* process is current, in a form that TLC evaluates cheaply: no interrupt  *)
(* but the clock's changes the time, nor one but RxChar what is typed.     *)
(* Idle, which only writes, needs none.)                                   *)
Stepped(p) ==
  /\ current = p /\ now' = now
  /\ incount' <= incount /\ Len(queue'["reading"]) >= Len(queue["reading"])

UserFairSpec ==
  /\ UserSpec /\ ClockRuns
  /\ \A p \in Pcb : \/ <>[](current # p \/ user[p].prog = "idle" \/ panic # NoPanic)
                    \/ []<><<Stepped(p)>>_userVars

-----------------------------------------------------------------------------
(* What is checked of the programs, and what comments claim that is not so.*)

(* Nobody says what user.c and the kernel have them say when the system is *)
(* wrong: no program goes on after exit() or a system call that does not   *)
(* exist, the endless loops do not end, wait() never tells init that it    *)
(* has no child, and nothing that the programs do is the kernel's panic.   *)
OnlyExpectedOutput ==
  /\ \A p \in Pcb : user[p] # NoUser => InstrOf(user[p]).op # "wrong"
  /\ returned[InitPcb] # <<E_NO_CHILD>>
  /\ panic = NoPanic

(* Programs that exited are collected, by their parents or, when these     *)
(* have gone before them, by init ("direct, or inherited", user.c): again  *)
(* and again there is no zombie left that wait() would take.               *)
Reaped == []<>(\A p \in Pcb : pcb[p].state # PS_ZOMBIE)

(* The programs with an end get there, at any priority: P_LOW is not       *)
(* starved by what is above it, nor is a sleeper forgotten.                *)
Finite ==
  {"user_a", "user_b", "user_c", "user_d", "user_e", "user_f", "user_g", "user_h",
   "user_j", "user_k", "user_l", "user_m", "user_n", "user_p", "user_q",
   "user_w", "user_x", "user_y", "user_z"}
ProgramsFinish == []<>(\A p \in Pcb : user[p].prog \notin Finite)

-----------------------------------------------------------------------------
(* What is not so.                                                         *)

(* user.c: T waits for its children, then exits; so does U.                *)
WaitersFinish ==
  \A p \in Pcb : user[p].prog \in {"user_t", "user_u"} ~> user[p].prog = "none"

(* user.c: init "reports each child process it collects via wait() to the  *)
(* console along with that child's exit status"; it prints status.         *)
ReportedByInit(r) == r[1]
InitReportsExitStatus ==
  [][LET r == returned'[InitPcb] IN
     user[InitPcb].prog = "init" /\ Len(r) = 3 => ReportedByInit(r) = r[3]]_userVars

(* A program takes a spawn() for failed when it has failed ("lowercase are *)
(* erroneous output").                                                     *)
TakenForFailed(pid) == pid < 0
FailedSpawnNoticed ==
  [][Forks /\ returned'[current] # << >> =>
       (TakenForFailed(PidOf(returned'[current][1])) <=> returned'[current][1] < 0)]_userVars
=============================================================================
