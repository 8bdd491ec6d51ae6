# SysProgOS: a verification project

TLA+ modules, TLC runs and TLAPS proofs about SysProgOS, a small teaching
kernel for the 32-bit PC (C and assembly, about 6000 lines). The kernel is
uniprocessor. Every system call and interrupt handler runs to completion with
interrupts off, on one system stack, and ends by returning to whatever process
`_current` names (`Machine` checks that the stubs bring this about). So the
interleaving to explore is not inside a handler: it is the order in which user
programs make calls and the devices interrupt. The modules go from the host tool
that builds the disk image, over the boot, to the programs that run in the end.

## 1. Inventory

| Component | Source | State | Operations |
|---|---|---|---|
| queues | `queue.c` | linked lists `queue_t`, pool of 61 qnodes | `_q_enque` (FIFO or by `_cmp_wakeup`), `_q_deque`, `_q_remove`, `_q_peek` |
| process table | `process.c` | `_pcbs[28]`, `_free_pcbs`, `_next_pid`, iterator of `_pcb_find_child_of` | alloc, dealloc, cleanup, find, iterate over children |
| stacks | `stack.c` | `_stacks[28]`, `_free_stacks` | alloc, dealloc, `_stk_setup`, `_stk_dump` |
| scheduler | `scheduler.c` | `_current`, `_ready[4]` | `_schedule`, `_dispatch` |
| system calls | `syscall.c` | `_zombie`, `_waiting` | exit, read, write, fork, exec, kill, wait, sleep, getpid, getppid, gettime, getstatus, and a bad code |
| termination, start | `system.c` | `_init_pcb` | `_zombify` (reparent, wake the parent or join the zombies), `_init` (each module, then the first process) |
| clock | `clock.c` | `_now`, `_sleeping` | `_clk_isr`: advance the time, wake sleepers, end the quantum |
| serial line | `sio.c` | input and output buffers, `_reading`, `_sending`, `_ier` | `_sio_isr` (receive, transmit), `_sio_reads`, `_sio_writes`, `_sio_writec`, enable, disable, `_sio_dump` |
| console | `c_io.c` | circular keyboard buffer, shift state, cursor and scroll region | keyboard interrupt, `c_getchar`, `c_gets`, `c_putchar`, scrolling, `c_printf`, conversions |
| user programs | `user.c`, `ulibc.c`, `ulibs.S` | locals of each | `init` spawns and reaps, `idle` computes, 23 test programs; `spawn`, `do_exit`, system call stubs |
| stubs, support | `isr_stubs.S`, `support.c`, `klibc.c` | IDT, table of handlers, contexts on the stacks | save and restore a context, install handlers, default handlers, `_kpanic` |
| boot | `bootstrap.S`, `startup.S` | registers, the table of programs, disk position | load each program sector by sector, with retries; open the A20 gate; protected mode; clear the BSS |
| image builder | `BuildImage.c` | output file, table of programs | check the arguments, copy bootstrap and programs, write the table |

How they interact. A handler calls the subroutines of the other modules
directly, on shared globals. A PCB is on at most one queue at a time, the one
its `state` field implies; nothing but the discipline of the handlers makes it
so. All the queues, the ones of stacks included, draw on one pool of qnodes.
`_zombify` hands results to a parent through the parent's saved registers. The
keyboard and serial interrupts feed buffers that `read()` drains, and the
serial interrupt wakes a blocked reader. The image builder and the bootstrap share
one format, the table of programs in the bootstrap's last words; the bootstrap
and the kernel share the memory map and the state of the processor; and a stub
and the kernel share `_current`, whose first field is where the context is.

What is hard to test here: the order of a child's death, its parent's `wait()`,
the parent's own death and the reparenting; killing a process in each state it
can be in; running out of PCBs, stacks, PIDs or qnodes; sleepers, quanta and
preemption at one tick; blocked readers and buffered characters; counters of
8, 16 and 32 bits; the system with nobody to run; an interrupt at any instruction;
a disk that fails in the middle of a segment; a build that fails half way. `PROJECT.json` lists each
under "hazards" with the line where it bites and the property that watches it.

## 2. The modules

| Module | What it holds |
|---|---|
| `KernelOps` | The subroutines, as functions from a kernel state (a record with a field per global) to a kernel state. |
| `Kernel` | The state as variables, an action per system call outcome and per interrupt, `Spec`, `FairSpec`. |
| `KernelProps` | The properties of the kernel, and what comments and documents claim that is not so. |
| `QueueSpec` | What the queue module promises: sequences in the order of a key, on one pool of entries. Abstract. |
| `QueueList` | `queue.c` as written: linked lists with head, tail, size and one free list. Implements `QueueSpec`. |
| `CharStream` | What an input device promises its readers: characters in order of arrival, each once. Abstract. |
| `SerialLine` | `CharStream` for input, and the same for the output of the serial line. Abstract. |
| `Sio`, `SioProps` | `sio.c`: buffers, pointers, the interrupt handler, `read()` and `write()`. Implements `SerialLine`. |
| `Keyboard` | Console input: scan codes, Shift and Ctrl, the circular buffer, `c_gets` with its polling. Implements `CharStream`. |
| `Screen` | Console output: the screen, the scrolling region, the cursor. |
| `ScreenText` | `Screen` with a record of the text written, compared with an endless page. |
| `Convert` | Integer to decimal, hexadecimal and octal text, of `c_io.c` and `ulibc.c`. |
| `Printf` | `c_printf`: the scanner of formats, padding, and where each character goes. On `Convert`. |
| `Dump` | `_stk_dump`, which leaves out repeated lines. |
| `MCConsoleText` | `Convert`, `Printf` and `Dump` in turn: what puts text on the console; values for TLC. |
| `Users` | The programs of `user.c`, each the sequence of its system calls, on top of `Kernel`. |
| `Processors` | What the stubs promise: a processor and a stack for each process. Abstract. |
| `Machine`, `MachineProps` | Stubs, contexts, stacks, IDT, handlers, interrupt controllers, `fork`'s copy of the stack, `do_exit`. Implements `Processors`. |
| `Image` | `BuildImage.c`: arguments, files, the table, and each way to fail. |
| `Boot`, `BootProps` | `bootstrap.S` and `startup.S` on the image of `Image`, with disk and keyboard controller. |
| `SystemStart` | `_init`, module by module, up to the initial state of `Kernel`. |
| `PowerUp` | `Image`, `Boot` and `SystemStart` composed. |
| `MCQueueList`, `MCSio`, `MCUsers`, `MCBoot` | Values of constants for TLC. |
| `KernelProofs` | Lemmas on sequences; `Spec => []TypeOK`, by a lemma for each subroutine and handler; what each subroutine does to queues, stacks and qnodes. |
| `KernelSafetyProofs` | The kernel's inductive invariant, by a lemma for each handler, and the theorems that follow from it. |
| `ScreenProofs` | The cursor stays in the region, and output in the region, which shows the text. |
| `QueueListProofs` | `QueueList` implements `QueueSpec`: its lists never cross. |
| `SioProofs` | The serial driver's pointers, its pump, what it drops, what a dump shows; and that it implements `SerialLine`. |
| `KeyboardProofs` | Console input implements `CharStream`; a key is stored as it was meant. |
| `DumpProofs` | A dump of a stack of any size tells every word of it. |
| `MachineProofs` | Each process has a processor and a stack of its own: `Machine` implements `Processors`. |

How `Kernel` corresponds to the code. Each variable is a C global: `pcb` is
`_pcbs`, `queue` the nine queues of PCBs, `free_stacks` the queue of stacks,
`qnodes` the length of `_free_qnodes`, `current`, `next_pid`, `now`, `incount`
as in the code, `console` the number of characters in the keyboard buffer. Two
more are for the specification: `panic`, where `_kpanic` was called, after
which nothing happens; and `returned`, what the last entry into the kernel
stored in each process' saved EAX, with the PID and status that `wait()`
stores through its pointers. An action is a whole handler: it computes a kernel
state by composing subroutines in the order of the code and steps to it with
`Becomes`. The user programs are the environment: at any time the current
process may make any call with any argument of the constants' sets, which
includes every PID in the table, the PID of a free PCB and one that is absent.

Abstractions, and why they lose nothing the properties see:

- Register contexts and stack contents are left out, as they are the subject of
  `Machine`; a stack is its index. The characters read or written are left
  out, except the one a blocked reader is given: `_sio_isr` maps CR to LF and stores the character itself in EAX.
- The fields of a freed PCB that `_sys_fork` overwrites before anyone reads
  them, and the wakeup time of a process that is awake, are set to fixed
  values so that TLC does not tell such states apart.
- `q_default` is `QUANT_STD` in every PCB that ever runs (`_sys_fork`, `_init`).
- The serial buffer is its count. The pointer `_inlast` is never wrapped, so
  the code writes past the array after 2048 characters that arrive without the
  buffer getting empty; what the kernel does from there on is not modelled.
- `c_gets` takes the characters that are buffered and polls the keyboard for
  the rest; how many it takes and stores is any possible choice (`Gets`).
- A handler is atomic. In `c_getchar` that includes a wait for keys with
  interrupts off: the model has the state after it.

How the device modules correspond to the code, and what they abstract:

- `Sio`: `inp` and `out` are the two groups of static variables, with pointers
  as indices into the arrays. A store past an array sets `wild` and ends the
  model's behaviour: what C does next depends on the memory layout. The UART is
  the environment: it holds one received character (`rbr`) and a transmit FIFO
  (`thr`), and each interrupts while it has something to say. `SioIsr` handles
  what one round of the handler's loop over both sources would. The readers
  that are blocked are a count, as `Kernel` has them as processes.
- `Keyboard`: pointers are indices. A call of `c_gets` is several steps, since
  the keyboard runs on while it polls; nothing else runs on the CPU. The
  controller holds a few scan codes, each with the character that the user
  meant, a specification variable. The tables are cut down to the keys that the
  runs use. A cell that was read is set to 0, which the code does not do, and
  which nobody can see: it is written before it is read again. An interrupt is
  taken to be withdrawn when polling has read its scan code.
- `Screen`: a matrix of glyphs; the attributes and the hardware cursor are left
  out. `c_puts` and `c_puts_at` are sequences of the character functions.
- `Convert`: 8-bit integers stand for 32-bit ones, with the constants of the
  code scaled in the same way. `-value` wraps.
- `QueueList`: qnodes are numbers. A `_kpanic` is the status "panic", which the
  refinement excludes.

- `Printf`: a format is read a character at a time, and an item is any that a
  caller may write; a character put is a call of `c_putchar` or `c_putchar_at`,
  whose effect is `Screen`'s subject. Digits come from `Convert` at 8 bits.
- `Dump`: a line of four words is one of a few texts.

How the other modules correspond to the code:

- `Users`: a program is the sequence of its system calls, `InstrOf` the one it is
  at; what the C code does with a result, before the next call, is done in the
  step in which the call returns (`Resume`). `spawn` is `fork` and, in the child,
  `exec`. A call is the action of `Kernel` with that argument, so that everything
  the kernel does happens, panics included. Consecutive writes are one, delay
  loops are left out, `MANY` stands for ten rounds and more, and `TICK` seconds
  are one tick. The order of programs, priorities and loop counts are the code's.
- `Machine`: a stack is the sequence of its words and a context the last 18 of
  them; words are numbers, code addresses, stack addresses with their offset, or
  flags, which is all that the properties tell apart. The stubs' pushes and pops
  are in the order of the assembly. Which process is dispatched is any choice:
  that is `Kernel`'s subject. The two 8259s are their in-service registers.
- `Image`: a file is its number of sectors, `info` the table, and every call of
  the C library may fail. A read error ends the copy of a file, the bootstrap
  included, and is not noticed. Segment and offset are kept as the shorts they are.
- `Boot`: memory is a function from the addresses of sectors to what was last
  read there. The word of the memory map at MMAP_SECTORS is a variable of its own,
  `sectors`, and a sector that is read over it makes it `OVERWRITTEN`. The BIOS, the disk and the keyboard controller are external: a
  read may fail, the controller is busy as long as it likes, keys are pressed.
  A program that overwrites the bootstrap or the BIOS's tables ends the model.
- `SystemStart`: one step per `_xxx_init`, in the order of `_init`, on static
  variables that are zero or hold what an earlier run left; `PowerUp` lets them
  be either until `clearbss` has run. `_c_io_init` is a step that changes nothing here:
  the pointers of the keyboard's buffer are as `clearbss` left them.

The kernel's model uses queues as sequences, which is what `QueueList` shows
`queue.c` to implement, and buffers as counts, which is sound as long as
`Sio` and `Keyboard` are FIFO queues.

## 3. The runs

| Run | Question | Bounds | States |
|---|---|---|---|
| `lifecycle` | fork, exit, kill, wait, preemption: do the table, queues, stacks and process tree agree, are the counts of children neither too low nor without bound, is each death reported once, to the parent? | 4 PCBs and stacks, 4 PIDs, quantum 1 | 382,478 |
| `timing` | who wakes at a tick, in which order, ahead of whom; do sleepers wake and ready processes of the best priority run? | 3 PCBs, time modulo 4, sleeps of 0, 1, 3, quantum 2, priorities 0 and an illegal one, clock fair | 380,004 |
| `inout` | reads, writes, fork, exit, kill, wait and every interrupt: ranges, qnode balance, no failed internal check | 3 PCBs, PIDs for two forks, buffers of 2 | 68,324 |
| `queue_list` | do linked lists on one pool implement ordered sequences? | 3 qnodes, a sorted and a FIFO queue, 3 data, two with equal keys | 3,702 |
| `serial` | do pointers, counters and interrupts make FIFO queues; is what is queued sent? | buffers of 2, one blocked reader, texts of 1 and 3 characters, UART fair | 134,896 |
| `keyboard` | is the circular buffer a FIFO queue of what the user meant; is the keyboard always served? | 3 cells, 2 scan codes waiting, Shift, Ctrl, Enter and a letter | 441,662 |
| `screen` | does the region show the end of the text, and the rest stay? | 3 by 2, every region, texts of 6 characters | 23,386 |
| `convert` | are digits, fields and places right, and can a dump be read? | integers of 8 bits; formats of 2 items, widths to 5, a screen of 7 columns; stacks of 6 lines | 353,168 |
| `boot` | is what was built what is loaded, whatever fails; does the boot end; does the kernel start in its initial state? | 15 command lines, 4 geometries, 7 free words, one key | 86,260 |
| `users` | do the test programs end, and all get reaped, without a wrong word or a panic? | 5 PCBs, 17 selections, loops of 2 rounds for 10 and more, time modulo 4 | 275,978 |
| `machine` | does each process have a processor and a stack of its own? | 2 processes, call depth 1, one exception, lines 0, 4, 12 | 1,211,264 |

Why the bounds are enough. A kernel of `N_PROCS + 3` PCBs: four are what the
process tree needs (init, a parent, its child and a bystander, or three
generations below init). With four PIDs a PCB and a stack are used again after
having been freed. All PCBs are also in use at once, so that fork fails for
want of each resource. The clock wraps in the `timing` run. Symmetry is not
used: PCBs are searched in index order. Deadlock checking is off where a panic
stops the system for good (`OnlyUserPanics` says which panics can occur) and in
`serial`, where a store outside the input array ends the model. The buffers of
2 and 3 cells are filled, emptied, wrapped around in every phase, and overrun
by texts longer than they are. The screen has room to the left, inside and to
the right of a region, and for a region of one row and of two. `boot` has programs
of one sector to more than a segment, ones that end at, cross and start just below
the end of a segment, overlap, or overwrite the table; disks with tracks of 2, 3, 18
and 63 sectors and one head or several, so that each carry of the position happens at
a different sector. `users` starts each program of `user.c`, and two PCBs more
than init, idle and one program make `spawn` fail in those that start several.
In `machine`, two processes are what saving, dispatching and restoring need; lines 0
(clock), 4 (serial) and 12 (the slave's, unexpected) stand for each kind of handler.
Deadlock checking is off in `boot`, `users` and `machine` as well: a boot that
gives up, a panic and an unexpected interrupt stop the machine for good.

What they show of the code:

- `Placement`: a PCB is on the queue its state names, and on no other, after
  every sequence of calls, so that `_q_remove` in kill, wait and zombify always
  finds what it looks for.
- `StackOwnership`, `QnodeBalance`: stacks and qnodes are never shared or lost,
  although five calls of `_q_enque` ignore its status.
- `ProcessTree`: the parent that a process will report to exists and is alive,
  or is init, and the count of children, which `fork` copies and which `wait`
  does not always lower, is never too low. `ChildrenFit`: nor does it ever exceed the
  PIDs that were given out, so it cannot overflow its 16 bits before they run out.
- `WaitMissesNoExit`, `ReapedByParent`: no exit is missed by a
  waiting parent other than init, and a PCB is freed only while its PID and
  status are handed to the parent.
- `OnlyUserPanics`: two of the kernel's panics can be reached: "no ready
  processes", when the idle process is gone, and "bad victim state", by
  `kill((pid_t) -1)`.
- `TickWakesDue`, `AwakenedFirst`: a tick wakes all who are due, and puts them
  ahead of the process whose quantum it ends.
- `SleepersWake`, `SystemReadyRuns`: liveness.
- `ImplementsQueues`: whatever the sequence of operations, the lists hold the
  same data in the same order, draw on one pool, and no internal check fails.
- `ImplementsLine`: seen through its pointers the driver is two FIFO queues,
  also when the input pointers are beyond where they should wrap. `PumpPrimed`,
  `QueuedIsSent`: the transmitter's interrupts neither run idle nor die out
  while something is queued. `DroppedOnlyIfFull`: no other loss.
- `ImplementsStream`, `TypedAsMeant`, `CodesTaken`: taking
  keystrokes by interrupt and by polling loses none and mixes up no Shift.
- `WindowShowsText`, `OutsideUntouched`: delayed scrolling loses
  no line, and never touches the rest of the screen.
- `DigitsRight`: also for the most negative integer. `FieldRight`,
  `LeftToRight`: every combination of flags, width and code gives the field that
  `c_io.h` describes, with nothing of the field before. `DumpTellsAll`: no line
  of a stack that is left out of a dump differs from the one shown before it.
- `LoadedAsBuilt`, `NothingElseLoaded`, `KernelFindsMachine`, `BootEnds`: for a
  sound table (it ends, and no program crosses a segment's end in the middle of a
  sector) every sector gets to its place, after any failures, and nothing else
  is written. That is so too for an image whose bootstrap was read in part and filled up
  with zeros, if it starts at all. The kernel is entered with the gate open and in
  protected mode; the memory map has its size only if it is the first program
  and none is loaded over the map, and `MapHoldsKernelSize` (below) is refuted.
- `StartsInInit`: the modules' order of initialisation loses no PCB, stack or qnode, and clearing the BSS
  makes a warm start a cold one. `Kernel`'s `Init` is thus where the code gets.
- `OnlyExpectedOutput`, `ProgramsFinish`: none of the programs
  that init starts reaches a panic, says that the kernel is wrong or stays for
  ever, but for T and U (below). `Reaped`: again and again no zombie is left,
  although `_zombify` does not wake init for one it inherits.
- `OwnProcessors`, `OwnFrame`: interrupts and system calls at any instruction are
  invisible to the other processes, and a frame pointer never points into another
  process' stack, as long as programs call `fork` by way of `spawn` only; and
  `exit` gets what `main` returned. `NoLineLockedOut`: no handler, expected or
  not, returns without telling the controllers. Of the slave's lines none
  returns at all, as the handlers installed for them panic.

One run TLC must find violated, a disagreement of the code with `ulib.h` that is
quoted under "findings" in `PROJECT.json`: `wait_killed` (a killed child is never
collected by `wait()`).

More disagreements were met on the way. Each is a property in the module named,
and the configuration, whose name ends in `_claims`, lists it
among others: TLC stops at the first one that it refutes, and refutes each if it
is left alone. They are beside the others for whoever works on that code, and not
among the listed runs.

| Configuration | Module | Property | The code does |
|---|---|---|---|
| `kernel_claims` | `KernelProps` | `NobodyWaitsForAnExited` | `_zombify` gives init a zombie and does not wake it (`system.c:76`, against `ulib.h:252`). |
| `kernel_claims` | `KernelProps` | `KillFindsOnlyProcesses` | A free PCB is found by PID 65535 (`process.c:139`, "ensure that it can't be found"). |
| `kernel_claims` | `KernelProps` | `ConsoleNeverBlocks` | A console read of one character blocks on the serial queue (`syscall.c:207`, "console input doesn't block"). |
| `kernel_claims` | `KernelProps` | `BlockedReaderMeansNoInput` | A reader is blocked while characters are buffered (`sio.c:153`, "this must be the first input character"). |
| `kernel_claims` | `KernelProps` | `WaitNeedsAChild` | `fork` copies the count of children, so a process without any passes the test and blocks (`syscall.c:516`, against `ulib.h:250`). |
| `serial_claims` | `MCSio` | `CrThenLf` | A text that begins with LF goes out as CR, rest, LF (`sio.c:515`, "Must do LF -> CRLF mapping"). |
| `serial_claims` | `MCSio` | `CountReturned` | A blocked read returns a character for a count (`ulib.h:90`). |
| `serial_claims` | `MCSio` | `WriteNotOverstated` | A write that was cut returns its whole size (`ulib.h:150`). |
| `serial_claims` | `MCSio` | `AtMostSizeWritten` | A write of no characters sends one (`ulib.h:159`). |
| `serial_claims` | `MCSio` | `StoredInBuffer` | The input pointer is never wrapped and leaves its array (`sio.c:177`, against the comment at 171, "if there is room"). |
| `serial_claims` | `MCSio` | `OutputDumped` | The dump of the output buffer does not follow the wrap, and shows other characters. |
| `keyboard_claims` | `Keyboard` | `UndefinedIgnored` | 255 is compared with a signed '\377', so undefined keys are stored (`c_io.c:604`). |
| `keyboard_claims` | `Keyboard` | `ReadReturns` | A console read waits for the rest of a line with interrupts off (`syscall.c:207`). |
| `screen_claims` | `Screen` | `ClearHomes` | Clearing the region leaves the cursor (`c_io.h:139`). |
| `text_claims` | `MCConsoleText` | `OctalRight` | `cvtoct` prints twice the value (`c_io.c:353`, `c_io.h:47`). |
| `text_claims` | `MCConsoleText` | `FieldRight` | `%c` of NUL counts a character that is not put, so the field is too short. |
| `text_claims` | `MCConsoleText` | `AtLeastOne` | An empty string without a width puts nothing (`c_io.h:38`, the default width is 1). |
| `text_claims` | `MCConsoleText` | `StatusFits` | Eight digits and a NUL go into eight characters (`ulibc.c:243`, `ulib.h:346`). |
| `users_claims` | `MCUsers` | `WaitersFinish` | `_zombify` wakes a waiting parent without lowering its count of children, so T and U wait once too often and never exit. |
| `users_claims` | `MCUsers` | `FailedSpawnNoticed` | `pid_t` is unsigned and the test `pid < 0` is never true. |
| `users_claims` | `MCUsers` | `InitReportsExitStatus` | init prints the result of `wait()` for the child's exit status. |
| `machine_claims` | `MachineProps` | `ForkedFrame` | A program that calls `fork` in a function returns to its parent's frame (`syscall.c:532`). |
| `boot_claims` | `MCBoot` | `ProgramsFit` | A segment from 0x8000 on is a negative short, and any size passes (`BuildImage.c:160`, "Make sure the program will fit!"). |
| `boot_claims` | `MCBoot` | `BuiltWhole` | A read error is taken for the end of the file. |
| `boot_claims` | `MCBoot` | `AllLoaded` | An empty program's count of 0 ends the table for those after it. |
| `boot_claims` | `MCBoot` | `LoadedInOrder` | An offset that is no multiple of 512 never equals the limit, and loading wraps around in its segment. |
| `boot_claims` | `MCBoot` | `NoReset` | A scan code left in the controller is taken for the output port, and written back without the bit that keeps the machine from a reset. |
| `boot_claims` | `MCBoot` | `NotTooBig` | The position is moved on after the last sector too, so an image that fills the disk is refused. |
| `boot_claims` | `MCBoot` | `MapHoldsKernelSize` | What is stored is the size of the first program of the table, whichever that is (`bootstrap.S:115`, "store kernel image size"). |
| `boot_claims` | `MCBoot` | `LoadsOnlyTable` | As many programs as the table holds leave no zero at its end, and the loader reads on in the GDT (three programs for nine free words). |

Some passing properties are stated around these: `WaitMissesNoExit` leaves out
init, `ImplementsLine` is checked with texts that do not begin with LF and go
on, `keyboard` has no undefined key. It has one Shift key, too: with both held,
releasing one ends the shift.

Fairness. In `Kernel`, `FairSpec` assumes that, until a panic, the clock
interrupts for ever. The PIT is programmed once and never stopped, user code
runs with interrupts on and handlers return (the polling loop in `c_getchar` is
the exception: it waits for a person). Nothing is assumed of the user programs:
not that they ever make a call, so starvation below the highest priority is
allowed and `SystemReadyRuns` is about priority 0 only. In `Sio`, the UART goes
on shifting characters out and its interrupts are taken, which the same
argument justifies. In `Keyboard`, the kernel's code in `c_gets` goes on when
it can (weak fairness), and the interrupt is strongly fair: one that is pending
when a system call returns is taken before the process can make another call,
because `iret` to a process turns interrupts on. Nobody has to press a key.
`UserFairSpec` adds to the clock's fairness that a process which is given the CPU
again and again makes its next call again and again: a quantum is long, and the
programs compute nothing that does not end. In `PowerUp` the builder, the
bootstrap, the controller and `_init` go on when they can; a disk may fail for
ever, and the boot then stops with a message, which is one of its ends.

## 4. Proofs

### The kernel

The theorems hold for every number of processes, PID limit, clock modulus,
quantum and buffer size that `KernelConstants` and `EnvironmentConstants` allow.

`KernelProofs!TypeCorrect` is `Spec => []TypeOK`. `TypeOK` says
that the record of the variables is in `KernelState`, and is inductive by
itself. The proof follows the code: `KernelState` is closed under every
subroutine (`EnqueType` ... `WakeSleepersType`), a handler composes
subroutines, so each action preserves it (`QueriesKeepType` ... `TickKeepsType`).
The points that need an argument are the sleep queue's insertion point, which
is a position of the queue (`MinNat`, `InsertAtSeq`); the loop of the clock
handler, a recursive function on the prefix that is due (`OnlyExists`,
`OnlySeq`); the count of adopted children, which is finite; next_pid, tested
before it is advanced; and the count of children, tested before it is lowered.

`KernelSafetyProofs!KernelKept` is the safety of the kernel: `Spec => []Kept`.
None of `QnodeBalance`, `Placement`, `StackOwnership`, `ProcessTree`,
`WaitMissesNoExit` and `OnlyUserPanics` is inductive, for three reasons.

- They depend on each other. `_q_insert` does not fail because there is a qnode
  for every PCB and stack (`Balanced`); that is so because each of these is on one
  queue at most (`Placed`, `Stacked`); and that is kept because `_q_insert`
  does not fail.
- In the middle of a handler they do not hold: a PCB has been taken from one
  queue and is not on another yet. `Sound(k, out)` says that the kernel state k
  is in order but for the PCBs in `out`. Each subroutine has a lemma of the form
  "from `Sound(k, out)` to `Sound(k', out')`" (`EnqueSound` takes a PCB out of
  hand, `DequeSound` puts one there, `DispatchSound`, `WakeSleepersSound` ...), which
  is what the comments at the heads of the subroutines leave unsaid; a handler
  begins and ends with the running process in hand.
- After a panic they need not hold: the handler stops where it is.

So `Kept` is `AtRest \/ GaveUp`. `AtRest` is `Sound` with the running process in
hand, that process RUNNING, and `Tree`: unique PIDs below next_pid; the parent of
each process is init or alive; a live process counts at least the children that
name it; and nobody but init waits whose child has exited. (It may count more: a
child whose status is delivered to a parent that waits already is not subtracted.)
`GaveUp` is a panic for one of the two reasons that are the user programs'
doing, with the qnodes still balanced. `Sorted`, the order of `_sleeping`, is
part of `Sound` because the clock's loop stops at the first sleeper that is not due.

`StepEnds` says of every action that it leads from `AtRest` to a state in
which the kernel is at rest or gave up, and also what the step told (`Reports`)
and whom it woke. It has a lemma for each handler (`QueriesEnd`, `ExitEnds`, `KillEnds`,
`WaitEnds`, `ForkEnds`, `TickEnds` ...). The invariants then follow from `Kept`
(`KeptRests`), the action properties `ReapedByParent`, `TickWakesDue` and
`AwakenedFirst` from `StepEnds`. The hardest part is `_zombify` (`ZombifySound`,
`TreeDies`): between the loop that gives the dead process's children to init and the
delivery of its status the tree is in order but for the dead, which is the
parameter D of `Tree`.

`CountsFit` is `Spec => []ChildrenFit`: the 16-bit count of children stays below the
number of PIDs, so the number that stands for it in the model is the one
the code has. Counts rise in two ways: `fork` copies the parent's and adds one, and init
adopts. `Forks`, the number of PIDs given out, pays for the first: a count is
at most that of the parent at the time, plus one. For the second, a count of init
would rise without bound if processes could be given to it again and again;
but a process whose parent is init is not `Adoptable` any more, and the
sum of init's count and of the adoptable processes is what is bounded
(`Fits`). A fork adds one to both sides; all else makes the left side smaller or
leaves it as it is (`Leaner`), also in the middle of a handler, so that the
lemmas of the subroutines compose (`ReparentFits`, `ZombifyFits`, `WaitFits`,
`ForkedFits`).

TLC checked `Kept` and the parts of it on the constants of `lifecycle`, `inout`
and `timing` before it was proved.

### The queues

`QueueListProofs` holds for any number of qnodes, any queues, data and keys. That
the kernel may be modelled with sequences is `Spec => ImplementsQueues`, the theorem
`QueuesImplemented`.

Nothing in `QueueList` says that the lists of two queues do not meet, on which everything
depends: an append to one would change the other. The inductive invariant `QueueInv`
is that there is a function `lists`, from the queues and the free list to
sequences of qnodes, in which every qnode occurs, once (`Divided`), and that head,
tail, size, the free list's head and the next fields are what follows
from it (`Laid`). Both operations move one qnode from one sequence to another:

- For a sequence there are `In` and `Out`, with what they do to the links
  (`PutRelinked`, `Relinked`) and to the division of the qnodes among the lists (`TakenDivided`,
  `GivenDivided`, `MovedDivided`).
- A traversal meets the qnodes of the sequence and ends (`ChainIs`), so `Chain`, by
  which the run of TLC reads the lists, is that sequence; and the traversal of `_q_enque` stops
  at the place where `QueueSpec` inserts (`PassedPlace`). For that the queue
  need not be sorted: both look for the first entry that is to come later.
- The pool is used up when there are as many entries in the queues as qnodes
  (`UsedUp`), which is so when the free list is empty and not before.

TLC cannot list the functions of `QueueInv`; it checked `ImplementsQueues`.

### The devices

`ScreenProofs` holds for screens of every size (`ScreenConstants`).
`CursorInRegion` is `Spec => []TypeOK`: the region is on the screen and not
empty, and the cursor is in it; it is inductive by itself, and rests on the
order in which `c_setscroll` bounds its arguments. `RegionConfined` is
`Spec => OutsideUntouched`: what `c_putchar` and `c_scroll` change lies in the
region. Its core is `PutcharPlace`: after any scroll that a character causes,
the character is put at a place of the region.

`TextShown` is `TextSpec => []WindowShowsText`, for texts of any length (`MAX_TYPED`). The
page is a recursive function of the text, and the argument is an induction over
the text all the same, because the text grows by one character a step. The invariant
`TextInv` says that there is a function, from the characters of the
text to their places on the page, that follows the recursive equation (`Path`) and
goes down the page a line at a time at most (`Travelled`); that the region is a
window on the page; and that the cursor is where the page goes on (`Displays`), which
is one row below the region if a scroll is due. A character that is written
makes the function longer by one place (`PathAppend`) and changes the page in a way
that is known (`PageAppend`); `RoomIsMade` is the scroll, whose blank row is below
the last line of the page (`BelowBlank`), and `CharacterPlaced` and `CursorPlaced`
are the rest of `c_putchar`. That there is only one such function (`PathUnique`)
makes it `PageAt`. TLC checked `TextInv` on the constants of `screen`.

`SioProofs` holds for buffers of every size, any number of readers and any
texts that satisfy `NewlineAlone`: a text of several characters does not begin
with LF. The assumption is needed. Such a text, written to an idle line, is
queued but for its LF, which then becomes CR and a queued LF: if the rest
filled the buffer, `_sio_writec` counts one character too many; if it left one
cell, `_sio_writec` leaves the pointer past the array, where the next character
written is stored. `TypeOK` is not
inductive, and the invariant `SioInv` adds two facts that relate the variables:

- `Straight`: until the input overruns its array, `_innext` + `_incount` =
  `_inlast`. `_sio_isr` never wraps its pointer, so `_sio_reads` never gets to
  its wrap test, which comes one too late; hence a reader is given nothing from
  past the array (`PointersInRange`).
- `Primed`, the property `PumpPrimed` itself: it is why a character finds the
  FIFO empty when it is sent at once, and why the pointers are at the beginning
  then, so that the LF after a CR fits.

The two halves share no variable, so each step keeps one half trivially
(`NextInv`). `NothingDroppedEarly`, about steps, uses the ranges only.
`InputDumpedRight` is `Straight` again: as the two pointers and the count agree,
the first `_incount` characters from `_innext`, which the driver has yet to give
out, are those that `_sio_dump` prints (`InputDumped`; TLC agreed on the constants of `serial`).

`LineIsKept` is `Spec => ImplementsLine`: the driver, seen through its pointers
and counters, is a pair of FIFO queues. Two more facts are inductive together with
`SioInv`. `Eager`: a process that waits for input found the buffer empty, and it
is still empty, so a character that is handed to it does not overtake others.
`Round`: the output's `_outlast` is `_outcount` cells behind `_outnext`, modulo
BUF_SIZE, so what `_sio_writes` copies is found in order by the interrupts
(`CopiedContents`; `Distance` is the arithmetic of two wrapped pointers). Each
action is then a step of `SerialLine` in one direction and leaves the other
alone: `ReceiveIsStream` (hand over, accept or drop), `ReadIsStream`,
`TransmitIsLine`, `WriteIsLine`, `ShiftedIsLine`. Two more assumptions are needed.
`ReadsSome`: nobody reads 0 characters. `_sys_read` blocks such a reader though
characters are buffered, and gives it one that arrives later, which overtakes
them. `WriteWhole`: a write is of a whole text. A write of 0 characters to an idle
line sends one (`AtMostSizeWritten`).

`KeyboardProofs` holds for a circular buffer and a controller's queue of every
size and any set of keys. `KeyboardIsStream` is `Spec => ImplementsStream`:
console input implements `CharStream`. The invariant is that the variables keep to
their types, the pointers to the array; the mapping is the cells between the two pointers, and the argument is that a store is an `Append` and a
read a `Tail` of them, wherever they wrap around (`Cells`, `Wrapped`). `TypedRight` is
`Spec => TypedAsMeant`. A key is queued as scan code while others wait in the
controller, Shift and Ctrl among them; it is decoded later, by whichever of interrupt
and poll comes first. `MeantInv` says of every code that waits how the modifiers will stand
when it is reached, which is `OnAfter`: on, unless one of the changes before it ends
it. `OnAfterOneMore` is what a press or release adds at the end, `OnAfterShifted`
what handling the first code takes away. It is for keyboards of one Shift key
(`OneShiftKey`): with both held, releasing one ends the shift.

`DumpProofs!DumpComplete` is `DumpSpec => []DumpTellsAll`, for stacks of any
size and contents (`DumpConstants`: no line is the empty text, with which
`_stk_dump` starts). `DumpTellsAll` says nothing of `oldbuf` and `eliding`, on
which the next step depends; `Progress` adds that `oldbuf` is the line printed
last and `eliding` the number of lines since.

### The machine

`MachineProofs` holds for any number of processes, any depth of calls, and any
exceptions and interrupt lines. It assumes `~ FORKS_ANYWHERE`: programs call `fork()`
in `spawn()` only, as those of `user.c` do (`ulibc.c` line 266 is the one call). The
assumption is needed, as `ForkedFrame` is refuted for others: `fork()` copies the frame
pointers that are on the stack as they are, and they point into the parent's.
`spawn()` gets by because its child never returns through them.

No property of the machine is inductive: whether EBP points to a function's own
frame depends on what the instructions before have left on the stack, for the process
that runs and for each that was interrupted or waits in a call. `MachineInv` says it
in terms of `File(p)`, the words on p's stack and its registers, which are the
same whether they are in the processor or saved:

- `Fits`: the stack is a `Chain` of frames, each holding the caller's frame pointer
  and a local above a return address, down to the return to `do_exit()`; and what lies on
  top is what the instruction at EIP is about to pop, or what the call in progress
  has pushed. A child that has come out of `fork()` has the chain of its parent, and
  leaves by `exec()` before it uses it.
- A process in the kernel has its context in the place on its own stack that
  its PCB points to, and the vector that it came with.
- No line is waiting for its end-of-interrupt while a program runs.

There is a lemma for each instruction, for the stub that saves a context and the one that
restores it, and for each handler. Each shows that the invariant is
kept, that no other process' file has changed (its frame condition), and that the step is
one of `Processors` or changes nothing that it sees. `MachineBehaves` is
`Spec => []MachineInv`; `FrameStaysOwn` (`OwnFrame`), `LinesStayOpen`
(`NoLineLockedOut`) and `ProcessorsImplemented` (`OwnProcessors`, the refinement)
follow. TLC checked `MachineInv` on the constants of `machine` before it was proved.

### Only model-checked

- Liveness, which needs fairness and is out of the prover's reach:
  `SleepersWake`, `SystemReadyRuns`, `QueuedIsSent`, `CodesTaken`, `Reaped`,
  `ProgramsFinish`, `BootEnds`.
- `DigitsRight`, `FieldRight`, `LeftToRight`: what the conversions and `c_printf`
  compute is an induction over digits and formats, which the library's
  induction theorems cannot be used for here.
- The properties of `Boot` and `PowerUp`; `OnlyExpectedOutput` of `Users`.

## 5. Not modelled

- What is printed and nothing else: messages of the boot and the builder,
  `_pcb_dump`, `_context_dump`, `_q_dump`, `_put_char_or_code`, the clock's
  pinwheel, what the user programs write.
- `_sio_readc` and `_sio_puts`, which have no callers.
- The port I/O routines and delay loops: what the hardware does is modelled where
  it is used. `_memcpy`, `_memclr` and the string functions are what their callers
  do with them.
- The contents of registers that no code looks at, and segmentation: every
  segment is flat.
- `src/SCCS`, the history of the same files. `s.x86arch.h` is the only copy of
  `x86arch.h`, which `support.c` includes, and is read for its constants.

## 6. Plan

1. The modules of section 2: done.
2. Proofs: the kernel's safety, the serial driver, console input the machine and the
   queues, with their refinements, are done, as are console output and `Dump`.
   Next: `StartsInInit`.
3. `ProcLife`: an abstract table of live, dead and reaped processes that the
   kernel implements by a refinement mapping.
4. The wrap of the 32-bit clock against sleeps of any length.
