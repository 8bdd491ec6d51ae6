-------------------------------- MODULE Boot --------------------------------
(***************************************************************************)
(* From power-on to the kernel: bootstrap.S, which the BIOS loads from the *)
(* first sector of the image that BuildImage made, and startup.S, up to    *)
(* the call of _init and the jump to __isr_restore.                        *)
(*                                                                         *)
(* Memory is a function from the linear address of a sector to the sector  *)
(* last read there, for the sectors that are whole.  The BIOS, the disk    *)
(* and the keyboard controller are external: a disk may not be ready, any  *)
(* read may fail, and the controller takes commands when it likes.  After  *)
(* cli nobody takes scan codes from the controller, so a key may be in its *)
(* output buffer when the bootstrap looks there.                           *)
(*                                                                         *)
(* Messages on the screen are left out.  The bootstrap's code and stack    *)
(* are in memory that programs are loaded into without any check: a sector *)
(* that overwrites them, or the BIOS's own tables, ends the model.         *)
(***************************************************************************)
EXTENDS Image

CONSTANTS
  GEOMETRIES,   \* disks: [secs, heads]
  MAX_KEYS,     \* most keys pressed while the A20 gate is set
  BSS           \* first address of the kernel's BSS and the one after it

ASSUME BootConstants ==
  /\ \A g \in GEOMETRIES : g.secs \in 2 .. 63 /\ g.heads \in 1 .. 256
  /\ MAX_KEYS \in Nat
  /\ BSS \in Nat \X Nat

OFFSET_LIMIT   == 65536 - SECTOR_SIZE
START_OFFSET   == 32256      \* 0x7E00
BOOT_ADDRESS   == 31744      \* 0x7C00
BIOS_DATA      == 1280       \* the BIOS's tables are below 0x500
STACK_TOP      == 48128      \* 07C0:4000
GDT_ADDRESS    == 1280       \* 0x500, for the 40 bytes of the GDT
MMAP_ADDRESS   == 11520      \* 0x2D00, for 12 bytes
MMAP_SECTORS   == MMAP_ADDRESS + 10
OVERWRITTEN    == -1         \* no value of a word
TARGET_ADDRESS == 65536      \* 0x10000
RETRIES        == 3
N_TRACKS       == 80

VARIABLES
  pc,       \* where the machine is
  disk,     \* geometry of the disk, and its state: [secs, heads, max_sec, max_head]
  pos,      \* the next sector to read: [sec, head, track]
  prog,     \* readprog: [es, bx, left, tries], and di as an index of the table
  mem,      \* linear address -> the sector there
  sectors,  \* the word at MMAP_SECTORS, or OVERWRITTEN by a sector read there
  kbc,      \* keyboard controller: [cmd (or 0), obf, enabled, a20, keys]
  al,       \* what enable_A20 read from the controller
  cpu       \* [nmi, pe, edi]

bootVars == <<pc, disk, pos, prog, mem, sectors, kbc, al, cpu>>
vars == <<imageVars, bootVars>>

Regs == [nmi |-> TRUE, pe |-> FALSE, edi |-> 0]
NoRead == [es |-> 0, bx |-> 0, left |-> 0, tries |-> 0, di |-> 0]

BootInit ==
  /\ pc = "off"
  /\ \E g \in GEOMETRIES : disk = [secs |-> g.secs, heads |-> g.heads, max_sec |-> 19, max_head |-> 2]
  /\ pos = [sec |-> 2, head |-> 0, track |-> 0]
  /\ prog = NoRead /\ mem = <<>> /\ sectors = 0
  /\ kbc = [cmd |-> 0, obf |-> "empty", enabled |-> TRUE, a20 |-> FALSE, keys |-> 0]
  /\ al = "none" /\ cpu = Regs

Init == ImageInit /\ BootInit

-----------------------------------------------------------------------------
(* The disk.                                                               *)

(* Sectors of a track are numbered from 1, heads and tracks from 0.        *)
LbaOf(p) == (p.track * disk.heads + p.head) * disk.secs + p.sec - 1

(* A sector read into memory: those that it overlaps are no longer whole.  *)
Loaded(m, address, sector) ==
  [a \in {b \in DOMAIN m : b + SECTOR_SIZE <= address \/ address + SECTOR_SIZE <= b} \cup {address} |->
    IF a = address THEN sector ELSE m[a]]

Overwrites(address, first, last) == address <= last /\ first < address + SECTOR_SIZE

(* What the bootstrap itself stores makes the sectors there less than whole. *)
Stored(m, first, last) ==
  [a \in {b \in DOMAIN m : ~ Overwrites(b, first, last)} |-> m[a]]

(* Where es:bx goes after a sector: only an offset that is exactly the     *)
(* limit makes the segment move on.                                        *)
AdvanceAddress_NoSegment(r) == [r EXCEPT !.bx = Word(@ + SECTOR_SIZE)]
AdvanceAddress(r) ==
  IF r.bx = OFFSET_LIMIT
  THEN [r EXCEPT !.bx = 0, !.es = Word(@ + 4096)]
  ELSE [r EXCEPT !.bx = Word(@ + SECTOR_SIZE)]

(* Next sector, else next head, else next track.                           *)
AdvancePosition(p) ==
  CASE p.sec + 1 # disk.max_sec  -> [p EXCEPT !.sec = @ + 1]
    [] p.sec + 1 = disk.max_sec /\ (p.head + 1) % 256 # disk.max_head
                                 -> [p EXCEPT !.sec = 1, !.head = (@ + 1) % 256]
    [] OTHER                     -> [sec |-> 1, head |-> 0, track |-> p.track + 1]

-----------------------------------------------------------------------------
(* The first sector of the bootstrap.                                      *)

(* Power on or reset: the BIOS loads the first sector, with the data areas *)
(* as they were assembled, and jumps to it if it has the signature, which  *)
(* a first sector that was cut has lost.  Memory keeps what it holds.      *)
PowerOn ==
  /\ pc = "off" /\ output \in {"floppy", "usb"}
  /\ pc' = IF loader = "blank" THEN "frozen" ELSE "test"
  /\ mem' = Loaded(mem, BOOT_ADDRESS, DiskSector(0))
  /\ disk' = [disk EXCEPT !.max_sec = 19, !.max_head = 2]
  /\ pos' = [sec |-> 2, head |-> 0, track |-> 0]
  /\ kbc' = [kbc EXCEPT !.cmd = 0, !.obf = "empty", !.enabled = TRUE, !.a20 = FALSE]
  /\ prog' = NoRead /\ al' = "none" /\ cpu' = Regs
  /\ UNCHANGED <<sectors, imageVars>>

TestDisk ==
  /\ pc = "test"
  /\ pc' \in {"params", "frozen"}
  /\ UNCHANGED <<disk, pos, prog, mem, sectors, kbc, al, cpu, imageVars>>

(* The parameters are the highest sector and head; then the second sector. *)
DiskParams ==
  /\ pc = "params"
  /\ disk' = [disk EXCEPT !.max_sec = disk.secs + 1, !.max_head = disk.heads % 256]
  /\ prog' = [es |-> 0, bx |-> START_OFFSET, left |-> 1, tries |-> RETRIES, di |-> 0]
  /\ pc' = "second"
  /\ UNCHANGED <<pos, mem, sectors, kbc, al, cpu, imageVars>>

(* readprog: one attempt at one sector.  "second" and "program" are the    *)
(* same code, called from two places.                                      *)
Reading == pc \in {"second", "program"}

ReadFails ==
  /\ Reading
  /\ prog' = [prog EXCEPT !.tries = @ - 1]
  /\ pc' = IF prog.tries = 1 THEN "frozen" ELSE pc
  /\ UNCHANGED <<disk, pos, mem, sectors, kbc, al, cpu, imageVars>>

(* jg: the count is a signed number, and goes on while one less is above 0.*)
AfterSector_OneMore ==
  IF Short(prog.left) - 1 >= 0 THEN pc ELSE IF pc = "second" THEN "count" ELSE "next"
AfterSector ==
  IF Short(prog.left) - 1 > 0 THEN pc ELSE IF pc = "second" THEN "count" ELSE "next"

ReadSector ==
  LET address == prog.es * 16 + prog.bx
      moved   == AdvancePosition(pos)
      lost    == \/ address < BIOS_DATA
                 \/ Overwrites(address, BOOT_ADDRESS, BOOT_ADDRESS + 511)
                 \/ Overwrites(address, STACK_TOP - 32, STACK_TOP - 1)
                 \/ pc = "program" /\ Overwrites(address, START_OFFSET, START_OFFSET + 511)
  IN  /\ Reading
      /\ LbaOf(pos) < disk.secs * disk.heads * N_TRACKS
      /\ mem' = Loaded(mem, address, DiskSector(LbaOf(pos)))
      /\ sectors' = IF Overwrites(address, MMAP_SECTORS, MMAP_SECTORS + 1) THEN OVERWRITTEN ELSE sectors
      /\ IF lost \/ moved.track = N_TRACKS
         THEN /\ pc' = IF lost THEN "lost" ELSE "frozen"
              /\ UNCHANGED <<pos, prog>>
         ELSE /\ pc' = AfterSector
              /\ pos' = moved
              /\ prog' = [AdvanceAddress(prog) EXCEPT !.left = Word(@ - 1), !.tries = RETRIES]
      /\ UNCHANGED <<disk, kbc, al, cpu, imageVars>>

(* The size of the first program of the table, whichever it is, goes to    *)
(* the memory map.                                                         *)
StoreCount_Segment ==
  /\ pc = "count"
  /\ sectors' = TableWord(1)
  /\ mem' = Stored(mem, MMAP_SECTORS, MMAP_SECTORS + 1)
  /\ pc' = "next"
  /\ UNCHANGED <<disk, pos, prog, kbc, al, cpu, imageVars>>
StoreCount ==
  /\ pc = "count"
  /\ sectors' = TableWord(0)
  /\ mem' = Stored(mem, MMAP_SECTORS, MMAP_SECTORS + 1)
  /\ pc' = "next"
  /\ UNCHANGED <<disk, pos, prog, kbc, al, cpu, imageVars>>

(* nextblock: a count of zero ends the table.                              *)
NextBlock ==
  /\ pc = "next"
  /\ IF TableWord(prog.di) = 0
     THEN pc' = "switch" /\ prog' = NoRead
     ELSE /\ pc' = "program"
          /\ prog' = [es |-> TableWord(prog.di + 1), bx |-> TableWord(prog.di + 2),
                      left |-> TableWord(prog.di), tries |-> RETRIES, di |-> prog.di + 3]
  /\ UNCHANGED <<disk, pos, mem, sectors, kbc, al, cpu, imageVars>>

-----------------------------------------------------------------------------
(* The second sector: into protected mode.                                 *)

(* cli, no NMIs, the floppy's motor off.  A second sector that was cut     *)
(* ends the model: it is nulls sooner or later.                            *)
Switch ==
  /\ pc = "switch"
  /\ cpu' = [cpu EXCEPT !.nmi = FALSE]
  /\ pc' = IF loader = "cut" THEN "lost" ELSE "disable"
  /\ UNCHANGED <<disk, pos, prog, mem, sectors, kbc, al, imageVars>>

(* enable_A20 waits until the controller's input buffer is empty before    *)
(* each command (a20wait) and for something in its output buffer before it *)
(* reads (a20wait2).                                                       *)
A20 == <<"disable", "ask", "read", "tell", "write", "enable", "wait">>
AfterStep == [s \in {A20[i] : i \in 1 .. 6} |-> A20[(CHOOSE i \in 1 .. 6 : A20[i] = s) + 1]]
CommandOf == [s \in {"disable", "ask", "tell", "enable"} |->
  CASE s = "disable" -> 173 [] s = "ask" -> 208 [] s = "tell" -> 209 [] s = "enable" -> 174]

SendCommand_WrongBit ==
  /\ pc \in DOMAIN CommandOf /\ kbc.obf = "empty" /\ kbc.cmd = 0
  /\ kbc' = [kbc EXCEPT !.cmd = CommandOf[pc]]
  /\ pc' = AfterStep[pc]
  /\ UNCHANGED <<disk, pos, prog, mem, sectors, al, cpu, imageVars>>
SendCommand ==
  /\ pc \in DOMAIN CommandOf /\ kbc.cmd = 0
  /\ kbc' = [kbc EXCEPT !.cmd = CommandOf[pc]]
  /\ pc' = AfterStep[pc]
  /\ UNCHANGED <<disk, pos, prog, mem, sectors, al, cpu, imageVars>>

ReadPort ==
  /\ pc = "read" /\ kbc.obf # "empty"
  /\ al' = kbc.obf /\ kbc' = [kbc EXCEPT !.obf = "empty"]
  /\ pc' = AfterStep[pc]
  /\ UNCHANGED <<disk, pos, prog, mem, sectors, cpu, imageVars>>

(* The value read goes to the output port, with the bit of the A20 gate.   *)
(* Bit 0 of the port is the processor's reset line, which is active low:   *)
(* it is set in what the port held, and in a scan code that is odd.        *)
WritePort ==
  /\ pc = "write" /\ kbc.cmd = 0
  /\ IF al = "even key"
     THEN pc' = "off" /\ kbc' = kbc
     ELSE pc' = AfterStep[pc] /\ kbc' = [kbc EXCEPT !.a20 = TRUE]
  /\ UNCHANGED <<disk, pos, prog, mem, sectors, al, cpu, imageVars>>

(* The GDT to its place, memory size to the memory map, IDTR and GDTR, and *)
(* the long jump to the target program in protected mode.                  *)
MoveGdt ==
  /\ pc = "wait" /\ kbc.cmd = 0
  /\ mem' = Stored(Stored(mem, GDT_ADDRESS, GDT_ADDRESS + 39), MMAP_ADDRESS, MMAP_ADDRESS + 7)
  /\ pc' = "jump"
  /\ UNCHANGED <<disk, pos, prog, sectors, kbc, al, cpu, imageVars>>

ProtectedMode ==
  /\ pc = "jump"
  /\ cpu' = [cpu EXCEPT !.pe = TRUE]
  /\ pc' = IF TARGET_ADDRESS \in DOMAIN mem /\ mem[TARGET_ADDRESS][1] > 0 THEN "start" ELSE "lost"
  /\ UNCHANGED <<disk, pos, prog, mem, sectors, kbc, al, imageVars>>

(* The controller.  It is busy with a command until the output buffer is   *)
(* free for the answer.  A key arrives while the keyboard is enabled.      *)
Controller ==
  /\ kbc.cmd # 0 /\ (kbc.cmd = 208 => kbc.obf = "empty")
  /\ kbc' = [kbc EXCEPT !.cmd = 0,
                        !.enabled = IF kbc.cmd \in {173, 174} THEN kbc.cmd = 174 ELSE @,
                        !.obf = IF kbc.cmd = 208 THEN "port" ELSE @]
  /\ UNCHANGED <<pc, disk, pos, prog, mem, sectors, al, cpu, imageVars>>

Key ==
  /\ pc \in {A20[i] : i \in DOMAIN A20} /\ kbc.enabled /\ kbc.obf = "empty" /\ kbc.keys < MAX_KEYS
  /\ \E k \in {"even key", "odd key"} : kbc' = [kbc EXCEPT !.obf = k, !.keys = @ + 1]
  /\ UNCHANGED <<pc, disk, pos, prog, mem, sectors, al, cpu, imageVars>>

-----------------------------------------------------------------------------
(* startup.S.                                                              *)

(* NMIs again, the segment registers, the stack; edi at the BSS.           *)
Startup ==
  /\ pc = "start"
  /\ cpu' = [cpu EXCEPT !.nmi = TRUE, !.edi = BSS[1]]
  /\ pc' = "clear"
  /\ UNCHANGED <<disk, pos, prog, mem, sectors, kbc, al, imageVars>>

(* clearbss: a longword at a time, the first without a test.               *)
ClearBss ==
  /\ pc = "clear"
  /\ cpu' = [cpu EXCEPT !.edi = @ + 4]
  /\ pc' = IF cpu.edi + 4 < BSS[2] THEN "clear" ELSE "init"
  /\ UNCHANGED <<disk, pos, prog, mem, sectors, kbc, al, imageVars>>

(* _init returns to startup.S, which jumps to __isr_restore.               *)
EnterKernel ==
  /\ pc = "init" /\ pc' = "kernel"
  /\ UNCHANGED <<disk, pos, prog, mem, sectors, kbc, al, cpu, imageVars>>

-----------------------------------------------------------------------------
Bootstrap ==
  \/ PowerOn \/ TestDisk \/ DiskParams \/ ReadFails \/ ReadSector \/ StoreCount
  \/ NextBlock \/ Switch \/ SendCommand \/ ReadPort \/ WritePort \/ MoveGdt
  \/ ProtectedMode \/ Startup \/ ClearBss \/ EnterKernel

Next ==
  \/ Build /\ UNCHANGED bootVars
  \/ Bootstrap \/ Controller \/ Key

Spec == Init /\ [][Next]_vars

(* The processors run, and the controller gets on with a command.          *)
FairSpec ==
  /\ Spec
  /\ WF_vars(Build /\ UNCHANGED bootVars) /\ WF_vars(Bootstrap) /\ WF_vars(Controller)
=============================================================================
