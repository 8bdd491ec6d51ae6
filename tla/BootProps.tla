----------------------------- MODULE BootProps -----------------------------
(***************************************************************************)
(* What is checked of the image builder and the boot, and the claims of    *)
(* their comments that are not so.                                         *)
(***************************************************************************)
EXTENDS Boot, SequencesExt

-----------------------------------------------------------------------------
(* Where a program of the table is to go.                                  *)

First(k)  == Word(info[k].segment) * 16 + Word(info[k].offset)
Limit(k)  == First(k) + info[k].count * SECTOR_SIZE
InArea(k, address) == First(k) <= address /\ address < Limit(k)

(* A program whose sectors never cross the end of their segment, or meet   *)
(* it exactly, as the loader expects.                                      *)
Straight(k) ==
  LET offset == Word(info[k].offset)
  IN  offset % SECTOR_SIZE = 0 \/ offset + info[k].count * SECTOR_SIZE <= 65536

(* The programs that the loader gets to: a count of zero ends its table.   *)
Reached == {k \in 1 .. Len(info) : \A j \in 1 .. k : info[j].count > 0}
TableEnds == Reached # 1 .. Len(info) \/ 3 * Len(info) < FREE_WORDS

Sound == TableEnds /\ \A k \in Reached : Straight(k)

(* Not overwritten by a later program, nor by the bootstrap's own data.    *)
LeftAlone(k) ==
  /\ \A j \in Reached : j > k => Limit(j) <= First(k) \/ Limit(k) <= First(j)
  /\ First(k) >= MMAP_ADDRESS + 12

Loading == {"second", "count", "program", "next"}
AfterLoading == {A20[i] : i \in DOMAIN A20} \cup {"switch", "jump", "start", "clear", "init", "kernel"}

(* bootstrap.S and BuildImage.c together: once the bootstrap has left its  *)
(* loop, every program that it got to is in memory, whole, where the       *)
(* command line of BuildImage said -- whatever reads had to be repeated    *)
(* and however often the machine was reset on the way.                     *)
LoadedAsBuilt ==
  pc \in AfterLoading /\ Sound =>
    \A k \in Reached : LeftAlone(k) =>
      \A s \in 1 .. info[k].count :
        LET address == First(k) + (s - 1) * SECTOR_SIZE
        IN  address \in DOMAIN mem /\ mem[address] = <<k, s>>

(* readprog never stores a sector outside the two of the bootstrap and the *)
(* areas of the programs in the table.                                     *)
NothingElseLoaded ==
  Sound => \A address \in DOMAIN mem :
    address \in {BOOT_ADDRESS, START_OFFSET} \/ \E k \in Reached : InArea(k, address)

Entered == pc \in {"start", "clear", "init", "kernel"}

(* The program of the table that is entered.                               *)
TheKernel == mem[TARGET_ADDRESS][1]

(* No program is loaded over the word of the memory map with the size.     *)
MapLeftAlone ==
  \A k \in Reached : Limit(k) <= MMAP_SECTORS \/ MMAP_SECTORS + 2 <= First(k)

(* startup.S is entered with the A20 gate open and in protected mode,      *)
(* whatever the keyboard controller did; and the memory map, which was     *)
(* written before the programs were loaded, still has the size of the      *)
(* kernel's image, if the kernel is the first of the table and no program  *)
(* of a sound table goes over the map.                                     *)
KernelFindsMachine ==
  Entered =>
    /\ kbc.a20 /\ cpu.pe
    /\ Sound /\ MapLeftAlone /\ TheKernel = 1 => sectors = info[TheKernel].count

(* The boot ends in the kernel, or in one of the loops that follow a       *)
(* message: the disk is not tried for ever, and enable_A20 gets through.   *)
Stopped == step = "quit" \/ pc \in {"frozen", "lost", "kernel"}
BootEnds == <>[]Stopped

-----------------------------------------------------------------------------
(* Not so.                                                                 *)

(* bootstrap.S:115, "store kernel image size": wherever BuildImage was     *)
(* told to put the kernel in the table.                                    *)
MapHoldsKernelSize ==
  Entered /\ Sound /\ MapLeftAlone => sectors = info[TheKernel].count

(* BuildImage.c, "Make sure the program will fit!".                        *)
ProgramsFit == step = "built" => \A k \in 1 .. Len(info) : Limit(k) <= LAST_ADDRESS + 1

(* BuildImage.c, "it is ok to go ahead and do it": a table that ends where *)
(* the GDT begins has no zero after it.                                    *)
LoadsOnlyTable == pc \in AfterLoading /\ (\A k \in Reached : Straight(k)) => DOMAIN mem \ {BOOT_ADDRESS, START_OFFSET} \subseteq
  {a \in DOMAIN mem : \E k \in 1 .. Len(info) : InArea(k, a)}

(* A program is loaded one sector after the other.                         *)
LoadedInOrder ==
  pc \in AfterLoading /\ TableEnds =>
    \A k \in Reached : LeftAlone(k) => First(k) \in DOMAIN mem /\ mem[First(k)] = <<k, 1>>

(* An image that the program was told of and made is all of its programs.  *)
BuiltWhole == step = "built" => \A k \in Programs : info[k].count = cmd.programs[k].sectors
AllLoaded  == pc \in AfterLoading => Reached = Programs

(* Enabling the A20 gate does not reset the machine.                       *)
NoReset == [][(pc \in AfterLoading) => (pc' # "off")]_vars

(* A disk that holds the whole image can be booted from, if reads succeed. *)
FitsDisk == 2 + Len(body) <= disk.secs * disk.heads * N_TRACKS
NotTooBig == pc = "frozen" /\ FitsDisk => prog.tries = 0 \/ prog = NoRead
=============================================================================
