------------------------------- MODULE Image -------------------------------
(***************************************************************************)
(* BuildImage.c: the host's program that makes the disk image, which is    *)
(* the two sectors of the bootstrap, the programs one after the other, and *)
(* in the last words of the bootstrap a table of where each program goes.  *)
(*                                                                         *)
(* One action per stage of main.  A file is the number of its sectors: the *)
(* padding of the last one makes every file a whole number of them.  An    *)
(* address is the number or the pair that the text of the argument stands  *)
(* for.  A call of the C library that fails is a choice, if IO_ERRORS.     *)
(*                                                                         *)
(* An operator named Op_Something is Op with a plausible mistake, as in    *)
(* KernelOps.                                                              *)
(***************************************************************************)
EXTENDS Integers, Sequences, FiniteSets

CONSTANTS
  COMMANDS,     \* command lines: [ok, boot, out, drive, programs, odd]
  FREE_WORDS,   \* zero words at the end of the assembled bootstrap (168)
  N_INFO,       \* words of the info array (256)
  IO_ERRORS     \* TRUE: files may fail to open, read or write

SECTOR_SIZE == 512
LAST_ADDRESS == 655359   \* 0x9ffff

Colon  == [form : {"colon"}, segment : 0 .. 65535, offset : 0 .. 65535]
Linear == [form : {"linear"}, address : Int]
Bad    == [form : {"bad"}]

ASSUME ImageConstants ==
  /\ FREE_WORDS \in Nat /\ N_INFO \in Nat /\ IO_ERRORS \in BOOLEAN
  /\ \A c \in COMMANDS :
       /\ {c.ok, c.boot, c.out, c.odd} \subseteq BOOLEAN
       /\ c.drive \in {"floppy", "usb"}
       /\ \A k \in DOMAIN c.programs :
            /\ c.programs[k].sectors \in Nat
            /\ \/ c.programs[k].at \in Colon \cup Bad
               \/ c.programs[k].at.form = "linear" /\ c.programs[k].at.address \in Int

VARIABLES
  cmd,      \* the command line
  step,     \* where main is
  loader,   \* what was copied of the bootstrap (see BootCopies)
  body,     \* sectors of the image after the bootstrap: <<program, sector>>
  info,     \* the table: [count, segment, offset] of each program, in order
  output    \* the output file: "none", "old" (of an earlier build), "partial"
            \* or the drive of a complete image

imageVars == <<cmd, step, loader, body, info, output>>

Programs == 1 .. Len(cmd.programs)

-----------------------------------------------------------------------------
(* The value of an argument, in a short where the code uses a short.       *)

Short(x) == ((x + 32768) % 65536) - 32768
Word(x)  == x % 65536

Segment(at) == Short(IF at.form = "colon" THEN at.segment ELSE at.address \div 16)
Offset(at)  == IF at.form = "colon" THEN Short(at.offset) ELSE at.address % 16
Address(at) == IF at.form = "colon" THEN Segment(at) * 16 + Offset(at) ELSE at.address

ValidAddress(at) ==
  /\ at.form # "bad"
  /\ at.form = "linear" => at.address <= LAST_ADDRESS

WillFit(at, n) == Address(at) + n * SECTOR_SIZE <= LAST_ADDRESS

(* What copy_file copies: all of the file, or what came before an error of *)
(* fread, which it takes for the end; a start and all but one stand for    *)
(* the places where that can be.                                           *)
Copied(n) == IF IO_ERRORS THEN {0, n - 1, n} \cap Nat ELSE {n}

(* The same of the bootstrap's two sectors.  An error may also come in the *)
(* middle of a sector, which is then filled up with nulls: "cut" has that  *)
(* in the second sector, "blank" in the first.  "short" lacks a sector.    *)
BootCopies == IF IO_ERRORS THEN {"whole", "short", "cut", "blank"} ELSE {"whole"}

-----------------------------------------------------------------------------
ImageInit ==
  /\ cmd \in COMMANDS
  /\ step = "args" /\ loader = "none" /\ body = <<>> /\ info = <<>>
  /\ output \in {"none", "old"}

(* quit() unlinks the output file, whoever made it.                        *)
Quit ==
  /\ step' = "quit"
  /\ output' = IF cmd.out THEN "none" ELSE output
  /\ UNCHANGED <<cmd, loader, body, info>>

(* Without the name of a file process_args leaves by exit(), not quit().   *)
BadArguments ==
  /\ step = "args"
  /\ IF cmd.ok /\ ~ (cmd.boot /\ cmd.out)
     THEN step' = "quit" /\ UNCHANGED <<cmd, loader, body, info, output>>
     ELSE ~ (cmd.ok /\ cmd.programs # <<>>) /\ Quit

ProcessArgs ==
  /\ step = "args" /\ cmd.ok /\ cmd.boot /\ cmd.out /\ cmd.programs # <<>>
  /\ step' = "open" /\ UNCHANGED <<cmd, loader, body, info, output>>

CallFails ==
  /\ IO_ERRORS /\ step \in {"open", "bootstrap", "programs", "table"}
  /\ Quit

OpenOutput ==
  /\ step = "open"
  /\ step' = "bootstrap" /\ output' = "partial"
  /\ UNCHANGED <<cmd, loader, body, info>>

CopyBootstrap ==
  /\ step = "bootstrap" /\ loader' \in BootCopies
  /\ step' = "programs" /\ UNCHANGED <<cmd, body, info, output>>

(* A program is copied before its address is looked at.                    *)
ProcessFile ==
  LET k  == Len(info) + 1
      at == cmd.programs[k].at
  IN  /\ step = "programs" /\ k \in Programs
      /\ \E n \in Copied(cmd.programs[k].sectors) :
           IF ValidAddress(at) /\ WillFit(at, n) /\ N_INFO - 3 * Len(info) >= 3
           THEN /\ body' = body \o [s \in 1 .. n |-> <<k, s>>]
                /\ info' = Append(info, [count |-> n, segment |-> Segment(at), offset |-> Offset(at)])
                /\ UNCHANGED <<cmd, step, loader, output>>
           ELSE Quit

ProgramsDone ==
  /\ step = "programs" /\ Len(info) = Len(cmd.programs)
  /\ IF cmd.odd THEN Quit
     ELSE step' = "table" /\ UNCHANGED <<cmd, loader, body, info, output>>

(* The words to be overwritten, at the end of what was copied, are read    *)
(* back, and have to be zero.  The first sector ends in the BIOS's         *)
(* signature.  A sector that was cut is taken to be null but for its first *)
(* word.                                                                   *)
FreeWords ==
  CASE loader = "whole" -> FREE_WORDS
    [] loader = "short" -> 0
    [] OTHER          -> SECTOR_SIZE \div 2 - 1
TableFits == 3 * Len(info) <= FreeWords

WriteTable ==
  /\ step = "table"
  /\ IF TableFits
     THEN step' = "built" /\ output' = cmd.drive /\ UNCHANGED <<cmd, loader, body, info>>
     ELSE Quit

Build ==
  \/ BadArguments \/ ProcessArgs \/ CallFails \/ OpenOutput \/ CopyBootstrap
  \/ ProcessFile \/ ProgramsDone \/ WriteTable

-----------------------------------------------------------------------------
(* The image, as the machine that boots from it finds it.                  *)

(* The last words of the bootstrap's code, before the free ones: its GDT.  *)
GdtWords == LET descriptor == <<207, 37376, 0, 65535>>   \* 0x00CF 0x9200 0 0xFFFF
                code       == <<207, 39424, 0, 65535>>   \*        0x9A00
            IN  descriptor \o descriptor \o code \o descriptor \o <<0, 0, 0, 0>>

(* The i'th word from the end of the bootstrap, from 0.  firstcount is 0.  *)
TableWord(i) ==
  LET entry == info[i \div 3 + 1]
  IN  CASE i < 3 * Len(info) /\ i % 3 = 0 -> Word(entry.count)
        [] i < 3 * Len(info) /\ i % 3 = 1 -> Word(entry.segment)
        [] i < 3 * Len(info) /\ i % 3 = 2 -> Word(entry.offset)
        [] 3 * Len(info) <= i /\ i < FreeWords -> 0
        [] OTHER -> IF i - FreeWords < Len(GdtWords) THEN GdtWords[i - FreeWords + 1] ELSE 0

(* A sector of the disk by its number: the image, then whatever was there. *)
DiskSector(lba) ==
  CASE lba < 2 -> <<0, lba + 1>>
    [] lba >= 2 /\ lba < 2 + Len(body) -> body[lba - 1]
    [] OTHER -> <<0, 0>>
=============================================================================
