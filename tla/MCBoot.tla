------------------------------- MODULE MCBoot -------------------------------
(***************************************************************************)
(* Command lines and disks for PowerUp.  The kernel of the Makefile is     *)
(* loaded at 0x10000; sizes are chosen to cross the end of a segment.      *)
(***************************************************************************)
EXTENDS PowerUp

At(address)   == [form |-> "linear", address |-> address]
Pair(s, o)    == [form |-> "colon", segment |-> s, offset |-> o]
Program(n, a) == [sectors |-> n, at |-> a]

Command(programs) ==
  [ok |-> TRUE, boot |-> TRUE, out |-> TRUE, drive |-> "usb", programs |-> programs, odd |-> FALSE]

Kernel(n) == Program(n, At(65536))

Mistakes ==
  {[Command(<<Kernel(1)>>) EXCEPT !.boot = FALSE],
   [Command(<<Kernel(1)>>) EXCEPT !.ok = FALSE],
   [Command(<<Kernel(1)>>) EXCEPT !.odd = TRUE],
   Command(<<>>),
   Command(<<Kernel(1), Program(1, [form |-> "bad"])>>),
   Command(<<Program(2, At(655360 - 1024))>>),
   Command(<<Kernel(1), Kernel(1), Kernel(1)>>)}

\* 128 sectors fill the segment; 0x1f800 and 1000:f800 are the same place;
\* 0x2c00 is below the memory map, and a sector from there goes over it.
Boots ==
  {Command(<<Kernel(129)>>),
   Command(<<Kernel(2), Program(4, Pair(4096, 64512))>>),
   Command(<<Kernel(2), Program(2, Pair(4097, 1000))>>),
   Command(<<Program(3, At(65536)), Program(1, At(66048))>>),
   Command(<<Program(2, At(12288)), Kernel(3)>>),
   Command(<<Program(1, At(32256)), Kernel(1)>>),
   Command(<<Program(1, At(1536)), Kernel(1)>>),
   Command(<<Kernel(1), Program(1, At(11264))>>)}

Commands == Mistakes \cup Boots

Floppy == [secs |-> 18, heads |-> 2]
Stick  == [secs |-> 63, heads |-> 256]
Tiny   == [secs |-> 3, heads |-> 1]
Narrow == [secs |-> 2, heads |-> 1]
Floppies == {Floppy, Narrow}
Disks    == {Floppy, Stick, Tiny, Narrow}

Bss == <<70000, 70010>>

\* Command lines for what is not so: a kernel that is not the first program, a
\* table without an end, a segment that is negative in a short, an offset that
\* is not a sector's, an empty program, a disk that is full (a floppy of 160
\* sectors).
NotSo ==
  {Command(<<Program(2, At(12288)), Kernel(3)>>),
   Command(<<Kernel(1), Program(1, At(131072)), Program(1, At(196608))>>),
   Command(<<Program(5, Pair(40832, 0))>>),
   Command(<<Kernel(1), Program(130, At(131080))>>),
   Command(<<Kernel(2), Program(0, At(131072)), Program(1, At(196608))>>),
   Command(<<Kernel(158)>>)}
=============================================================================
