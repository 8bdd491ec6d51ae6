--------------------------- MODULE MCConsoleText ---------------------------
(***************************************************************************)
(* What puts text on the console: the conversions called alone, as user    *)
(* programs do, c_printf, and the dump of a stack.  They share nothing but *)
(* the conversions, and one of them runs.  Arguments and positions with    *)
(* which c_printf is called in the runs.                                   *)
(***************************************************************************)
EXTENDS Printf, Dump

SomeStrings == {<<>>, <<"a", "b", "c">>, <<"a", LF, "b">>}
SomeNumbers == {-7, 0, 100}
SomePlaces  == {[x |-> 0, y |-> 1], [x |-> 4, y |-> 1]}

ConsoleInit == Init /\ PrintInit /\ DumpInit

NoPrintf == InText /\ items = 0 /\ place = NoPlace
NoDump   == words = <<>>

ConsoleNext ==
  \/ NoPrintf /\ NoDump /\ Next /\ UNCHANGED <<printVars, dumpVars>>
  \/ conv = "none" /\ NoDump /\ PrintNext /\ UNCHANGED <<vars, dumpVars>>
  \/ conv = "none" /\ NoPrintf /\ DumpNext /\ UNCHANGED <<vars, printVars>>

ConsoleSpec == ConsoleInit /\ [][ConsoleNext]_<<vars, printVars, dumpVars>>
=============================================================================
