------------------------------- MODULE MCSio -------------------------------
(***************************************************************************)
(* The texts that processes write to the serial line in the runs.          *)
(***************************************************************************)
EXTENDS SioProps

(* LF alone and inside, one character, one longer than two cells.          *)
ShortTexts == {<<LF>>, <<66>>, <<66, LF, 67>>}

(* With one that is longer than any buffer of the runs, and one that       *)
(* begins with LF and goes on.                                             *)
AnyTexts == ShortTexts \cup {<<65, 66, 67, LF, 68>>, <<LF, 66>>}
=============================================================================
