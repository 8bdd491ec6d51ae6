\* Claims that the code does not keep: TLC reports the first that fails.
CONSTANTS
  BUF_SIZE = 3
  N_READERS = 1
  Chars = {13, 65}
  Texts <- AnyTexts
  WriteWhole = FALSE
  ReadSizes = {1, 2}
SPECIFICATION Spec
INVARIANTS CrThenLf CountReturned WriteNotOverstated AtMostSizeWritten StoredInBuffer OutputDumped
\* Once a pointer has left its array, nothing more is modelled.
CHECK_DEADLOCK FALSE
