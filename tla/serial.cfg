\* Both directions at once.
CONSTANTS
  BUF_SIZE = 2
  N_READERS = 1
  Chars = {13, 65}
  Texts <- ShortTexts
  WriteWhole = TRUE
  ReadSizes = {1, 3}
SPECIFICATION FairSpec
INVARIANTS TypeOK PumpPrimed
PROPERTIES ImplementsLine DroppedOnlyIfFull QueuedIsSent
\* Once the input pointer has left its array, nothing more is modelled.
CHECK_DEADLOCK FALSE
