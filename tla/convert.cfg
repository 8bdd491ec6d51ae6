CONSTANTS
  BITS = 8
  LITERALS = {"a", "LF", "CR"}
  CODES = {"c", "s", "d", "x", "o", "%", "a"}
  CHARACTERS = {"a"}
  STRINGS <- SomeStrings
  NUMBERS <- SomeNumbers
  PLACES <- SomePlaces
  MAX_X = 6
  MIN_X = 1
  MAX_ITEMS = 2
  MAX_WIDTH = 5
  LINES = {"p", "q"}
  N_LINES = 6
SPECIFICATION ConsoleSpec
INVARIANTS DigitsRight FieldRight LeftToRight DumpTellsAll
\* A conversion and the dump of a stack run once.
CHECK_DEADLOCK FALSE
