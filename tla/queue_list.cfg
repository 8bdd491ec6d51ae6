\* A queue of sleepers and a first-in-first-out queue share three qnodes.
CONSTANTS
  N_QNODES = 3
  Queue = {"sleeping", "waiting"}
  Sorted = {"sleeping"}
  Data = {10, 20, 30}
  wakeup <- Due
SPECIFICATION Spec
PROPERTIES ImplementsQueues
