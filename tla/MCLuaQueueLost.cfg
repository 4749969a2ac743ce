SPECIFICATION Spec
CONSTANTS
  Functions <- MCFunctions
  MaxSlots = 14
  MaxCalls = 3
INVARIANTS
  CallbacksAreKept
\* The process ends by an assertion when the array is full.
CHECK_DEADLOCK FALSE
