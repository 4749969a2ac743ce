SPECIFICATION CommandsSpec
CONSTANTS
  Names = {"fwd", "fwd_media", "history", "help"}
  Lines <- MCLines
  Heads <- MCHeads
  MaxArgs = 12
INVARIANTS
  HandlersAssertionsHold
\* A line comes to an end.
CHECK_DEADLOCK FALSE
