SPECIFICATION TracingSpec
CONSTANTS
  Commands <- MCCommands
INVARIANTS
  ProcessesShare
  ListsFill
  FreedOnce
PROPERTIES
  TracingEnds
