SPECIFICATION Spec
CONSTANTS
  None = None
  MaxStem = 2
  MaxSource = 2
  Commands <- MCCommands
  Sources <- MCSources
INVARIANT ToneMaps
\* A command ends.
CHECK_DEADLOCK FALSE
