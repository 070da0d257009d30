SPECIFICATION Spec
CONSTANTS
  None = None
  MaxStem = 2
  MaxSource = 2
  Commands <- MCCommands
  Sources <- MCSources
INVARIANTS SentIsPlayable Settled StrictIsUntouched VerifiesWhatItPlans
\* A command ends.
CHECK_DEADLOCK FALSE
