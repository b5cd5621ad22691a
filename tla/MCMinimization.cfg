SPECIFICATION MinSpec
CONSTANTS
  MaxLength = 7
  Findings = {"VIOLATED", "INSUFFICIENT_EVIDENCE"}
INVARIANT ResultSound
PROPERTY MinimizationEnds
CHECK_DEADLOCK FALSE
