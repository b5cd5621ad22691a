SPECIFICATION PolicySpec
CONSTANTS
  Policies = {"plain", "vague", "refused"}
  Refused = {"refused"}
  Vague = {"vague"}
  Specs = {"good", "better", "ambiguous", "invalid"}
  Ambiguous = {"ambiguous"}
  Invalid = {"invalid"}
  c1 = c1
  c2 = c2
  Confirmers = {c1, c2}
SYMMETRY ConfirmerSymmetry
INVARIANTS
  CallsAccountedOnce
  VersionsSound
CHECK_DEADLOCK FALSE
