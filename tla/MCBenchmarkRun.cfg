SPECIFICATION BenchSpec
CONSTANTS
  c1 = c1
  c2 = c2
  p1 = p1
  p2 = p2
  Cases <- MCCases
  Vulnerable = {c1}
  Invocations = {p1, p2}
  Setups <- MCSetups
  MaxKills = 1
INVARIANTS
  CompletedIsWhole
  GateSound
PROPERTIES
  FinishedFrozen
  RunFinishes
CHECK_DEADLOCK FALSE
