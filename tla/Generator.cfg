CONSTANTS
  NameOrder <- MCNameOrder
  Parts <- MCParts
  OutputName = "c"
  Unusable = {"x.y"}
  Fold <- MCFold
  SaysWith = {"colon with"}
  SaysTools = {}
  SaysColon = {"colon with"}
  Commands = {c1, c2}
  Inputs <- MCInputs
  NewDirectories <- MCNewDirectories
  Texts = {"mine", "colon with"}
  MaxEdits = 2
SYMMETRY MCSymmetry
SPECIFICATION Spec
CHECK_DEADLOCK FALSE
INVARIANTS
  OutputNeverTorn
  PublishedTreeSurvives
  EveryToolReachable
  PlainEditsKept
PROPERTIES
  RegenerateSettles
