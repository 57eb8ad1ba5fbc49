CONSTANTS
  NameOrder <- MCNameOrder
  Parts <- MCParts
  OutputName = "c"
  Unusable = {"x.y"}
  Fold <- MCFold
  SaysWith = {}
  SaysTools = {}
  SaysColon = {}
  Commands = {c1}
  Inputs <- MCInputs
  NewDirectories <- MCNewDirectories
  Texts = {"mine"}
  MaxEdits = 1
SPECIFICATION Spec
CHECK_DEADLOCK FALSE
INVARIANT ManualEditsKept
