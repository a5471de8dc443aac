SPECIFICATION Spec
CONSTANTS
  Subjects = {s1}
  Keys = {k1, k2}
  Bodies <- OneBody
  Handlers = {h1, h2}
  Operations = {"create", "acknowledge", "cancel"}
  Receipts = {"acknowledged", "rejected"}
  MinRetention = 1
  MaxRetention = 3
  KeyTtl = 2
  MaxTime = 0
  MaxCalls = 3
SYMMETRY HandlerKeySymmetry
PROPERTY
  TerminalIsFinal
CHECK_DEADLOCK FALSE
