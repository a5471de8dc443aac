SPECIFICATION Spec
CONSTANTS
  Subjects = {s1}
  Keys = {k1, k2}
  Bodies <- OneBody
  Handlers = {h1}
  Operations = {"create", "acknowledge"}
  Receipts = {"acknowledged"}
  MinRetention = 1
  MaxRetention = 3
  KeyTtl = 2
  MaxTime = 3
  MaxCalls = 3
SYMMETRY KeySymmetry
INVARIANT ExpiredBindingsAreReplaced
CHECK_DEADLOCK FALSE
