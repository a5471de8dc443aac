SPECIFICATION Spec
CONSTANTS
  Subjects = {s1, s2}
  Keys = {k1}
  Bodies <- OneBody
  Handlers = {h1}
  Operations = {"create", "acknowledge", "cancel", "get"}
  Receipts = {"acknowledged", "rejected"}
  MinRetention = 1
  MaxRetention = 3
  KeyTtl = 2
  MaxTime = 3
  MaxCalls = 3
SYMMETRY SubjectSymmetry
INVARIANTS
  AnswersAgree
  BindingsNameTheirTransfer
PROPERTY
  ImplementsPrototype
CHECK_DEADLOCK FALSE
