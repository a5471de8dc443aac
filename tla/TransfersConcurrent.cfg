SPECIFICATION Spec
CONSTANTS
  Subjects = {s1}
  Keys = {k1}
  Bodies <- TwoBodies
  Handlers = {h1, h2}
  Operations = {"create", "acknowledge"}
  Receipts = {"acknowledged", "ignored", "rejected"}
  MinRetention = 1
  MaxRetention = 3
  KeyTtl = 2
  MaxTime = 3
  MaxCalls = 3
SYMMETRY HandlerSymmetry
INVARIANTS
  TypeOK
  OneEffectPerKey
  LookupStaysTrue
  AnswersMatchCalls
CHECK_DEADLOCK FALSE
