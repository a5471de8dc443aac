SPECIFICATION Spec
CONSTANTS
  MaxLifetime = 2
  MaxSkew = 1
  TicksPerSecond = 2
  Devices <- TwoDevices
  Requests <- SomeRequests
  Challenges <- TwoChallenges
  Proofs <- SomeProofs
  Handlers = {h1, h2}
  MaxTime = 2
SYMMETRY HandlerSymmetry
INVARIANTS
  TypeOK
  OneActionPerChallenge
  ActionsWereAuthorised
  RevokedDevicesStartNothing
  PoliciesAgreeToTheSecond
CHECK_DEADLOCK FALSE
