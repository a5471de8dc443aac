SPECIFICATION Spec
CONSTANTS
  Devices <- TwoDevices
  Handlers = {h1, h2}
  Requests <- SomeRequests
  App = "3fa"
  Namespaces = {"vault"}
  MaxBatch = 2
  MaxSkew = 1
  MaxClock = 2
  Fraction = 2
  MaxTime = 1
SYMMETRY HandlerSymmetry
INVARIANTS
  HeadsAreWinners
  LogIsAuthorised
PROPERTY
  ImplementsStore
CHECK_DEADLOCK FALSE
