SPECIFICATION ServiceSpec
CONSTANTS
  Subjects = {"s1"}
  Keys = {"k1", "k2"}
  Bodies <- OneBody
  Handlers = {h1, h2}
  Operations = {"create", "acknowledge", "cancel"}
  Receipts = {"acknowledged"}
  MinRetention = 1
  MaxRetention = 3
  KeyTtl = 1
  MaxTime = 1
  MaxCalls = 3
  Names <- SomeNames
  Portable <- SomeNames
  Uuids = {"s1"}
  Contexts = {"loa2"}
  Issuer = "iss"
  Audience = "aud"
  Client = "azp"
  Loa2 = "loa2"
  Methods = {"otp"}
  ClockSkew = 0
  MaxAuthAge = 1
  TokenLifetime = 3
  PrototypeLifetime = 1
  Tokens <- SomeTokens
  Requests <- SomeRequests
  Earlier <- EarlierCreate
  PoolSizes = {1, 2}
INVARIANTS
  EffectsWereAuthorised
  EffectsCanBeReplayed
  LocksHaveConnections
PROPERTIES
  EveryRequestEnds
  Drains
