SPECIFICATION PeersSpec
CONSTANTS
  Mutations <- Catalogue
  Peers = {p1, p2}
  ReplayCapacity = 1
  MaxSequence = 4
SYMMETRY PeerSymmetry
INVARIANTS
  Convergence
PROPERTY
  RedeliveryIsHarmless
CHECK_DEADLOCK FALSE
