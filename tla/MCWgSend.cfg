CONSTANTS
  p1 = p1
  p2 = p2
  Peer <- Peers
  SendMayRelease = TRUE
  REKEY_AFTER_MESSAGES = 1
  REJECT_AFTER_MESSAGES = 2
  MaxBlocks = 2
  MaxSeals = 3
  MaxKeys = 3
SYMMETRY Symmetry
SPECIFICATION Spec
INVARIANT NonceNeverReused
INVARIANT DamageMeansOverlap
INVARIANT RekeyIsAsked
