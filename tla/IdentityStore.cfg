SPECIFICATION IdentitySpec
CONSTANTS
  Wallet = {w1, w2, w3}
  Malformed = {w3}
  Identity = {i1, i2, i3}
  MaxTime = 1
  MaxRestarts = 1
INVARIANTS
  IdentityTypeOK
  ListedOnce
PROPERTIES
  OwnerMovesOnlyByLink
