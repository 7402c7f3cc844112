SPECIFICATION NonceSpec
CONSTANTS
  Nonce = {n1, n2, n3}
  TTLs = {1, 2}
  MaxTime = 4
  MaxRestarts = 1
INVARIANTS
  NonceTypeOK
  SpentAtMostOnce
  UsableNonceKept
PROPERTIES
  AcceptedInLifetime
  KeepsPromise
