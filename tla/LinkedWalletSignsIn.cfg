SPECIFICATION AnsweredSpec
CONSTANTS
  Wallet = {w1, w2}
  Malformed = {}
  Identity = {i1, i2}
  MaxTime = 0
  MaxRestarts = 0
PROPERTY
  LinkedWalletSignsIn
