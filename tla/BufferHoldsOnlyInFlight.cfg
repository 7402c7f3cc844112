SPECIFICATION WarmSpec
CONSTANTS
  Nonce = {n0, n1, n2}
  TTLs = {0}
  MaxTime = 0
  MaxRestarts = 0
  Wallet <- MCWallet
  Malformed <- MCMalformed
  Identity = {i1, i2}
  n0 = n0
  r0 = r0
  i1 = i1
  Request = {r0, r1, r2}
  Attempt = {r0, r1, r2}
  Browser = {"tab"}
  TokenTTL = 2
  RecorderCap = 3
  Contract = {}
  MalformedRefs = {"junk"}
  Namespace = {"solana"}
  Verifiers <- MCVerifiers
  Submissions <- MCSubmissions
  Expectations <- MCExpectations
INVARIANT
  BufferHoldsOnlyInFlight
CHECK_DEADLOCK FALSE
