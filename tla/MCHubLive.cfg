SPECIFICATION ColdSpec
CONSTANTS
  Nonce = {n0, n1}
  TTLs = {0}
  MaxTime = 1
  MaxRestarts = 1
  Wallet <- MCEvmWallet
  Malformed = {}
  Identity = {i1, i2}
  n0 = n0
  r0 = r0
  i1 = i1
  Request = {r1, r2}
  Attempt = {r1, r2}
  Browser = {"tab"}
  TokenTTL = 2
  RecorderCap = 3
  Contract = {"w"}
  MalformedRefs = {}
  Namespace = {"eip155"}
  Verifiers <- MCEvmVerifiers
  Submissions <- MCEvmSubmissions
  Expectations <- MCExpectations
INVARIANTS
  MismatchHasCause
  OwnerNeedsRegistration
PROPERTIES
  ImplementsSignIn
  RequestsAnswered
  StoresUsedAsSpecified
CHECK_DEADLOCK FALSE
