SPECIFICATION RegistrySpec
CONSTANTS
  Attempt = {a1}
  MalformedRefs = {"long/ref"}
  Namespace = {"solana", "eip155", "bip122"}
  Verifiers <- MCVerifiers
  Submissions <- MCSubmissions
  Expectations <- MCExpectations
  MaxTime = 2
  MaxRestarts = 0
PROPERTY
  ExpiredNeverVerifies
