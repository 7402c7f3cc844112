SPECIFICATION RpcSpec
CONSTANTS
  Call = {v1, v2, v3}
  Chain = {"eip155:1", "eip155:137"}
  Unknown = "eip155:5"
  Nobody = nobody
  MaxOps = 1
INVARIANTS
  RpcTypeOK
  OneConnection
  OwnContextOnly
PROPERTIES
  BlockedByOwnChainOnly
CHECK_DEADLOCK FALSE
