SPECIFICATION SiwsSpec
CONSTANTS
  Alphabet <- MCAlphabet
  Byte = 5
  MaxBase58Len = 4
  AddressLen = 2
  MaxMessageBytes = 19
  Wide = 4
  EndOfTime = 14
  Milli = 3
  NsChars <- MCNsChars
  RefChars <- MCRefChars
  AddrChars <- MCAddrChars
  NsLengths = {3, 4}
  RefLengths = {1, 2, 3}
  AddrLengths = {1, 2, 3, 4}
  Messages <- MCMessages
  Palette <- MCPalette
  Addresses <- MCAddresses
  ChainIDs <- MCChainIDs
  Instants = {2, 3, 5, 6, 7, 8, 9, 10, 12}
  Options <- MCOptions
  MaxEdits = 1
  Shortest = 8
INVARIANT
  SuccessfulParseRoundTrips
CHECK_DEADLOCK FALSE
