\* Compression of every message kind, by the proxy's chain and by the tools.
CONSTANTS
  Unset = Unset
  Bad = Bad
  Failure = Failure
  DetailsLimit = 2
  Messages <- MCMessages
  Configs <- MCConfigs
  Chain <- MCChain
  ToolLimits <- MCToolLimits
SPECIFICATION Spec
INVARIANTS
  TypeOK
  OutputReadable
  ResponsesReadable
  FailsOpen
