SPECIFICATION FairSpec
CONSTANTS
  Nodes <- TwoNodes
  Names <- ABC
  Endpoints <- TheEndpoints
  Messages <- Three
  NodeOf <- TheNodes
  NameOf <- TheNames
  Calls <- FirstOnly
  MaxConns = 2
  MaxFaults = 2
INVARIANTS
  MessageInOnePlace
  ConnectingNameIsFree
  NoStaleBinding
PROPERTIES
  HandshakeFlushes
CHECK_DEADLOCK FALSE
