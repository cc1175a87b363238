SPECIFICATION FairSpecWithHeader
CONSTANTS
  i1 = i1
  i2 = i2
  i3 = i3
  Host = host
  Addresses <- MCAddresses
  Lookups <- MCLookups
  Protocols = {1, 2, 3}
  Handler = handler
  MaxRotations = 1
INVARIANTS
  AttemptsAuthorized
  TunnelIsGranted
  RescueInOrder
  BadGatewayJustified
PROPERTIES
  Answered
CHECK_DEADLOCK FALSE
