SPECIFICATION ProgramSpec
CONSTANTS
  i1 = i1
  i2 = i2
  i3 = i3
  Host = host
  Addresses <- MCAddresses
  Lookups <- MCLookups
  Protocols = {1, 2, 3}
PROPERTIES
  NetworkOperationsTimeOut
CHECK_DEADLOCK FALSE
