SPECIFICATION Spec
CONSTANTS
  Flags <- MCFlags
  BaseURLs <- MCBaseURLs
  ResolverLists <- MCResolverLists
  VersionAnswers <- MCVersionAnswers
  Responses <- MCResponses
  PortFlags <- MCPortFlags
  MaxAttempts = 2
  QLen = 1
  Half = 128
  Scale = 3
INVARIANTS
  ExitExplained
  ReasonReported
  ServesConfigured
CHECK_DEADLOCK FALSE
