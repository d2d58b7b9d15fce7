SPECIFICATION Spec
CONSTANTS
  From = 1
  To = 4
  Concurrency = 2
  FetchSpan = 2
  TxBatchSize = 2
  MaxUnderfills = 1
  MaxRpcFaults = 1
  MaxWriteFaults = 1
  MaxWipes = 1
  MaxAborts = 1
INVARIANTS
  ContiguousUntilFault
  LookupComplete
  ResolvedMeansComplete
PROPERTIES
  SilentAfterWipe
  Settles
  ImplementsChain
