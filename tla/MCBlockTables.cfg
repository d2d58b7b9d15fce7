SPECIFICATION Spec
CONSTANTS
  Addr = {a, b}
  None = None
  MaxBlocks = 3
  MaxMined = 4
  MaxSpecial = 2
  MaxFaults = 1
INVARIANTS
  TablesFollowChain
  BalancesAgree
  SidestakesAgree
  FlowsBalance
CHECK_DEADLOCK FALSE
