SPECIFICATION Spec
CONSTANTS
  Unit = 10
  Validators <- MCValidators
  Delegators <- MCDelegators
  MaxEntries = 2
  UnbondingTime = 4
  PowerReduction = 1
  Nil = Nil
  Amounts = {2}
  Stakes <- MCStakes
  SelfDelegations <- MCSelfDelegations
  Delegations <- MCDelegations
  MaxValidators = {1, 2}
  SignedBlocksWindow = 2
  MinSignedPerWindow = 1
  DowntimeJailDuration = 1
  SlashFractionDowntime = 3
  SlashFractionDoubleSign = 10
  MaxAge = 1
  MaxHeight = 6
  MaxMsgs = 3
  MaxFaults = 2
  MaxInputs = 4
INVARIANTS StakeAddsUp ValidatorSetExact QueuesCover NoOtherPanic
 
CHECK_DEADLOCK FALSE
