SPECIFICATION Spec
CONSTANTS
  jan = jan
  feb = feb
  old = old
  new = new
  sam = sam
  ivy = ivy
  NoMonth = NoMonth
  None = None
  Callers = {sam, ivy}
  Syncers = {sam}
  Months = {jan, feb}
  Paths = {1, 2, 3}
  Home <- MCHome
  Bodies = {old, new}
  Accepts <- MCAccepts
  InitialTxts <- MCInitialTxts
  Flows <- MCFlows
  MaxEdition = 1
  MaxCalls = 1
  MaxFaults = 1
INVARIANT ConfigIsCurrent
PROPERTY SyncTellsTheTruth
PROPERTY EveryFlowAnswers
PROPERTY SyncConverges
CHECK_DEADLOCK FALSE
