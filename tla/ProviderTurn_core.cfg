SPECIFICATION Spec
CONSTANTS
  MaxText = 1
  MaxCalls = 1
  MaxTotalCalls = 1
  MaxFailures = 2
  MaxCompactions = 1
  MaxNotices = 1
  MaxWire = 1
  DelayBudget = 3
  RetryAfters = {0, 2}
INVARIANTS ShownIsRecorded TranscriptIsClean SettledOnce
PROPERTY CancelSettlesClient
