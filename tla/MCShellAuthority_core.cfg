SPECIFICATION Spec
CONSTANTS
  plain = plain
  listed = listed
  ask = ask
  human = human
  s1 = s1
  s2 = s2
  Commands = {plain, ask, human}
  Allowlisted = {ask, human}
  AskFirst = {ask}
  HumanPerforms = {human}
  Sessions = {s1}
  Safe = {"review"}
  MaxInvocations = 2
  MaxBatch = 2
  MaxDecisions = 1
  MaxFaults = 1
INVARIANTS RunsOnAuthority AuthorityIsRecorded
PROPERTIES CancelEndsTurn
