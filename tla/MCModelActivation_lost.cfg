SPECIFICATION Spec
CONSTANTS
  c1 = c1
  c2 = c2
  env = env
  m1 = m1
  m2 = m2
  s1 = s1
  s2 = s2
  r1 = r1
  r2 = r2
  Conns <- OneStored
  Environment <- NoEnv
  Models <- OneModel
  Sessions <- OneSession
  Requests <- OneRequest
  Kinds <- EditRemove
  MaxGen = 3
  MaxMutations = 1
INVARIANTS PromptWaitsForResolution
CHECK_DEADLOCK FALSE
