SPECIFICATION RunnerSpec
CONSTANTS
  c1 = c1
  c2 = c2
  env = env
  m1 = m1
  m2 = m2
  s1 = s1
  s2 = s2
  r1 = r1
  r2 = r2
  a = a
  b = b
  Conns <- StoredAndEnv
  Environment <- JustEnv
  Models <- OneModel
  Sessions <- TwoSessions
  Requests <- OneRequest
  Kinds <- AllKinds
  MaxGen = 3
  MaxMutations = 2
  LogFiles = {a, b}
  MaxIndex = 2
  MaxSteps = 1
  MaxFaults = 1
  MaxStops = 1
  MaxPreviews = 1
  MaxEvents = 3
INVARIANTS InFlightIsLive AnsweredAtMostOnce TurnsStayApart LoopKeepsTurns ShutdownEndsTurn
PROPERTIES FlowTracksUnlessMixed ActivatedIsInstalled GateReopens CancelReturns
CHECK_DEADLOCK FALSE
