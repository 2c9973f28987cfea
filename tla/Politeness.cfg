SPECIFICATION FairSpec
CONSTANTS
  a1 = a1
  a2 = a2
  a3 = a3
  A = A
  Tasks <- MCTasks
  Domains <- MCDomains
  Site <- MCSite
  Disallowed <- OneRefused
  Delay = 2
  TTL = 2
  MaxAttempts = 3
INVARIANTS TypeOK
PROPERTIES RobotsFetchedOnce Spaced EveryTaskEnds
