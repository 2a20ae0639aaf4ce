SPECIFICATION Spec
CONSTANTS
  s1 = s1
  s2 = s2
  Servers <- MCServers
  Screenings <- TwoScreenings
  QuestionCount <- MixedQuestions
  MaxConcurrent = 2
  ListLimit = 2
  Timeout = 1
  Grace = 0
  MaxFaults = 0
INVARIANTS DeletedStaysDeleted
