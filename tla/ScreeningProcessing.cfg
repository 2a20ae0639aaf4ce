SPECIFICATION FairSpec
CONSTANTS
  s1 = s1
  s2 = s2
  Servers <- MCServers
  Screenings <- TwoScreenings
  QuestionCount <- MixedQuestions
  MaxConcurrent = 2
  ListLimit = 2
  Timeout = 1
  Grace = 0
  MaxFaults = 1
INVARIANTS TypeOK InductiveInvariant CompletedIsAnswered RowsAgree ClaimsExclusive ClaimsBounded DeletedNeverRuns
PROPERTIES RequestedSettles StatusMoves ImplementsQueue
