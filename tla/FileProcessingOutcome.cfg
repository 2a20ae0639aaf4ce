SPECIFICATION PromptSpec
CONSTANTS
  s1 = s1
  s2 = s2
  Servers <- MCServers
  Files <- TwoFiles
  DocCount <- MixedDocuments
  MaxConcurrent = 2
  ListLimit = 2
  Timeout = 1
  Grace = 0
  MaxFaults = 0
PROPERTIES OutcomeIsFinal
