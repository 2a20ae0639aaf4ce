SPECIFICATION Spec
CONSTANTS
  a = a
  b = b
  blank = blank
  s1 = s1
  s2 = s2
  s3 = s3
  f1 = f1
  f2 = f2
  f3 = f3
  f4 = f4
  f5 = f5
  d1 = d1
  d2 = d2
  d3 = d3
  d4 = d4
  d5 = d5
  Lines <- MCLines
  Blank = blank
  Snippets <- MCSnippets
  MaxSnippets = 2
  MaxDocuments = 3
  Servers <- MCServers
  Files <- MCFiles
  Docs <- MCDocs
  FileOf <- MCFileOf
  ServerHas <- MCServerHas
  UploadedBy <- MCUploadedBy
  Contents <- MCContents
  QuestionCount = 2
  MaxFaults = 1
INVARIANTS TypeOK OneLineEach OrderKept NoEvidenceLost EvidenceOfItsFiles SameEmbedder FailsForReason
CHECK_DEADLOCK FALSE
