SPECIFICATION Spec
CONSTANTS
  u1 = u1
  u2 = u2
  u3 = u3
  u4 = u4
  pdf = pdf
  image = image
  Uploads <- MCUploads
  Contents <- MCContents
  ContentOf <- MCContentOf
  Allowed <- MCAllowed
  Pieces = 2
  MaxFaults = 1
INVARIANTS DeletesSucceed
CHECK_DEADLOCK FALSE
