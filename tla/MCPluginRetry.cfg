SPECIFICATION Spec
CONSTANTS
  None = None
  User = User
  c1 = c1
  c2 = c2
  Calls = {c1, c2}
  kA = kA
  kB = kB
  kC = kC
  kD = kD
  kE = kE
  kG = kG
  n2 = n2
  n3 = n3
  blue = blue
  FirstDoc <- MCFirstDoc
  FirstPage = 1
  FirstStyles <- MCFirstStyles
  FirstCollections <- MCFirstCollections
  Commands <- MCCommands
  MaxMoves = 1
  Fragile = {4, 10, 13}
SYMMETRY Symmetry
INVARIANT SafeRetryNeverDuplicates
