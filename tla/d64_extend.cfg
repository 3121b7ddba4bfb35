SPECIFICATION FairSpec
CONSTANTS
  Tasks = {t1}
  Handles = {h1, h2}
  Positions <- MCPositions
  Cells = 2
  Images <- MCImages
  StartOf <- MCStartOf
  Mode = 1
  Free <- MCFree
  Lengths = {1, 3}
  MaxOps = 4
  Seeks = "none"
  Fails = {}
  Lossy = FALSE
PROPERTY ImplementsFiles
CHECK_DEADLOCK FALSE
